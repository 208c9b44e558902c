----------------------------- MODULE HttpSession -----------------------------
(***************************************************************************)
(* The HTTP layer of the library (src/src/net/http/Http.h, Http.cpp): a    *)
(* client session and a server session over the two directions of a TCP    *)
(* connection, each with the parser of module HttpParser.  The client      *)
(* writes the requests of a talk, the server answers each, from its        *)
(* request callback or at the end of the request's body as the example     *)
(* server does, and the bytes arrive in pieces.                            *)
(***************************************************************************)
EXTENDS HttpParser, TLC, SequencesExt

CONSTANTS
  Talks,     \* sequences of exchanges: a request, its answer, when it is answered
  MaxCuts    \* how many reads may return less than what has arrived

ASSUME HttpSessionAssumption == MaxCuts \in Nat

VARIABLES
  talk,      \* the talk that takes place
  written,   \* how many writes the client has made: a header and a body each
  pipe,      \* the bytes on their way to each side
  parser,    \* the parser of each session
  packet,    \* the packet each session is filling
  seen,      \* the messages handed to each application, with what it got of the body
  open,      \* the sides whose socket is open
  cuts,      \* the reads that returned less than what had arrived
  torn       \* the messages of which a read ended in or just after a header name

vars == <<talk, written, pipe, parser, packet, seen, open, cuts, torn>>

Sides == {"ClientSide", "ServerSide"}
Other(side) == IF side = "ClientSide" THEN "ServerSide" ELSE "ClientSide"

-----------------------------------------------------------------------------
(* HttpPacket.  headers is a std::map: what is written is a sequence in    *)
(* the order of the names, what is read a function.                        *)

CRLF == "\r\n"
Text(strings) == FoldLeft(LAMBDA a, b : a \o b, "", strings)

MakeHeader(p) ==
  (IF "method" \in DOMAIN p
   THEN p.method \o " " \o p.url \o " HTTP/1.1" \o CRLF
   ELSE "HTTP/1.1 " \o ToString(p.status_code) \o " " \o p.status \o CRLF)
  \o Text([i \in DOMAIN p.headers |-> p.headers[i][1] \o ":" \o p.headers[i][2] \o CRLF])
  \o CRLF

NoPacket == "null"
Unset == "unset"
NewPacket == [url |-> "", status |-> "", status_code |-> Unset, headers |-> <<>>,
              field |-> "", value |-> ""]

\* [mutation] The value is not cleared.
StoreHeaderOnly(p) ==
  IF p.field = "" THEN p
  ELSE [p EXCEPT !.headers = (p.field :> p.value) @@ @, !.field = ""]

\* What on_header_field and on_headers_complete do with the header before.
StoreHeader(p) ==
  IF p.field = "" THEN p
  ELSE [p EXCEPT !.headers = (p.field :> p.value) @@ @, !.field = "", !.value = ""]

-----------------------------------------------------------------------------
(* The callbacks of a session, on a record s of the session's packet, what *)
(* its application has seen, and what is written meanwhile.                *)

on_header_field(s, bytes) ==
  [s EXCEPT !.packet = [StoreHeader(@) EXCEPT !.field = @ \o bytes]]

\* The server's application answers the k-th request.
Answer(s, k, when) ==
  IF s.side = "ServerSide" /\ talk[k].when = when
  THEN [s EXCEPT !.out = @ \o MakeHeader(talk[k].answer) \o talk[k].answer.body] ELSE s

\* The request and the response objects share the packet; both applications
\* register OnBody in onRequest or onResponse.  The status code was set by
\* on_status, if there was one.
on_headers_complete(s, start) ==
  LET p == StoreHeader(s.packet)
      code == IF s.side = "ServerSide" \/ p.status = "" THEN Unset ELSE start
      got == [url |-> p.url, status |-> p.status, status_code |-> code,
              headers |-> p.headers, body |-> "", ends |-> 0]
      t == [s EXCEPT !.packet = [p EXCEPT !.status_code = code],
                     !.seen = Append(@, got)]
  IN Answer(t, Len(t.seen), "request")

on_body(s, bytes) == [s EXCEPT !.seen[Len(s.seen)].body = @ \o bytes]

\* onBody(nullptr, 0), and the packet is given up.
on_message_complete(s) ==
  Answer([s EXCEPT !.seen[Len(s.seen)].ends = @ + 1, !.packet = NoPacket],
         Len(s.seen), "body")

Callback(s, e) ==
  CASE e.cb = "message_begin" -> [s EXCEPT !.packet = NewPacket]
    [] e.cb = "url" -> [s EXCEPT !.packet.url = @ \o e.at]
    [] e.cb = "status" -> [s EXCEPT !.packet.status = @ \o e.at]
    [] e.cb = "header_field" -> on_header_field(s, e.at)
    [] e.cb = "header_value" -> [s EXCEPT !.packet.value = @ \o e.at]
    [] e.cb = "headers_complete" -> on_headers_complete(s, e.seen.start)
    [] e.cb = "body" -> on_body(s, e.at)
    [] e.cb = "message_complete" -> on_message_complete(s)

-----------------------------------------------------------------------------

Init ==
  /\ talk \in Talks /\ written = 0
  /\ pipe = [side \in Sides |-> ""]
  /\ parser = [side \in Sides |->
                 http_parser_init(IF side = "ServerSide" THEN "HTTP_REQUEST"
                                  ELSE "HTTP_RESPONSE")]
  /\ packet = [side \in Sides |-> NoPacket]
  /\ seen = [side \in Sides |-> <<>>]
  /\ open = Sides /\ cuts = 0 /\ torn = [side \in Sides |-> {}]

\* HttpRequest::WriteHeader and WriteBody, in turn.
Write ==
  LET request == talk[written \div 2 + 1].request
      bytes == IF written % 2 = 0 THEN MakeHeader(request) ELSE request.body
  IN /\ written < 2 * Len(talk)
     /\ written' = written + 1
     /\ pipe' = IF "ClientSide" \in open THEN [pipe EXCEPT !["ServerSide"] = @ \o bytes]
                ELSE pipe
     /\ UNCHANGED <<talk, parser, packet, seen, open, cuts, torn>>

\* onData, with n bytes: an unread rest is an error, and onError closes the
\* socket, whose unsent data is lost.
onData(side, n) ==
  /\ side \in open
  /\ \/ n = Len(pipe[side]) /\ cuts' = cuts
     \/ n < Len(pipe[side]) /\ cuts < MaxCuts /\ cuts' = cuts + 1
  /\ \E x \in {http_parser_execute(parser[side],
                                   [headers_complete |-> 0, fails |-> {}, pauses |-> {}],
                                   SubSeq(pipe[side], 1, n))} :
     \E s \in {FoldLeft(Callback, [side |-> side, packet |-> packet[side],
                                   seen |-> seen[side], out |-> ""], x.out)} :
       LET failed == x.ret # n
       IN /\ parser' = [parser EXCEPT ![side] = x.P]
          /\ packet' = [packet EXCEPT ![side] = s.packet]
          /\ seen' = [seen EXCEPT ![side] = s.seen]
          /\ open' = IF failed THEN open \ {side} ELSE open
          /\ pipe' = [pipe EXCEPT ![side] = IF failed THEN "" ELSE SubSeq(@, n + 1, Len(@)),
                                  ![Other(side)] = IF failed THEN @ ELSE @ \o s.out]
          /\ torn' = IF x.P.state = "s_header_field"
                     THEN [torn EXCEPT ![side] = @ \cup {Len(s.seen) + 1}] ELSE torn
  /\ UNCHANGED <<talk, written>>

\* The other side has closed: the socket's error callback is onError too.
onError(side) ==
  /\ side \in open /\ Other(side) \notin open
  /\ open' = open \ {side} /\ pipe' = [pipe EXCEPT ![side] = ""]
  /\ UNCHANGED <<talk, written, parser, packet, seen, cuts, torn>>

ReadAll(side) == pipe[side] # "" /\ onData(side, Len(pipe[side]))
Read(side) == \E n \in 1 .. Len(pipe[side]) : onData(side, n)

Next == Write \/ \E side \in Sides : Read(side) \/ onError(side)

\* A session always calls Recv again, and what has arrived is read (ArrivedIsRead
\* of module TCPSocket); the client need not write.
ReadFairly(side) ==
  \/ []<>(pipe[side] = "" \/ side \notin open)
  \/ []<><<ReadAll(side)>>_vars

Spec == Init /\ [][Next]_vars /\ \A side \in Sides : ReadFairly(side)

-----------------------------------------------------------------------------
(* What the two applications can rely on.                                  *)

\* What was written as the k-th message to a side.
Sent(side, k) == IF side = "ServerSide" THEN talk[k].request ELSE talk[k].answer
HeadersOf(p) ==
  [name \in {p.headers[i][1] : i \in DOMAIN p.headers} |->
     p.headers[CHOOSE i \in DOMAIN p.headers : p.headers[i][1] = name][2]]

StartAsSent(got, p) ==
  IF "method" \in DOMAIN p THEN got.url = p.url
  ELSE /\ got.status = p.status
       /\ got.status_code = IF p.status = "" THEN Unset ELSE p.status_code

\* The messages an application gets are those the other one wrote, in their order,
\* with their URL or status and all their headers, wherever the reads ended, as
\* long as none ended inside a header name (on_header_field, on_header_value,
\* on_headers_complete; on_header_field takes each part for a name).
AsWritten ==
  \A side \in Sides : \A k \in DOMAIN seen[side] :
    /\ k <= Len(talk) /\ StartAsSent(seen[side][k], Sent(side, k))
    /\ k \notin torn[side] => seen[side][k].headers = HeadersOf(Sent(side, k))

\* OnBody gets the body in order, each byte once, and then one end; a message ends
\* before the next one begins, and only when its body is whole (on_body,
\* on_message_complete, and the end that the parser finds).
BodyWhole ==
  \A side \in Sides : \A k \in DOMAIN seen[side] :
    LET got == seen[side][k]
    IN /\ k <= Len(talk)
       /\ IsPrefix(got.body, Sent(side, k).body)
       /\ got.ends \in IF k < Len(seen[side]) THEN {1} ELSE {0, 1}
       /\ got.ends = 1 => got.body = Sent(side, k).body

\* A session sees the messages that the other wrote, no more and no less.
MessagesWhole == AsWritten /\ BodyWhole

\* A header of a message is never changed, dropped or run together by the way the
\* bytes were cut into reads: http_parser.h:75-77 says that a data callback "does
\* not return data chunks" and will be called "many times for each string".
HeadersWhole ==
  \A side \in Sides : \A k \in DOMAIN seen[side] :
    seen[side][k].headers = HeadersOf(Sent(side, k))

Closes(k) == \E h \in Range(talk[k].request.headers) : h[1] = "Connection"

\* Every request that was written is answered in the end, and its body completed,
\* however the bytes are cut, unless the connection was to close and more came (the
\* parser then refuses it, and Close drops the answer that is not yet written).
Answered ==
  \A k \in 1 .. 2 :
    (written >= 2 * k) ~>
      \/ Len(seen["ClientSide"]) >= k /\ seen["ClientSide"][k].ends = 1
      \/ \E i \in 1 .. Len(talk) - 1 : Closes(i)
=============================================================================
