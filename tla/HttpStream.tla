----------------------------- MODULE HttpStream -----------------------------
(***************************************************************************)
(* The HTTP parser as an embedder drives it: a stream of messages reaches  *)
(* it in pieces of any length, its callbacks may pause it or fail, and the *)
(* stream may end anywhere.  A message is described apart from its text;   *)
(* the text is the wire format of RFC 2616, and Events says which          *)
(* callbacks a reader of the message expects.                              *)
(***************************************************************************)
EXTENDS HttpUrl, TLC, SequencesExt

CONSTANTS
  Streams,    \* the streams that may come: messages and what follows them (tail,
              \* of which blank are the blank lines and whose callbacks are
              \* tailEvents), the parser's type, head: they answer HEAD requests,
              \* untilEof: the last body lasts until the end, and the error that
              \* refuses the stream; fussy are the callbacks that may pause or fail
  MaxPiece,   \* the longest piece that is not the rest of the stream
  Urls        \* descriptions of URLs, for http_parser_parse_url

VARIABLES
  stream,     \* the stream that comes
  at,         \* how many of its bytes the parser has consumed
  parser,     \* struct http_parser
  log,        \* the callbacks made, data callbacks in a row put together
  ended,      \* "no", "eof", "stopped" by an error, or "upgraded": the parser
              \* leaves the rest to another protocol
  link        \* a URL and the fields the library finds in it

vars == <<stream, at, parser, log, ended, link>>

-----------------------------------------------------------------------------
(* Messages, their text and their events.                                  *)

RECURSIVE Join(_)
Join(texts) == IF texts = <<>> THEN "" ELSE Head(texts) \o Join(Tail(texts))

HexOf(n) == At(HEX, n)
CRLF == "\r\n"

HeaderText(h) == h[1] \o ":" \o h[2] \o CRLF
HeadersText(hs) == Join([i \in DOMAIN hs |-> HeaderText(hs[i])])

StartText(m) ==
  IF "method" \in DOMAIN m
  THEN m.method \o " " \o m.url \o " HTTP/" \o m.version[1] \o "." \o m.version[2] \o CRLF
  ELSE "HTTP/" \o m.version[1] \o "." \o m.version[2] \o " " \o ToString(m.status)
       \o " " \o m.reason \o CRLF

ChunkText(piece) == HexOf(Len(piece)) \o CRLF \o piece \o CRLF

BodyText(m) ==
  IF m.chunked
  THEN Join([i \in DOMAIN m.body |-> ChunkText(m.body[i])]) \o "0" \o CRLF
       \o HeadersText(m.trailers) \o CRLF
  ELSE Join(m.body)

Text(m) == m.blank \o StartText(m) \o HeadersText(m.headers) \o CRLF \o BodyText(m)

HeaderEvents(hs) ==
  [i \in 1 .. 2 * Len(hs) |->
     LET h == hs[(i + 1) \div 2]
     IN IF i % 2 = 1 THEN [cb |-> "header_field", at |-> h[1]]
        ELSE [cb |-> "header_value", at |-> h[3]]]

Events(m, head) ==
  <<[cb |-> "message_begin", at |-> ""]>>
  \o (CASE "method" \in DOMAIN m -> <<[cb |-> "url", at |-> m.url]>>
        [] "method" \notin DOMAIN m /\ m.reason # "" -> <<[cb |-> "status", at |-> m.reason]>>
        [] OTHER -> <<>>)
  \o HeaderEvents(m.headers)
  \o <<[cb |-> "headers_complete",
        seen |-> [start |-> IF "method" \in DOMAIN m THEN m.method ELSE m.status,
                          version |-> <<Unhex(m.version[1]), Unhex(m.version[2])>>,
                          keep_alive |-> m.keep_alive]]>>
  \o (IF m.body = <<>> \/ head THEN <<>> ELSE <<[cb |-> "body", at |-> Join(m.body)]>>)
  \o (IF m.chunked THEN HeaderEvents(m.trailers) ELSE <<>>)
  \o <<[cb |-> "message_complete", at |-> ""]>>

\* The bytes a message takes: those of a response to HEAD have no body.
Bytes1(m, head) == Len(Text(m)) - IF head THEN Len(BodyText(m)) ELSE 0

RECURSIVE EventsOf(_, _)
EventsOf(ms, head) ==
  IF ms = <<>> THEN <<>> ELSE Events(Head(ms), head) \o EventsOf(Tail(ms), head)

StreamText(s) ==
  Join([i \in DOMAIN s.messages |->
          SubSeq(Text(s.messages[i]), 1, Bytes1(s.messages[i], s.head))]) \o s.tail

\* Where the k-th message ends.
RECURSIVE EndOf(_, _)
EndOf(s, k) == IF k = 0 THEN 0 ELSE EndOf(s, k - 1) + Bytes1(s.messages[k], s.head)

\* The positions between two messages, blank lines included.
Between(s) ==
  UNION {EndOf(s, k) .. EndOf(s, k) + Len(IF k < Len(s.messages)
                                          THEN s.messages[k + 1].blank ELSE s.blank)
           : k \in 0 .. Len(s.messages)}

Whole == [s \in Streams |->
            [text |-> StreamText(s), events |-> EventsOf(s.messages, s.head),
             between |-> Between(s), end |-> EndOf(s, Len(s.messages)),
             body |-> LET m == s.messages[Len(s.messages)]
                      IN EndOf(s, Len(s.messages)) - Len(BodyText(m))]]
text == Whole[stream].text
events == Whole[stream].events

-----------------------------------------------------------------------------
(* What the embedder does.                                                 *)

DataCallbacks == {"url", "status", "header_field", "header_value", "body"}
Callbacks == DataCallbacks \cup {"message_begin", "headers_complete", "message_complete"}

\* Data callbacks of one kind in a row carry one string.
Merge(seen, e) ==
  IF seen # <<>> /\ seen[Len(seen)].cb = e.cb /\ e.cb \in DataCallbacks
  THEN [seen EXCEPT ![Len(seen)].at = @ \o e.at] ELSE Append(seen, e)

RECURSIVE MergeAll(_, _)
MergeAll(seen, es) ==
  IF es = <<>> THEN seen ELSE MergeAll(Merge(seen, Head(es)), Tail(es))

NoLink == [text |-> ""]

Init ==
  /\ stream \in Streams
  /\ at = 0 /\ log = <<>> /\ ended = "no"
  /\ parser = http_parser_init(stream.type)
  /\ link = [of |-> NoLink, to |-> NoUrl]

User(fails, pauses) ==
  [headers_complete |-> IF stream.head THEN 1 ELSE 0, fails |-> fails, pauses |-> pauses]

\* The next n bytes.  A paused parser is resumed with the bytes it left, and an
\* upgrade, which http_parser.h says is to be checked here, is the end.
Deliver(n, fails, pauses) ==
  LET x == http_parser_execute(parser, User(fails, pauses), SubSeq(text, at + 1, at + n))
  IN /\ ended = "no" /\ link.of = NoLink
     /\ at + n <= Len(text)
     /\ parser' = IF x.P.http_errno = "PAUSED" THEN http_parser_pause(x.P, FALSE) ELSE x.P
     /\ at' = at + x.ret
     /\ log' = MergeAll(log, x.out)
     /\ ended' = CASE x.P.upgrade /\ [cb |-> "message_complete", at |-> ""] \in Range(x.out) ->
                        "upgraded"
                   [] x.P.http_errno \notin {"OK", "PAUSED"} -> "stopped"
                   [] OTHER -> "no"
     /\ UNCHANGED <<stream, link>>

\* The stream ends here.
Finish ==
  LET x == http_parser_execute(parser, User({}, {}), "")
  IN /\ ended = "no" /\ link.of = NoLink
     /\ parser' = x.P /\ log' = MergeAll(log, x.out) /\ ended' = "eof"
     /\ UNCHANGED <<stream, at, link>>

\* The embedder takes the URL of a message apart.
ParseUrl(u) ==
  /\ at = 0 /\ link.of = NoLink
  /\ link' = [of |-> u, to |-> http_parser_parse_url(u.text, u.connect)]
  /\ UNCHANGED <<stream, at, parser, log, ended>>
\* A piece is all that is left, or at most MaxPiece bytes.
Pieces(left) == {n \in 1 .. left : n <= MaxPiece \/ n = left}

Next ==
  \/ \E n \in Pieces(Len(text) - at), fails, pauses \in {{}, stream.fussy} :
       Deliver(n, fails, pauses)
  \/ Finish
  \/ \E u \in Urls : ParseUrl(u)

Spec == Init /\ [][Next]_vars

-----------------------------------------------------------------------------
(* What the parser promises its embedder.                                  *)

IsStart(a, b) == Len(a) <= Len(b) /\ SubSeq(b, 1, Len(a)) = a

\* All of the first callbacks, and a beginning of the last one.
SoFar(seen, all) ==
  /\ Len(seen) <= Len(all)
  /\ \A i \in 1 .. Len(seen) - 1 : seen[i] = all[i]
  /\ seen # <<>> =>
       LET a == seen[Len(seen)]
           b == all[Len(seen)]
       IN a.cb = b.cb /\ IF a.cb \in DataCallbacks THEN IsStart(a.at, b.at) ELSE a = b

\* However the stream is cut into pieces and wherever the parser is paused, the
\* callbacks are those of the messages in it, in order and each once, with the
\* method, status and version of their message; none is missing when all of the
\* stream has been read, or when an upgrade ends the HTTP part of it, and then
\* the bytes of the next protocol are left (http_parser_execute).
Decoded ==
  /\ ended # "eof" => SoFar(log, events \o stream.tailEvents)
  /\ (at = Len(text) /\ parser.http_errno = "OK" /\ ~stream.untilEof) => log = events
  /\ ended = "upgraded" =>
       log = events /\ at = Whole[stream].end

\* The end of the stream is accepted between messages, and completes a body that
\* lasts until then; in the middle of a message it is an error (the len == 0
\* case of http_parser_execute).
EofJudged ==
  ended = "eof" =>
    IF stream.untilEof /\ at >= Whole[stream].body
    THEN /\ parser.http_errno = "OK" /\ log[Len(log)].cb = "message_complete"
         /\ SoFar(Front(log), events)
    ELSE (parser.http_errno = "OK") <=> (at \in Whole[stream].between)

\* A stream that is not HTTP, or whose header section, body length or chunk size
\* is beyond the limits, is never read to its end, is refused with the error
\* that names the reason, and completes no message it should not.
Refused ==
  /\ ended = "stopped" => parser.http_errno \in {stream.error, "CB"} \ {"OK"}
  /\ stream.error # "OK" => at < Len(text)

\* A stream is judged rightly, whether it ends or goes on too long.
Judged == EofJudged /\ Refused

ChunkStates ==
  {"s_chunk_size_start", "s_chunk_size", "s_chunk_parameters",
   "s_chunk_size_almost_done", "s_chunk_data", "s_chunk_data_almost_done",
   "s_chunk_data_done"}

\* The assertions of http_parser.c, in whatever state a call leaves a parser
\* that has not failed.
AssertionsHold ==
  parser.http_errno = "OK" =>
    /\ parser.state \in {"s_body_identity", "s_chunk_data"} =>
         parser.content_length \notin {0, ULLONG_MAX}
    /\ parser.state = "s_chunk_data_almost_done" => parser.content_length = 0
    /\ parser.state \in ChunkStates => "F_CHUNKED" \in parser.flags
    /\ parser.state = "s_chunk_size_start" => parser.nread = 0
    /\ parser.state = "s_header_value" =>
         parser.header_state \notin {"h_connection", "h_transfer_encoding", "h_upgrade"}

\* http_parser_parse_url gives back the parts a URL was put together from, the
\* brackets of an IPv6 address left out, and refuses what is not a URL.
UrlSplit ==
  link.of # NoLink =>
    \/ link.of.bad /\ link.to.bad
    \/ /\ ~link.of.bad /\ ~link.to.bad
       /\ \A f \in Fields :
            IF f \in DOMAIN link.of.parts
            THEN /\ f \in link.to.set
                 /\ SubSeq(link.of.text, link.to.off[f],
                           link.to.off[f] + link.to.len[f] - 1) = link.of.parts[f]
            ELSE f \notin link.to.set
       /\ "PORT" \in DOMAIN link.of.parts => ToString(link.to.port) = link.of.parts["PORT"]
=============================================================================
