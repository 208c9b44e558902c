--------------------------- MODULE MCHttpSamples ---------------------------
(***************************************************************************)
(* Streams and URLs for HttpStream: every method, every kind of body, what *)
(* may follow a message, and texts that are refused.                       *)
(***************************************************************************)
EXTENDS Naturals, Sequences, TLC

CRLF == "\r\n"

Req == [method |-> "GET", url |-> "/", version |-> <<"1", "1">>, blank |-> "",
        headers |-> <<>>, body |-> <<>>, chunked |-> FALSE, trailers |-> <<>>,
        keep_alive |-> TRUE]
Res == [status |-> 200, reason |-> "OK", version |-> <<"1", "1">>, blank |-> "",
        headers |-> <<>>, body |-> <<>>, chunked |-> FALSE, trailers |-> <<>>,
        keep_alive |-> TRUE]

\* A header as the text after the colon and as the value a reader expects.
H(name, value) == <<name, " " \o value, value>>
Length(n) == H("Content-Length", n)
Chunked == H("Transfer-Encoding", "chunked")

Of(type, messages) ==
  [messages |-> messages, tail |-> "", blank |-> "", tailEvents |-> <<>>, type |-> type,
   head |-> FALSE, untilEof |-> FALSE, error |-> "OK", fussy |-> {}]
Requests(messages) == Of("HTTP_REQUEST", messages)
Responses(messages) == Of("HTTP_RESPONSE", messages)

Methods ==
  {"DELETE", "GET", "HEAD", "POST", "PUT", "OPTIONS", "TRACE", "COPY",
   "LOCK", "MKCOL", "MOVE", "PROPFIND", "PROPPATCH", "SEARCH", "UNLOCK", "REPORT",
   "MKACTIVITY", "CHECKOUT", "MERGE", "M-SEARCH", "NOTIFY", "SUBSCRIBE",
   "UNSUBSCRIBE", "PATCH", "PURGE", "MKCALENDAR"}

EveryMethod == {Requests(<<[Req EXCEPT !.method = m]>>) : m \in Methods}

Pipelined ==
  Requests(<<[Req EXCEPT !.method = "POST", !.headers = <<Length("3"), H("Connection", "x")>>,
                         !.body = <<"a\r\n">>],
             [Req EXCEPT !.blank = CRLF, !.url = "/p?q#f", !.headers = <<H("Co", "close")>>]>>)

Chunks ==
  Requests(<<[Req EXCEPT !.method = "PUT", !.headers = <<Chunked>>, !.chunked = TRUE,
                         !.body = <<"ab", "c">>, !.trailers = <<H("T", "v")>>],
             [Req EXCEPT !.url = "http://u@h:80/x"]>>)

\* A value continued on the next line, an empty one, and one without spaces.
OddHeaders ==
  Requests(<<[Req EXCEPT !.headers = << <<"A", " b\r\n c", "b c">>, <<"E", "", "">>,
                                        <<"F", "g", "g">> >>]>>)

Closing ==
  [Requests(<<[Req EXCEPT !.headers = <<H("Connection", "close")>>, !.keep_alive = FALSE]>>)
     EXCEPT !.tail = "\r\n", !.blank = "\r\n"]
Old == [Requests(<<[Req EXCEPT !.version = <<"1", "0">>, !.keep_alive = FALSE]>>)
          EXCEPT !.tail = "G", !.error = "CLOSED_CONNECTION"]
OldKept ==
  Requests(<<[Req EXCEPT !.version = <<"1", "0">>,
                         !.headers = <<H("Connection", "keep-alive")>>],
             Req>>)
Upgrading ==
  [Requests(<<[Req EXCEPT !.headers = <<H("Upgrade", "x")>>]>>) EXCEPT !.tail = "raw"]
Tunnel == [Requests(<<[Req EXCEPT !.method = "CONNECT", !.url = "h:1"]>>) EXCEPT !.tail = "raw"]

Answers ==
  Responses(<<[Res EXCEPT !.headers = <<Length("2")>>, !.body = <<"hi">>],
              [Res EXCEPT !.status = 204, !.reason = ""], [Res EXCEPT !.status = 304]>>)
AnswersChunked ==
  Responses(<<[Res EXCEPT !.headers = <<Chunked>>, !.chunked = TRUE, !.body = <<"x">>],
              [Res EXCEPT !.headers = <<Length("0")>>]>>)
ToHead ==
  [Responses(<<[Res EXCEPT !.headers = <<Length("2")>>, !.body = <<"hi">>],
               [Res EXCEPT !.headers = <<Length("2")>>, !.body = <<"hi">>]>>)
     EXCEPT !.head = TRUE]
UntilEof ==
  [Responses(<<[Res EXCEPT !.body = <<"rest">>, !.keep_alive = FALSE]>>)
     EXCEPT !.untilEof = TRUE]
Either ==
  { Of("HTTP_BOTH", <<[Req EXCEPT !.method = "HEAD"]>>), Of("HTTP_BOTH", <<Req>>),
    Of("HTTP_BOTH", <<[Res EXCEPT !.headers = <<Length("1")>>, !.body = <<"x">>]>>) }

Begin == [cb |-> "message_begin", at |-> ""]
UrlEvent == [cb |-> "url", at |-> "/"]
Bad(tail, error, seen) ==
  [Requests(<<Req>>) EXCEPT !.tail = tail, !.error = error, !.tailEvents = seen]

Bads ==
  { Bad("GOT / ", "INVALID_METHOD", <<Begin>>), Bad("PURCE / ", "INVALID_METHOD", <<Begin>>),
    Bad("GET / HTTP/1.x\r", "INVALID_VERSION", <<Begin, UrlEvent>>),
    Bad("GET / HTTQ/1.1", "STRICT", <<Begin, UrlEvent>>),
    Bad("GET / HTTP/1.1\r\nA B:", "INVALID_HEADER_TOKEN",
        <<Begin, UrlEvent, [cb |-> "header_field", at |-> "A"]>>),
    Bad("GET / HTTP/1.1\r\nContent-Length: 9999\r\n", "INVALID_CONTENT_LENGTH",
        <<Begin, UrlEvent, [cb |-> "header_field", at |-> "Content-Length"],
          [cb |-> "header_value", at |-> "9999"]>>),
    Bad("GET /ab HTTP/1.1\r\nX: 34567890123456789012345678901234567890123456789012345",
        "HEADER_OVERFLOW",
        <<Begin, [cb |-> "url", at |-> "/ab"], [cb |-> "header_field", at |-> "X"],
          [cb |-> "header_value",
           at |-> "34567890123456789012345678901234567890123456789012345"]>>) }

BadChunks ==
  { Bad("GET / HTTP/1.1\r\nTransfer-Encoding: chunked\r\n\r\n" \o c[1], c[2],
        <<Begin, UrlEvent, [cb |-> "header_field", at |-> "Transfer-Encoding"],
          [cb |-> "header_value", at |-> "chunked"],
          [cb |-> "headers_complete",
           seen |-> [start |-> "GET", version |-> <<1, 1>>, keep_alive |-> TRUE]]>>)
      : c \in { <<"g\r\n", "INVALID_CHUNK_SIZE">>, <<"fff\r\n", "INVALID_CONTENT_LENGTH">>} }

Callbacks ==
  {"url", "status", "header_field", "header_value", "body", "message_begin",
   "headers_complete", "message_complete"}
Fussy(s) == [s EXCEPT !.fussy = Callbacks]

AllStreams ==
  EveryMethod \cup Either \cup Bads \cup BadChunks
  \cup {Pipelined, OddHeaders, Closing, Old, OldKept, Upgrading, Answers, UntilEof}
  \cup {Fussy(Chunks), Fussy(Tunnel), Fussy(AnswersChunked), Fussy(ToHead)}

-----------------------------------------------------------------------------
Part(f, v) == IF v = "" THEN <<>> ELSE f :> v
Link(s, ui, h, port, path, q, f) ==
  [connect |-> FALSE, bad |-> f # "" /\ path = "" /\ q = "",
   text |-> s \o "://" \o (IF ui = "" THEN "" ELSE ui \o "@")
            \o (IF h = "::1" THEN "[" \o h \o "]" ELSE h)
            \o (IF port = "" THEN "" ELSE ":" \o port) \o path
            \o (IF q = "" THEN "" ELSE "?" \o q) \o (IF f = "" THEN "" ELSE "#" \o f),
   parts |-> Part("SCHEMA", s) @@ Part("USERINFO", ui) @@ Part("HOST", h) @@ Part("PORT", port)
             @@ Part("PATH", path) @@ Part("QUERY", q) @@ Part("FRAGMENT", f)]

AllUrls ==
  { Link("http", ui, h, port, path, q, f) :
      ui \in {"", "u:p"}, h \in {"h.x", "::1"}, port \in {"", "80", "65535"},
      path \in {"", "/", "/a/b"}, q \in {"", "k=?"}, f \in {"", "f?"} }
  \cup { [connect |-> TRUE, bad |-> FALSE, text |-> "h:443",
          parts |-> ("HOST" :> "h" @@ "PORT" :> "443")],
         [connect |-> FALSE, bad |-> FALSE, text |-> "*", parts |-> ("PATH" :> "*")] }
  \cup { [connect |-> c, bad |-> TRUE, text |-> t, parts |-> <<>>] :
         <<c, t>> \in { <<FALSE, "http:///x">>, <<FALSE, "http://h:65536/">>, <<FALSE, "http://h:/">>,
                        <<FALSE, "http://a@b@h/">>, <<FALSE, "http://[::1/">>, <<FALSE, "ht/">>,
                        <<TRUE, "h">>, <<TRUE, "h:1/x">>, <<FALSE, "http://@/">>} }
=============================================================================
