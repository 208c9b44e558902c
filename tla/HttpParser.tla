----------------------------- MODULE HttpParser -----------------------------
(***************************************************************************)
(* The incremental HTTP parser of src/src/net/http/http_parser.c, built    *)
(* with HTTP_PARSER_STRICT as its header has it.  A parser is a record     *)
(* with the fields of struct http_parser; Execute is one call of           *)
(* http_parser_execute on a piece of the stream, and returns the parser    *)
(* after it, the callbacks it made, in their order, and the number of      *)
(* bytes it says it has consumed.                                          *)
(*                                                                         *)
(* A byte is a string of length one and positions count from 1, so that    *)
(* the C expression "p - data" is p - 1 here.  The tables tokens, unhex    *)
(* and normal_url_char are the sets of characters they stand for (the      *)
(* backquote, which no string of TLA+ may hold, is left out).              *)
(***************************************************************************)
EXTENDS Integers, Sequences

CONSTANTS
  ULLONG_MAX,             \* the largest content_length; it also means "none given"
  HTTP_MAX_HEADER_SIZE    \* the limit on the bytes of a header section

ASSUME HttpParserAssumption ==
  /\ ULLONG_MAX \in Nat /\ ULLONG_MAX > 16
  /\ HTTP_MAX_HEADER_SIZE \in Nat \ {0}

At(w, i) == IF i < Len(w) THEN SubSeq(w, i + 1, i + 1) ELSE ""
CharsOf(w) == {SubSeq(w, i, i) : i \in 1 .. Len(w)}

UPPER == "ABCDEFGHIJKLMNOPQRSTUVWXYZ"
LOWERS == "abcdefghijklmnopqrstuvwxyz"
HEX == "0123456789abcdef"

LowerOf ==
  [c \in CharsOf(UPPER) |->
     At(LOWERS, CHOOSE i \in 0 .. 25 : At(UPPER, i) = c)]
LOWER(c) == IF c \in DOMAIN LowerOf THEN LowerOf[c] ELSE c

UnhexOf == [c \in CharsOf(HEX) |-> CHOOSE i \in 0 .. 15 : At(HEX, i) = c]
Unhex(c) == IF LOWER(c) \in DOMAIN UnhexOf THEN UnhexOf[LOWER(c)] ELSE -1

NumChars == CharsOf("0123456789")
AlphaChars == CharsOf(UPPER) \cup CharsOf(LOWERS)
AlnumChars == AlphaChars \cup NumChars
MarkChars == CharsOf("-_.!~*'()")
UserinfoChars == AlnumChars \cup MarkChars \cup CharsOf("%;:&=+$,")
HostChars == AlnumChars \cup CharsOf(".-")
UrlChars == UserinfoChars \cup CharsOf("/<>@[]^{|}") \cup {"\"", "\\"}
TokenChars == AlnumChars \cup CharsOf("!#$%&'*+-.^_|~")

\* TOKEN(c): the lower-case letter, or "" where the table has 0.
TOKEN(c) == IF c \in TokenChars THEN LOWER(c) ELSE ""

CR == "\r"
LF == "\n"
SP == " "
TAB == "\t"

-----------------------------------------------------------------------------
(* parse_url_char: the automaton of a URL, as the set of its moves.        *)

UrlMoves ==
  { << {"s_req_spaces_before_url"}, {"/", "*"}, "s_req_path" >>,
    << {"s_req_spaces_before_url", "s_req_schema"}, AlphaChars, "s_req_schema" >>,
    << {"s_req_schema"}, {":"}, "s_req_schema_slash" >>,
    << {"s_req_schema_slash"}, {"/"}, "s_req_schema_slash_slash" >>,
    << {"s_req_schema_slash_slash"}, {"/"}, "s_req_server_start" >>,
    << {"s_req_server_start", "s_req_server", "s_req_server_with_at"},
       {"/"}, "s_req_path" >>,
    << {"s_req_server_start", "s_req_server", "s_req_server_with_at"},
       {"?"}, "s_req_query_string_start" >>,
    << {"s_req_server_start", "s_req_server"}, {"@"}, "s_req_server_with_at" >>,
    << {"s_req_server_start", "s_req_server", "s_req_server_with_at"},
       UserinfoChars \cup {"[", "]"}, "s_req_server" >>,
    << {"s_req_path"}, UrlChars, "s_req_path" >>,
    << {"s_req_path"}, {"?"}, "s_req_query_string_start" >>,
    << {"s_req_query_string_start", "s_req_query_string"},
       UrlChars \cup {"?"}, "s_req_query_string" >>,
    << {"s_req_path", "s_req_query_string_start", "s_req_query_string",
        "s_req_fragment_start"}, {"#"}, "s_req_fragment_start" >>,
    << {"s_req_fragment_start"}, UrlChars \cup {"?"}, "s_req_fragment" >>,
    << {"s_req_fragment"}, UrlChars \cup {"?", "#"}, "s_req_fragment" >> }

parse_url_char(s, ch) ==
  LET moves == {m \in UrlMoves : s \in m[1] /\ ch \in m[2]}
  IN IF moves = {} THEN "s_dead" ELSE (CHOOSE m \in moves : TRUE)[3]

UrlStates ==
  {"s_req_schema", "s_req_schema_slash", "s_req_schema_slash_slash",
   "s_req_server_start", "s_req_server", "s_req_server_with_at", "s_req_path",
   "s_req_query_string_start", "s_req_query_string", "s_req_fragment_start",
   "s_req_fragment"}

\* The states beyond s_headers_done, whose bytes are not header bytes.
BodyStates ==
  {"s_chunk_data", "s_chunk_data_almost_done", "s_chunk_data_done",
   "s_body_identity", "s_body_identity_eof", "s_message_done"}

-----------------------------------------------------------------------------
(* The parser, and the run of one call over it.                            *)

http_parser_init(t) ==
  [type |-> t, flags |-> {}, header_state |-> "h_general", index |-> 0,
   state |-> CASE t = "HTTP_REQUEST" -> "s_start_req"
               [] t = "HTTP_RESPONSE" -> "s_start_res"
               [] OTHER -> "s_start_req_or_res",
   nread |-> 0, content_length |-> 0, http_major |-> 0, http_minor |-> 0,
   status_code |-> 0, method |-> "DELETE", http_errno |-> "OK",
   upgrade |-> FALSE]

\* [mutation] 204 and 304 are not told apart.
http_message_needs_eof_always(P) ==
  /\ P.type # "HTTP_REQUEST" /\ P.status_code \div 100 # 1
  /\ "F_SKIPBODY" \notin P.flags
  /\ "F_CHUNKED" \notin P.flags /\ P.content_length = ULLONG_MAX

http_message_needs_eof(P) ==
  /\ P.type # "HTTP_REQUEST"
  /\ P.status_code \div 100 # 1 /\ P.status_code \notin {204, 304}
  /\ "F_SKIPBODY" \notin P.flags
  /\ "F_CHUNKED" \notin P.flags /\ P.content_length = ULLONG_MAX

http_should_keep_alive(P) ==
  /\ IF P.http_major > 0 /\ P.http_minor > 0
     THEN "F_CONNECTION_CLOSE" \notin P.flags
     ELSE "F_CONNECTION_KEEP_ALIVE" \in P.flags
  /\ ~http_message_needs_eof(P)

\* NEW_MESSAGE() of the strict build.
NewMessage(P) ==
  IF ~http_should_keep_alive(P) THEN "s_dead"
  ELSE IF P.type = "HTTP_REQUEST" THEN "s_start_req" ELSE "s_start_res"

\* http_parser_pause: only a parser without an error is paused or resumed.
http_parser_pause(P, paused) ==
  IF P.http_errno \in {"OK", "PAUSED"}
  THEN [P EXCEPT !.http_errno = IF paused THEN "PAUSED" ELSE "OK"] ELSE P

http_body_is_final(P) == P.state = "s_message_done"

Running == -1      \* the call has not returned
NoMarks == [f \in {"header_field", "header_value", "url", "body", "status"} |-> 0]

Set(x, f, v) == [x EXCEPT !.P[f] = v]
Goto(x, s) == [x EXCEPT !.P.state = s]
Return(x, n) == [x EXCEPT !.ret = n]
Fail(x, e) == Return(Set(x, "http_errno", e), x.p - 1)
MARK(x, f) == IF x.mark[f] = 0 THEN [x EXCEPT !.mark[f] = x.p] ELSE x

\* A callback ran: a non-zero result is an error, a pause is not, and both
\* make the call return er.  x.user says what the embedder's callbacks do.
Called(x, f, at, er) ==
  LET y == [x EXCEPT !.out = Append(@, [cb |-> f, at |-> at])]
      e == CASE f \in x.user.fails -> "CB" [] f \in x.user.pauses -> "PAUSED"
             [] OTHER -> "OK"
  IN IF e = "OK" THEN y ELSE Return(Set(y, "http_errno", e), er)

NOTIFY(x, f) == Called(x, f, "", x.p)

\* CALLBACK_DATA_: the bytes from the mark to "to", and the mark is cleared.
DATA_(x, f, to, er) ==
  IF x.mark[f] = 0 THEN x
  ELSE LET y == Called(x, f, SubSeq(x.data, x.mark[f], to), er)
       IN IF y.ret = Running THEN [y EXCEPT !.mark[f] = 0] ELSE y
DATA(x, f) == DATA_(x, f, x.p - 1, x.p)
DATA_NOADVANCE(x, f) == DATA_(x, f, x.p - 1, x.p - 1)

RECURSIVE Byte(_)

\* goto reexecute_byte, unless a callback made the call return.
Again(x) == IF x.ret = Running THEN Byte(x) ELSE x

-----------------------------------------------------------------------------
(* Start of a message, and the constants and numbers of its first line.    *)

NewHeader(x) == Set(Set(x, "flags", {}), "content_length", ULLONG_MAX)

FirstMethod ==
  [C |-> "CONNECT", D |-> "DELETE", G |-> "GET", H |-> "HEAD", L |-> "LOCK",
   M |-> "MKCOL", N |-> "NOTIFY", O |-> "OPTIONS", P |-> "POST",
   R |-> "REPORT", S |-> "SUBSCRIBE", T |-> "TRACE", U |-> "UNLOCK"]

StartByte(x, ch) ==
  CASE x.P.state = "s_dead" ->
         IF ch \in {CR, LF} THEN x ELSE Fail(x, "CLOSED_CONNECTION")
    [] x.P.state = "s_start_req_or_res" ->
         IF ch \in {CR, LF} THEN x
         ELSE IF ch = "H"
         THEN NOTIFY(Goto(NewHeader(x), "s_res_or_resp_H"), "message_begin")
         ELSE Again(Goto(Set(NewHeader(x), "type", "HTTP_REQUEST"), "s_start_req"))
    [] x.P.state = "s_res_or_resp_H" ->
         CASE ch = "T" -> Goto(Set(x, "type", "HTTP_RESPONSE"), "s_res_HT")
           [] ch = "E" -> Goto([x EXCEPT !.P.type = "HTTP_REQUEST",
                                         !.P.method = "HEAD", !.P.index = 2],
                               "s_req_method")
           [] OTHER -> Fail(x, "INVALID_CONSTANT")
    [] x.P.state = "s_start_res" ->
         IF ch \notin {"H", CR, LF} THEN Fail(NewHeader(x), "INVALID_CONSTANT")
         ELSE NOTIFY(IF ch = "H" THEN Goto(NewHeader(x), "s_res_H")
                     ELSE NewHeader(x), "message_begin")
    [] x.P.state = "s_start_req" ->
         IF ch \in {CR, LF} THEN x
         ELSE IF ch \notin DOMAIN FirstMethod
         THEN Fail(NewHeader(x), "INVALID_METHOD")
         ELSE NOTIFY(Goto([NewHeader(x) EXCEPT !.P.method = FirstMethod[ch],
                                               !.P.index = 1], "s_req_method"),
                     "message_begin")

\* The method seen so far may turn out to be another with the same beginning.
MethodTurns ==
  { <<"CONNECT", 1, "H", "CHECKOUT">>, <<"CONNECT", 2, "P", "COPY">>,
    <<"MKCOL", 1, "O", "MOVE">>, <<"MKCOL", 1, "E", "MERGE">>,
    <<"MKCOL", 1, "-", "M-SEARCH">>, <<"MKCOL", 2, "A", "MKACTIVITY">>,
    <<"MKCOL", 3, "A", "MKCALENDAR">>, <<"SUBSCRIBE", 1, "E", "SEARCH">>,
    <<"POST", 1, "R", "PROPFIND">>, <<"POST", 1, "U", "PUT">>,
    <<"POST", 1, "A", "PATCH">>, <<"PUT", 2, "R", "PURGE">>,
    <<"UNLOCK", 2, "S", "UNSUBSCRIBE">>, <<"PROPFIND", 4, "P", "PROPPATCH">> }

MethodByte(x, ch) ==
  LET P == x.P
      turns == {t \in MethodTurns : <<t[1], t[2], t[3]>> = <<P.method, P.index, ch>>}
      y == [x EXCEPT !.P.index = @ + 1]
  IN CASE ch = SP /\ P.index = Len(P.method) -> Goto(y, "s_req_spaces_before_url")
       [] ch = At(P.method, P.index) -> y
       [] ch # At(P.method, P.index) /\ turns # {} ->
            [y EXCEPT !.P.method = (CHOOSE t \in turns : TRUE)[4]]
       [] OTHER -> Fail(x, "INVALID_METHOD")

\* The bytes that must come next: "HTTP/", and the LF after a CR.
Literals ==
  [s_res_H |-> <<"T", "s_res_HT">>, s_res_HT |-> <<"T", "s_res_HTT">>,
   s_res_HTT |-> <<"P", "s_res_HTTP">>,
   s_res_HTTP |-> <<"/", "s_res_first_http_major">>,
   s_res_line_almost_done |-> <<LF, "s_header_field_start">>,
   s_req_http_H |-> <<"T", "s_req_http_HT">>,
   s_req_http_HT |-> <<"T", "s_req_http_HTT">>,
   s_req_http_HTT |-> <<"P", "s_req_http_HTTP">>,
   s_req_http_HTTP |-> <<"/", "s_req_first_http_major">>,
   s_req_line_almost_done |-> <<LF, "s_header_field_start">>,
   s_header_almost_done |-> <<LF, "s_header_value_lws">>,
   s_header_value_discard_ws_almost_done |-> <<LF, "s_header_value_discard_lws">>]

LiteralByte(x, ch) ==
  LET want == Literals[x.P.state]
  IN IF ch = want[1] THEN Goto(x, want[2])
     ELSE Fail(x, IF x.P.state = "s_req_line_almost_done" THEN "LF_EXPECTED"
                  ELSE "STRICT")

\* The numbers of the first line: the field each state reads, the state its
\* first digit leads to, the error, and the bytes that end the number.
Numbers ==
  [s_res_first_http_major |-> <<"http_major", "s_res_http_major">>,
   s_res_http_major |-> <<"http_major", "s_res_http_major">>,
   s_res_first_http_minor |-> <<"http_minor", "s_res_http_minor">>,
   s_res_http_minor |-> <<"http_minor", "s_res_http_minor">>,
   s_res_first_status_code |-> <<"status_code", "s_res_status_code">>,
   s_res_status_code |-> <<"status_code", "s_res_status_code">>,
   s_req_first_http_major |-> <<"http_major", "s_req_http_major">>,
   s_req_http_major |-> <<"http_major", "s_req_http_major">>,
   s_req_first_http_minor |-> <<"http_minor", "s_req_http_minor">>,
   s_req_http_minor |-> <<"http_minor", "s_req_http_minor">>]
NumberEnds ==
  { <<"s_res_http_major", ".", "s_res_first_http_minor">>,
    <<"s_res_http_minor", SP, "s_res_first_status_code">>,
    <<"s_res_first_status_code", SP, "s_res_first_status_code">>,
    <<"s_res_status_code", SP, "s_res_status_start">>,
    <<"s_res_status_code", CR, "s_res_line_almost_done">>,
    <<"s_res_status_code", LF, "s_header_field_start">>,
    <<"s_req_http_major", ".", "s_req_first_http_minor">>,
    <<"s_req_http_minor", CR, "s_req_line_almost_done">>,
    <<"s_req_http_minor", LF, "s_header_field_start">> }

NumberByte(x, ch) ==
  LET s == x.P.state
      field == Numbers[s][1]
      first == s # Numbers[s][2]
      ends == {e \in NumberEnds : e[1] = s /\ e[2] = ch}
      error == IF field = "status_code" THEN "INVALID_STATUS" ELSE "INVALID_VERSION"
      n == (IF first THEN 0 ELSE x.P[field] * 10) + Unhex(ch)
      y == Goto(Set(x, field, n), Numbers[s][2])
  IN CASE ends # {} -> Goto(x, (CHOOSE e \in ends : TRUE)[3])
       [] ends = {} /\ (ch \notin NumChars
                        \/ (s = "s_req_first_http_major" /\ ch = "0")) ->
            Fail(x, error)
       [] OTHER -> IF n > 999 THEN Fail(y, error) ELSE y

StatusByte(x, ch) ==
  LET next == IF ch = CR THEN "s_res_line_almost_done" ELSE "s_header_field_start"
  IN CASE x.P.state = "s_res_status_start" ->
            IF ch \in {CR, LF} THEN Goto(x, next)
            ELSE Set(Goto(MARK(x, "status"), "s_res_status"), "index", 0)
       [] x.P.state = "s_res_status" ->
            IF ch \in {CR, LF} THEN DATA(Goto(x, next), "status") ELSE x

-----------------------------------------------------------------------------
(* The URL and the header fields.                                          *)

UrlByte(x, ch) ==
  LET s == x.P.state
      to == parse_url_char(IF s = "s_req_spaces_before_url" /\ x.P.method = "CONNECT"
                           THEN "s_req_server_start" ELSE s, ch)
      moved == IF to = "s_dead" THEN Fail(Goto(x, to), "INVALID_URL") ELSE Goto(x, to)
  IN CASE s = "s_req_spaces_before_url" ->
            IF ch = SP THEN x
            ELSE IF to = "s_dead" THEN moved ELSE MARK(moved, "url")
       [] s \in {"s_req_schema", "s_req_schema_slash",
                 "s_req_schema_slash_slash", "s_req_server_start"} ->
            IF ch \in {SP, CR, LF} THEN Fail(x, "INVALID_URL") ELSE moved
       [] s = "s_req_http_start" ->
            CASE ch = "H" -> Goto(x, "s_req_http_H")
              [] ch = SP -> x
              [] OTHER -> Fail(x, "INVALID_CONSTANT")
       [] OTHER ->
            CASE ch = SP -> DATA(Goto(x, "s_req_http_start"), "url")
              [] ch \in {CR, LF} ->
                   DATA(Goto([x EXCEPT !.P.http_major = 0, !.P.http_minor = 9],
                             IF ch = CR THEN "s_req_line_almost_done"
                             ELSE "s_header_field_start"), "url")
              [] OTHER -> moved

\* The words the parser looks for while it reads a name or a value.
Words ==
  [h_matching_connection |-> <<"connection", "h_connection">>,
   h_matching_proxy_connection |-> <<"proxy-connection", "h_connection">>,
   h_matching_content_length |-> <<"content-length", "h_content_length">>,
   h_matching_transfer_encoding |-> <<"transfer-encoding", "h_transfer_encoding">>,
   h_matching_upgrade |-> <<"upgrade", "h_upgrade">>,
   h_matching_transfer_encoding_chunked |-> <<"chunked", "h_transfer_encoding_chunked">>,
   h_matching_connection_keep_alive |-> <<"keep-alive", "h_connection_keep_alive">>,
   h_matching_connection_close |-> <<"close", "h_connection_close">>]

\* One more character of a word: matched at its last, given up at a mismatch.
MatchWord(x, c) ==
  LET word == Words[x.P.header_state]
      i == x.P.index + 1
      hs == IF i > Len(word[1]) \/ c # At(word[1], i) THEN "h_general"
            ELSE IF i = Len(word[1]) - 1 THEN word[2] ELSE x.P.header_state
  IN [x EXCEPT !.P.index = i, !.P.header_state = hs]

FieldStartByte(x, ch) ==
  LET c == TOKEN(ch)
      hs == CASE c = "c" -> "h_C"
              [] c = "p" -> "h_matching_proxy_connection"
              [] c = "t" -> "h_matching_transfer_encoding"
              [] c = "u" -> "h_matching_upgrade"
              [] OTHER -> "h_general"
  IN CASE ch = CR -> Goto(x, "s_headers_almost_done")
       [] ch = LF -> Again(Goto(x, "s_headers_almost_done"))
       [] ch \notin {CR, LF} /\ c = "" -> Fail(x, "INVALID_HEADER_TOKEN")
       [] OTHER -> [MARK(x, "header_field") EXCEPT
                      !.P.index = 0, !.P.state = "s_header_field",
                      !.P.header_state = hs]

\* connection and content-length share their first three letters.
FieldNameMoves ==
  { <<"h_C", "o", "h_CO">>, <<"h_CO", "n", "h_CON">>,
    <<"h_CON", "n", "h_matching_connection">>,
    <<"h_CON", "t", "h_matching_content_length">> }

FieldName(x, ch) ==
  LET hs == x.P.header_state
      to == {m \in FieldNameMoves : m[1] = hs /\ m[2] = TOKEN(ch)}
  IN CASE hs \in {"h_C", "h_CO", "h_CON"} ->
            [x EXCEPT !.P.index = @ + 1,
                      !.P.header_state = IF to = {} THEN "h_general"
                                         ELSE (CHOOSE m \in to : TRUE)[3]]
       [] hs \in DOMAIN Words -> MatchWord(x, TOKEN(ch))
       [] OTHER -> Set(x, "header_state", "h_general")

FieldByte(x, ch) ==
  CASE TOKEN(ch) # "" -> FieldName(x, ch)
    [] ch = ":" -> DATA(Goto(x, "s_header_value_discard_ws"), "header_field")
    [] ch = CR -> DATA(Goto(x, "s_header_almost_done"), "header_field")
    [] ch = LF -> DATA(Goto(x, "s_header_field_start"), "header_field")
    [] OTHER -> Fail(x, "INVALID_HEADER_TOKEN")

\* The first byte of a value decides what it is compared with.
ValueStart(x, ch) ==
  LET c == LOWER(ch)
      y == [MARK(x, "header_value") EXCEPT
              !.P.state = "s_header_value", !.P.index = 0]
      general == Set(y, "header_state", "h_general")
  IN CASE x.P.header_state = "h_upgrade" ->
            [general EXCEPT !.P.flags = @ \cup {"F_UPGRADE"}]
       [] x.P.header_state = "h_transfer_encoding" /\ c = "c" ->
            Set(y, "header_state", "h_matching_transfer_encoding_chunked")
       [] x.P.header_state = "h_content_length" ->
            IF ch \in NumChars THEN Set(y, "content_length", Unhex(ch))
            ELSE Fail(y, "INVALID_CONTENT_LENGTH")
       [] x.P.header_state = "h_connection" /\ c = "k" ->
            Set(y, "header_state", "h_matching_connection_keep_alive")
       [] x.P.header_state = "h_connection" /\ c = "c" ->
            Set(y, "header_state", "h_matching_connection_close")
       [] OTHER -> general

ValueStartByte(x, ch) ==
  CASE x.P.state = "s_header_value_start" -> ValueStart(x, ch)
    [] x.P.state = "s_header_value_discard_ws" ->
         CASE ch \in {SP, TAB} -> x
           [] ch = CR -> Goto(x, "s_header_value_discard_ws_almost_done")
           [] ch = LF -> Goto(x, "s_header_value_discard_lws")
           [] OTHER -> ValueStart(x, ch)
    [] x.P.state = "s_header_value_discard_lws" ->
         IF ch \in {SP, TAB} THEN Goto(x, "s_header_value_discard_ws")
         ELSE Again(DATA_NOADVANCE(Goto(MARK(x, "header_value"),
                                        "s_header_field_start"), "header_value"))

\* A number that grows by a digit, refused near the largest one.
Grow(x, base, ch) ==
  IF (ULLONG_MAX - base) \div base < x.P.content_length
  THEN Fail(x, "INVALID_CONTENT_LENGTH")
  ELSE [x EXCEPT !.P.content_length = (@ * base + Unhex(ch)) % (ULLONG_MAX + 1)]

ValueByte(x, ch) ==
  LET hs == x.P.header_state
  IN CASE ch = CR -> DATA(Goto(x, "s_header_almost_done"), "header_value")
       [] ch = LF -> Again(DATA_NOADVANCE(Goto(x, "s_header_almost_done"),
                                          "header_value"))
       [] ch \notin {CR, LF} /\ hs = "h_content_length" ->
            CASE ch = SP -> x
              [] ch \in NumChars -> Grow(x, 10, ch)
              [] OTHER -> Fail(x, "INVALID_CONTENT_LENGTH")
       [] ch \notin {CR, LF} /\ hs \in DOMAIN Words -> MatchWord(x, LOWER(ch))
       [] ch = SP /\ hs \in {"h_transfer_encoding_chunked",
                             "h_connection_keep_alive", "h_connection_close"} -> x
       [] OTHER -> Set(x, "header_state", "h_general")

\* The end of a header line, unless the next line continues it.
FlagOf ==
  [h_connection_keep_alive |-> {"F_CONNECTION_KEEP_ALIVE"},
   h_connection_close |-> {"F_CONNECTION_CLOSE"},
   h_transfer_encoding_chunked |-> {"F_CHUNKED"}]

ValueLwsByte(x, ch) ==
  LET hs == x.P.header_state
  IN IF ch \in {SP, TAB} THEN Again(Goto(x, "s_header_value_start"))
     ELSE Again(Goto([x EXCEPT !.P.flags = @ \cup
                        IF hs \in DOMAIN FlagOf THEN FlagOf[hs] ELSE {}],
                     "s_header_field_start"))

-----------------------------------------------------------------------------
(* The end of the headers, and the body.                                   *)

\* message_complete, after which the parser waits for the next message.
Complete(x) == NOTIFY(Goto(x, NewMessage(x.P)), "message_complete")

\* What the fields of the parser tell on_headers_complete of the message.
Seen(P) == [start |-> IF P.type = "HTTP_REQUEST" THEN P.method ELSE P.status_code,
            version |-> <<P.http_major, P.http_minor>>,
            keep_alive |-> http_should_keep_alive(P)]

\* on_headers_complete may answer 1, "this message has no body", or fail.
HeadersComplete(x) ==
  LET y == [x EXCEPT !.P.state = "s_headers_done",
                     !.P.upgrade = \/ "F_UPGRADE" \in x.P.flags
                                   \/ x.P.method = "CONNECT",
                     !.out = Append(@, [cb |-> "headers_complete", seen |-> Seen(x.P)])]
      z == CASE x.user.headers_complete = 0 -> y
             [] x.user.headers_complete = 1 ->
                  [y EXCEPT !.P.flags = @ \cup {"F_SKIPBODY"}]
             [] OTHER -> Fail(y, "CB")
  IN IF z.ret = Running /\ "headers_complete" \in x.user.pauses
     THEN Fail(z, "PAUSED") ELSE Again(z)

HeadersDone(x0) ==
  LET x == Set(x0, "nread", 0)
      P == x.P
  IN CASE P.upgrade ->
            LET y == Complete(x) IN IF y.ret = Running THEN Return(y, x.p) ELSE y
       [] ~P.upgrade /\ "F_SKIPBODY" \in P.flags -> Complete(x)
       [] ~P.upgrade /\ "F_SKIPBODY" \notin P.flags /\ "F_CHUNKED" \in P.flags ->
            Goto(x, "s_chunk_size_start")
       [] OTHER ->
            CASE P.content_length = 0 -> Complete(x)
              [] P.content_length \notin {0, ULLONG_MAX} -> Goto(x, "s_body_identity")
              [] P.content_length = ULLONG_MAX /\ ~http_message_needs_eof(P) -> Complete(x)
              [] OTHER -> Goto(x, "s_body_identity_eof")

HeadersEndByte(x, ch) ==
  CASE ch # LF -> Fail(x, "STRICT")
    [] ch = LF /\ x.P.state = "s_headers_almost_done" ->
         IF "F_TRAILING" \in x.P.flags THEN Complete(x) ELSE HeadersComplete(x)
    [] ch = LF /\ x.P.state = "s_headers_done" -> HeadersDone(x)

\* A run of body bytes is taken at once: p stops on the last of them.
TakeBody(x) ==
  LET left == Len(x.data) - x.p + 1
      to_read == IF x.P.content_length < left THEN x.P.content_length ELSE left
  IN [MARK(x, "body") EXCEPT !.P.content_length = @ - to_read, !.p = @ + to_read - 1]

BodyByte(x) ==
  CASE x.P.state = "s_body_identity" ->
         LET y == TakeBody(x)
         IN IF y.P.content_length > 0 THEN y
            ELSE Again(DATA_(Goto(y, "s_message_done"), "body", y.p, y.p - 1))
    [] x.P.state = "s_body_identity_eof" ->
         [MARK(x, "body") EXCEPT !.p = Len(x.data)]
    [] x.P.state = "s_message_done" -> Complete(x)

\* [mutation] The last chunk is a chunk like the others.
ChunkSizeReadLast(x) == Goto(x, "s_chunk_data")

\* A chunk of no bytes is the last one; the trailer headers follow it.
ChunkSizeRead(x) ==
  IF x.P.content_length > 0 THEN Goto(x, "s_chunk_data")
  ELSE Goto(Set(x, "flags", x.P.flags \cup {"F_TRAILING"}), "s_header_field_start")

ChunkSizeByte(x, ch) ==
  CASE x.P.state = "s_chunk_size_start" ->
         IF Unhex(ch) = -1 THEN Fail(x, "INVALID_CHUNK_SIZE")
         ELSE Goto(Set(x, "content_length", Unhex(ch)), "s_chunk_size")
    [] x.P.state = "s_chunk_size" ->
         CASE ch = CR -> Goto(x, "s_chunk_size_almost_done")
           [] ch \in {";", SP} -> Goto(x, "s_chunk_parameters")
           [] Unhex(ch) # -1 -> Grow(x, 16, ch)
           [] OTHER -> Fail(x, "INVALID_CHUNK_SIZE")
    [] x.P.state = "s_chunk_parameters" ->
         IF ch = CR THEN Goto(x, "s_chunk_size_almost_done") ELSE x
    [] x.P.state = "s_chunk_size_almost_done" ->
         IF ch = LF THEN ChunkSizeRead(Set(x, "nread", 0)) ELSE Fail(x, "STRICT")

ChunkDataByte(x, ch) ==
  CASE x.P.state = "s_chunk_data" ->
         LET y == TakeBody(x)
         IN IF y.P.content_length = 0 THEN Goto(y, "s_chunk_data_almost_done") ELSE y
    [] x.P.state = "s_chunk_data_almost_done" ->
         IF ch # CR THEN Fail(x, "STRICT") ELSE DATA(Goto(x, "s_chunk_data_done"), "body")
    [] x.P.state = "s_chunk_data_done" ->
         IF ch # LF THEN Fail(x, "STRICT")
         ELSE Goto(Set(x, "nread", 0), "s_chunk_size_start")

-----------------------------------------------------------------------------
(* http_parser_execute.                                                    *)

Byte(x) ==
  LET s == x.P.state
      ch == SubSeq(x.data, x.p, x.p)
  IN CASE s \in {"s_dead", "s_start_req_or_res", "s_res_or_resp_H", "s_start_res",
                 "s_start_req"} -> StartByte(x, ch)
       [] s = "s_req_method" -> MethodByte(x, ch)
       [] s \in DOMAIN Literals -> LiteralByte(x, ch)
       [] s \in DOMAIN Numbers -> NumberByte(x, ch)
       [] s \in {"s_res_status_start", "s_res_status"} -> StatusByte(x, ch)
       [] s \in UrlStates \cup {"s_req_spaces_before_url", "s_req_http_start"} ->
            UrlByte(x, ch)
       [] s = "s_header_field_start" -> FieldStartByte(x, ch)
       [] s = "s_header_field" -> FieldByte(x, ch)
       [] s \in {"s_header_value_start", "s_header_value_discard_ws",
                 "s_header_value_discard_lws"} -> ValueStartByte(x, ch)
       [] s = "s_header_value" -> ValueByte(x, ch)
       [] s = "s_header_value_lws" -> ValueLwsByte(x, ch)
       [] s \in {"s_headers_almost_done", "s_headers_done"} -> HeadersEndByte(x, ch)
       [] s \in {"s_body_identity", "s_body_identity_eof", "s_message_done"} ->
            BodyByte(x)
       [] s \in {"s_chunk_size_start", "s_chunk_size", "s_chunk_parameters",
                 "s_chunk_size_almost_done"} -> ChunkSizeByte(x, ch)
       [] OTHER -> ChunkDataByte(x, ch)

\* ++nread, and the limit on the bytes of a header section.
Count(x) ==
  IF x.P.state \in BodyStates THEN x
  ELSE LET y == Set(x, "nread", x.P.nread + 1)
       IN IF y.P.nread > HTTP_MAX_HEADER_SIZE THEN Fail(y, "HEADER_OVERFLOW") ELSE y

RECURSIVE Bytes(_)
Bytes(x) ==
  IF x.ret # Running \/ x.p > Len(x.data) THEN x
  ELSE LET y == Again(Count(x))
       IN IF y.ret # Running THEN y ELSE Bytes([y EXCEPT !.p = @ + 1])

\* What is left under a mark when the piece ends is passed on.
Leftover(x) ==
  LET Rest(y, f) == IF y.ret = Running THEN DATA_NOADVANCE(y, f) ELSE y
      y == Rest(Rest(Rest(Rest(Rest(x, "header_field"), "header_value"), "url"),
                     "body"), "status")
  IN IF y.ret = Running THEN Return(y, Len(x.data)) ELSE y

\* [mutation] A value that was being read is not continued.
ResumedNotValue(s) ==
  CASE s = "s_header_field" -> "header_field"
    [] s \in UrlStates -> "url"
    [] s = "s_res_status" -> "status"
    [] OTHER -> "none"

\* A name, a value, a URL or a status that is being read continues at p = 1.
Resumed(s) ==
  CASE s = "s_header_field" -> "header_field"
    [] s = "s_header_value" -> "header_value"
    [] s \in UrlStates -> "url"
    [] s = "s_res_status" -> "status"
    [] OTHER -> "none"

\* [mutation] A body of a known length may also end with the stream.
EofInBody(x) ==
  CASE x.P.state \in {"s_body_identity", "s_body_identity_eof"} ->
         Return(Called(x, "message_complete", "", 0), 0)
    [] x.P.state \in {"s_dead", "s_start_req_or_res", "s_start_res", "s_start_req"} ->
         Return(x, 0)
    [] OTHER -> Return(Set(x, "http_errno", "INVALID_EOF_STATE"), 1)

\* The end of the stream, told to the parser by a piece of no bytes.
Eof(x) ==
  CASE x.P.state = "s_body_identity_eof" ->
         Return(Called(x, "message_complete", "", 0), 0)
    [] x.P.state \in {"s_dead", "s_start_req_or_res", "s_start_res", "s_start_req"} ->
         Return(x, 0)
    [] OTHER -> Return(Set(x, "http_errno", "INVALID_EOF_STATE"), 1)

\* user: what on_headers_complete answers, and the callbacks that fail or pause.
http_parser_execute(P, user, data) ==
  LET x == [P |-> P, user |-> user, data |-> data, p |-> 1, out |-> <<>>,
            mark |-> [f \in DOMAIN NoMarks |-> IF f = Resumed(P.state) THEN 1 ELSE 0],
            ret |-> Running]
  IN IF P.http_errno # "OK" THEN Return(x, 0)
     ELSE IF data = "" THEN Eof(x) ELSE Leftover(Bytes(x))

=============================================================================
