------------------------------ MODULE HttpUrl -------------------------------
(***************************************************************************)
(* http_parser_parse_url: the fields of a URL as runs of its characters.   *)
(* A result u has the fields found, off and len of each (off counts from   *)
(* 1), and the port as a number; "bad" is the non-zero return.             *)
(***************************************************************************)
EXTENDS HttpParser

Fields == {"SCHEMA", "HOST", "PORT", "PATH", "QUERY", "FRAGMENT", "USERINFO"}

NoUrl == [bad |-> FALSE, set |-> {}, port |-> 0,
          off |-> [f \in Fields |-> 0], len |-> [f \in Fields |-> 0]]

\* A character that continues a field, and one that starts it.
Longer(u, f) == [u EXCEPT !.len[f] = @ + 1]
Starts(u, f, p) == [u EXCEPT !.set = @ \cup {f}, !.off[f] = p, !.len[f] = 1]

HostMoves ==
  { << {"userinfo", "userinfo_start"}, {"@"}, "host_start" >>,
    << {"userinfo", "userinfo_start"}, UserinfoChars, "userinfo" >>,
    << {"host_start"}, {"["}, "host_v6_start" >>,
    << {"host_start", "host"}, HostChars, "host" >>,
    << {"host", "host_v6_end"}, {":"}, "host_port_start" >>,
    << {"host_v6"}, {"]"}, "host_v6_end" >>,
    << {"host_v6", "host_v6_start"}, CharsOf(HEX) \cup CharsOf("ABCDEF:."), "host_v6" >>,
    << {"host_port", "host_port_start"}, NumChars, "host_port" >> }

http_parse_host_char(s, ch) ==
  LET moves == {m \in HostMoves : s \in m[1] /\ ch \in m[2]}
  IN IF moves = {} THEN "host_dead" ELSE (CHOOSE m \in moves : TRUE)[3]

HostFieldOf == [host |-> "HOST", host_v6 |-> "HOST", host_port |-> "PORT",
                userinfo |-> "USERINFO"]

\* [mutation] The host is left to start where the server part starts.
HostCharKept(u, s, to, p) ==
  IF to \notin DOMAIN HostFieldOf THEN u
  ELSE LET f == HostFieldOf[to]
       IN IF s = to \/ f = "HOST" THEN Longer(u, f) ELSE Starts(u, f, p)

\* The host's own length is counted anew from 0; the other fields start at
\* their first character.
HostChar(u, s, to, p) ==
  IF to \notin DOMAIN HostFieldOf THEN u
  ELSE LET f == HostFieldOf[to]
       IN CASE s = to -> Longer(u, f)
            [] s # to /\ f = "HOST" -> Longer([u EXCEPT !.off[f] = p], f)
            [] OTHER -> Starts(u, f, p)

RECURSIVE HostRun(_, _, _, _, _)
HostRun(buf, u, s, p, end) ==
  IF p > end
  THEN [u EXCEPT !.bad = s \in {"host_start", "host_v6_start", "host_v6",
                                "host_port_start", "userinfo", "userinfo_start"}]
  ELSE LET to == http_parse_host_char(s, SubSeq(buf, p, p))
       IN IF to = "host_dead" THEN [u EXCEPT !.bad = TRUE]
          ELSE HostRun(buf, HostChar(u, s, to, p), to, p + 1, end)

http_parse_host(buf, u, found_at) ==
  HostRun(buf, [u EXCEPT !.len["HOST"] = 0],
          IF found_at THEN "userinfo_start" ELSE "host_start",
          u.off["HOST"], u.off["HOST"] + u.len["HOST"] - 1)

\* The field a state of the URL automaton belongs to; the others delimit.
FieldOf == [s_req_schema |-> "SCHEMA", s_req_server_with_at |-> "HOST",
            s_req_server |-> "HOST", s_req_path |-> "PATH",
            s_req_query_string |-> "QUERY", s_req_fragment |-> "FRAGMENT"]

\* r: the fields so far, the state, the field being read, "@" seen.
UrlStep(r, ch, p) ==
  LET s == parse_url_char(r.s, ch)
      at == r.at \/ s = "s_req_server_with_at"
  IN CASE s = "s_dead" -> [r EXCEPT !.u.bad = TRUE]
       [] s # "s_dead" /\ s \notin DOMAIN FieldOf -> [r EXCEPT !.s = s]
       [] OTHER -> [s |-> s, at |-> at, f |-> FieldOf[s],
                    u |-> IF FieldOf[s] = r.f THEN Longer(r.u, r.f)
                          ELSE Starts(r.u, FieldOf[s], p)]

RECURSIVE UrlRun(_, _, _)
UrlRun(buf, r, p) ==
  IF r.u.bad \/ p > Len(buf) THEN r
  ELSE UrlRun(buf, UrlStep(r, SubSeq(buf, p, p), p), p + 1)

\* strtoul over the digits of the port.
RECURSIVE NumberAt(_, _, _)
NumberAt(buf, from, len) ==
  IF len = 0 THEN 0
  ELSE 10 * NumberAt(buf, from, len - 1) + Unhex(SubSeq(buf, from + len - 1, from + len - 1))

http_parser_parse_url(buf, is_connect) ==
  LET r == UrlRun(buf, [u |-> NoUrl, at |-> FALSE, f |-> "MAX",
                        s |-> IF is_connect THEN "s_req_server_start"
                              ELSE "s_req_spaces_before_url"], 1)
      u == IF ~r.u.bad /\ r.u.set \cap {"SCHEMA", "HOST"} # {}
           THEN http_parse_host(buf, r.u, r.at) ELSE r.u
      port == IF "PORT" \in u.set THEN NumberAt(buf, u.off["PORT"], u.len["PORT"]) ELSE 0
  IN [u EXCEPT !.bad = @ \/ (is_connect /\ u.set # {"HOST", "PORT"}) \/ port > 65535,
               !.port = port]

=============================================================================
