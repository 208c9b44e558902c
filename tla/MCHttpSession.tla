---------------------------- MODULE MCHttpSession ----------------------------
(***************************************************************************)
(* Talks for HttpSession: the one of the examples, one of two requests     *)
(* written without waiting, and one that goes on after Connection: close.  *)
(***************************************************************************)
EXTENDS HttpSession

Get(url, headers, body) == [method |-> "GET", url |-> url, headers |-> headers, body |-> body]
Response(code, status, headers, body) ==
  [status_code |-> code, status |-> status, headers |-> headers, body |-> body]
Length(n) == <<"Content-Length", n>>
Exchange(request, answer, when) == [request |-> request, answer |-> answer, when |-> when]

Example ==
  << Exchange(Get("/", <<Length("2"), <<"Host", "h">>>>, "hi"),
              Response(200, "OK", <<Length("3"), <<"a", "b">>>>, "abc"), "body") >>

Pipelined ==
  << Exchange(Get("/1", <<<<"A", "">>, <<"B", "v">>>>, ""),
              Response(204, "", <<<<"C", "w">>>>, ""), "body"),
     Exchange(Get("/2", <<Length("1")>>, "x"),
              Response(404, "No", <<Length("1")>>, "y"), "request") >>

Closing ==
  << Exchange(Get("/", <<<<"Connection", "close">>>>, ""),
              Response(200, "OK", <<Length("1")>>, "z"), "request"),
     Exchange(Get("/", <<>>, ""), Response(200, "OK", <<Length("0")>>, ""), "body") >>

AllTalks == {Example, Pipelined, Closing}
=============================================================================
