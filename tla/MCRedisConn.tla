---------------------------- MODULE MCRedisConn ----------------------------
(***************************************************************************)
(* Scripts for RedisConn: plain commands, pub/sub and a monitor.           *)
(***************************************************************************)
EXTENDS RedisConn

Command(kind, topic) == [kind |-> kind, topic |-> topic, fn |-> TRUE]
Get == Command("get", "")
Quiet == [Get EXCEPT !.fn = FALSE]

AllScripts ==
  { <<Get, Quiet, Get>>,
    <<Get, Command("subscribe", "news"), Get, Command("unsubscribe", "news")>>,
    <<Command("subscribe", "n*"), Command("unsubscribe", "n*"), Quiet>>,
    <<Command("monitor", ""), Get>> }
=============================================================================
