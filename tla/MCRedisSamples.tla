--------------------------- MODULE MCRedisSamples ---------------------------
(***************************************************************************)
(* Scripts for RedisContext: every kind of reply and of format, one that   *)
(* ends within a directive, pipelines, nested arrays to the limit, and     *)
(* replies that break the protocol.                                        *)
(***************************************************************************)
EXTENDS Integers, Sequences

Lit(text) == [fmt |-> text, text |-> text, arg |-> FALSE]
Percent == [fmt |-> "%%", text |-> "%", arg |-> FALSE]
Arg(fmt, text) == [fmt |-> fmt, text |-> text, arg |-> TRUE]
Str(text) == Arg("%s", text)

Status(s) == [type |-> "STATUS", str |-> s]
Error(s) == [type |-> "ERROR", str |-> s]
Number(n) == [type |-> "INTEGER", integer |-> n]
Bulk(s) == [type |-> "STRING", str |-> s]
Nil == [type |-> "NIL"]
NilArray == [type |-> "NILARRAY"]
Broken(text) == [type |-> "BROKEN", text |-> text]
ArrayOf(replies) == [type |-> "ARRAY", elements |-> Len(replies), element |-> replies]
RECURSIVE Nested(_, _)
Nested(n, reply) == IF n = 0 THEN reply ELSE ArrayOf(<<Nested(n - 1, reply)>>)

TooDeep == "*1\r\n*1\r\n*1\r\n*1\r\n*1\r\n*1\r\n*1\r\n*1\r\n*1\r\n:0\r\n"

Exchange(words, reply) == [words |-> words, reply |-> reply]

Blocking == [block |-> TRUE, unix |-> FALSE, bind |-> FALSE, reuse |-> FALSE, timeout |-> "valid"]
Plain == [Blocking EXCEPT !.timeout = "none"]
NonBlocking == [Plain EXCEPT !.block = FALSE, !.bind = TRUE]
Reusing == [NonBlocking EXCEPT !.reuse = TRUE]
Unix == [Blocking EXCEPT !.unix = TRUE]
Script(options, exchanges) == [options |-> options, exchanges |-> exchanges, badFormat |-> ""]

Ping == <<<<Lit("P")>>>>
Set == <<<<Lit("S")>>, <<Lit("k:"), Arg("%ld", "7")>>, <<Arg("%b", "a\r\nb")>>>>
Empty == <<<<Lit("G")>>, <<Str("")>>, <<Str("a b"), Percent>>>>
Long == <<<<Lit("0123456789")>>, <<Lit("x%")>>>>

AllExchanges ==
  { Script(Blocking, <<Exchange(Set, Status("OK")), Exchange(Empty, Nil)>>),
    Script(Plain, <<Exchange(Ping, ArrayOf(<<Number(-12), Bulk("\r\n"), NilArray>>)),
                    Exchange(Long, Error("E")), Exchange(Ping, ArrayOf(<<>>))>>),
    Script(NonBlocking, <<Exchange(Ping, ArrayOf(<<ArrayOf(<<Number(1), Bulk("")>>), Status("")>>)),
                          Exchange(Ping, NilArray)>>),
    [Script(Reusing, <<Exchange(Ping, Nested(8, Number(0)))>>) EXCEPT !.badFormat = "%5."],
    Script([Unix EXCEPT !.timeout = "invalid"], <<Exchange(Ping, Status("OK"))>>),
    Script(Plain, <<Exchange(Ping, Broken(TooDeep))>>),
    [Script(Unix, <<Exchange(Ping, Bulk("v")), Exchange(Ping, Broken("*2\r\n+a\r\n?"))>>)
       EXCEPT !.badFormat = "%5.1q"] }
=============================================================================
