---------------------------- MODULE RedisContext ----------------------------
(***************************************************************************)
(* The blocking client of hiredis (hiredis.c, net.c): a redisContext is    *)
(* connected, commands are formatted into its output buffer, and           *)
(* redisGetReply writes them all and reads until a reply is there.  The    *)
(* application may start over with redisReconnect, and then asks again for *)
(* the replies it did not get.  The server is external: it answers the     *)
(* commands it is meant to receive, byte for byte, in order.               *)
(***************************************************************************)
EXTENDS RedisReader, SequencesExt, TLC

CONSTANTS
  Scripts,      \* what is asked and answered: options and exchanges
  Addresses,    \* how many addresses getaddrinfo finds, at most
  REDIS_CONNECT_RETRIES,
  MaxCuts,      \* how many reads and writes move less than they could
  MaxConnects   \* how often the application connects

\* To be assumed where the module is used.
RedisContextAssumption ==
  /\ Addresses \in Nat /\ REDIS_CONNECT_RETRIES \in Nat \ {0}
  /\ MaxCuts \in Nat /\ MaxConnects \in Nat

VARIABLES
  script,    \* the script that takes place
  ctx,       \* the redisContext
  call,      \* where the application's redisGetReply stands
  wire,      \* the connection: its state, the bytes each way, the commands answered
  base,      \* the exchanges over before this connection
  issued,    \* the commands appended on this connection
  got,       \* the replies the application got, of all connections
  cuts, connects

vars == <<script, ctx, call, wire, base, issued, got, cuts, connects>>

Joined(strings) == FoldLeft(LAMBDA a, b : a \o b, "", strings)

-----------------------------------------------------------------------------
(* What a script says.  A word is a sequence of pieces: what stands in the *)
(* format, what it stands for, and whether that is an argument.            *)

Format(words) ==
  Joined([i \in DOMAIN words |->
            (IF i = 1 THEN "" ELSE " ")
            \o Joined([j \in DOMAIN words[i] |-> words[i][j].fmt])])
Args(words) ==
  LET taken == SelectSeq(FlattenSeq(words), LAMBDA piece : piece.arg)
  IN [i \in DOMAIN taken |-> taken[i].text]
Argv(words) == [i \in DOMAIN words |-> Joined([j \in DOMAIN words[i] |-> words[i][j].text])]

RECURSIVE Encode(_)
Encode(reply) ==
  CASE reply.type = "STATUS" -> "+" \o reply.str \o CRLF
    [] reply.type = "ERROR" -> "-" \o reply.str \o CRLF
    [] reply.type = "INTEGER" -> ":" \o ToString(reply.integer) \o CRLF
    [] reply.type = "STRING" -> "$" \o ToString(Len(reply.str)) \o CRLF \o reply.str \o CRLF
    [] reply.type = "NIL" -> "$-1" \o CRLF
    [] reply.type = "NILARRAY" -> "*-1" \o CRLF
    [] reply.type = "ARRAY" -> "*" \o ToString(reply.elements) \o CRLF
         \o Joined([i \in DOMAIN reply.element |-> Encode(reply.element[i])])
    [] reply.type = "BROKEN" -> reply.text

RECURSIVE Meant(_)
Meant(reply) ==
  IF reply.type = "NILARRAY" THEN NilObject
  ELSE IF reply.type = "ARRAY"
  THEN [reply EXCEPT !.element = [i \in DOMAIN @ |-> Meant(@[i])]]
  ELSE reply

ArrayOf(replies) == [type |-> "ARRAY", elements |-> Len(replies), element |-> replies]
CommandText(k) ==
  LET argv == Argv(script.exchanges[k].words)
  IN Encode(ArrayOf([i \in DOMAIN argv |-> StringObject("STRING", argv[i])]))

-----------------------------------------------------------------------------
(* Formatting commands.                                                    *)

RECURSIVE countDigits(_)
countDigits(v) == IF v < 10 THEN 1 ELSE 1 + countDigits(v \div 10)
\* [mutation] One digit for every length.
bulklenOfOneDigit(len) == 1 + 1 + 2 + len + 2
bulklen(len) == 1 + countDigits(len) + 2 + len + 2

\* The command and the length it is taken to have.
FormatArgv(argv) ==
  [text |-> "*" \o ToString(Len(argv)) \o CRLF
            \o Joined([i \in DOMAIN argv |->
                         "$" \o ToString(Len(argv[i])) \o CRLF \o argv[i] \o CRLF]),
   totlen |-> FoldLeft(LAMBDA n, arg : n + bulklen(Len(arg)),
                       1 + countDigits(Len(argv)) + 2, argv)]

\* The conversion at c, after its flags, width and precision; 0 if it is none.  strchr finds
\* the end of the format among the integer conversions, but not after a size.
Skip(format, p, set) == Least({q \in p..(Len(format) + 1) : Char(format, q) \notin set})
Conversion(format, c) ==
  LET digit == {Char(Digits, i) : i \in 1..10}
      width == Skip(format, Skip(format, c + 1, {"#", "0", "-", "+", " "}), digit)
      p == IF Char(format, width) = "." THEN Skip(format, width + 1, digit) ELSE width
      Integer(q) == IF Char(format, q) \in {"d", "i", "o", "u", "x", "X"} THEN q ELSE 0
  IN IF Char(format, p) \in {"e", "E", "f", "F", "g", "G", "a", "A"} THEN p
     ELSE IF Char(format, p) = "" THEN p
     ELSE IF Char(format, p) \o Char(format, p + 1) \in {"hh", "ll"} THEN Integer(p + 2)
     ELSE IF Char(format, p) \in {"h", "l"} THEN Integer(p + 1)
     ELSE Integer(p)

Put(s, text) == [s EXCEPT !.curarg = @ \o text, !.touched = TRUE]
TakeArg(s) == [Put(s, Head(s.args)) EXCEPT !.args = Tail(@)]
EndArg(s) ==
  IF s.touched
  THEN [s EXCEPT !.argv = Append(@, s.curarg), !.curarg = "", !.touched = FALSE] ELSE s
Rejected(outcome) ==
  [curarg |-> "", touched |-> FALSE, argv |-> <<>>, args |-> <<>>, outcome |-> outcome]

\* A directive of 14 characters and more takes its argument and is left out.  A shorter one
\* without its conversion takes the scan past the end of the format.
RECURSIVE Scan(_, _, _)
Scan(format, c, s) ==
  LET this == Char(format, c)
      next == Char(format, c + 1)
      end == Conversion(format, c)
  IN IF this = "" THEN EndArg(s)
     ELSE IF this # "%" \/ next = ""
     THEN Scan(format, c + 1, IF this = " " THEN EndArg(s) ELSE Put(s, this))
     ELSE IF next \in {"s", "b"} THEN Scan(format, c + 2, TakeArg(s))
     ELSE IF next = "%" THEN Scan(format, c + 2, Put(s, "%"))
     ELSE IF end = 0 THEN Rejected("invalid")
     ELSE IF end + 1 - c < 14
     THEN IF Char(format, end) = "" THEN Rejected("beyond") ELSE Scan(format, end + 1, TakeArg(s))
     ELSE Scan(format, c + 2, [s EXCEPT !.args = Tail(@), !.touched = TRUE])

redisvFormatCommand(format, args) ==
  LET s == Scan(format, 1, [curarg |-> "", touched |-> FALSE, argv |-> <<>>, args |-> args,
                            outcome |-> "valid"])
  IN [outcome |-> s.outcome, command |-> FormatArgv(s.argv)]

-----------------------------------------------------------------------------
(* Connecting (net.c).  An outcome is what the call returns, the error it  *)
(* leaves in the context, what is at c->fd, and whether the socket is      *)
(* connected.  A closed descriptor that c->fd still names is stale.        *)

Outcome(code, err, fd, state) == [code |-> code, err |-> err, fd |-> fd, state |-> state]
Failed(err, fd) == Outcome("REDIS_ERR", err, fd, "refused")
Connected(state) == Outcome("REDIS_OK", "none", "open", state)

\* redisContextWaitReady, redisSetBlocking and redisSetTcpNoDelay.
Refusals == {Failed("IO", "none"), Failed("IO", "open")}
Finished == {Connected("up"), Failed("IO", "none")}
Bind(o) ==
  IF ~o.bind THEN {}
  ELSE {Failed("OTHER", "open")} \cup IF o.reuse THEN {Failed("none", "open")} ELSE {}

\* The addresses left, the times EADDRNOTAVAIL was met, and c->fd.
RECURSIVE TryAddresses(_, _, _, _)
TryAddresses(o, left, reuses, fd) ==
  IF left = 0 THEN {Failed("OTHER", fd)}
  ELSE TryAddresses(o, left - 1, reuses, fd)
       \cup TryAddresses(o, left - 1, reuses, "none")
       \cup Bind(o) \cup Refusals \cup Finished
       \cup (IF o.block THEN {} ELSE {Connected("pending")})
       \cup (IF ~o.reuse THEN {}
             ELSE IF reuses + 1 >= REDIS_CONNECT_RETRIES THEN {Failed("none", "open")}
             ELSE TryAddresses(o, left, reuses + 1, "none"))

ConnectTcp(o, fd) ==
  IF o.timeout = "invalid" THEN {Failed("IO", fd)}
  ELSE {Failed("OTHER", fd)} \cup UNION {TryAddresses(o, n, 0, fd) : n \in 1..Addresses}

ConnectUnix(o, fd) ==
  {Failed("IO", fd), Failed("IO", "none")}
  \cup IF o.timeout = "invalid" THEN {Failed("none", "open")}
       ELSE Refusals \cup Finished \cup IF o.block THEN {} ELSE {Connected("pending")}

Connecting(o, fd) == IF o.unix THEN ConnectUnix(o, fd) ELSE ConnectTcp(o, fd)

-----------------------------------------------------------------------------

NoWire == [state |-> "none", up |-> "", down |-> "", answered |-> 0]
ContextInit ==
  [err |-> "none", fd |-> "none", limited |-> FALSE, obuf |-> "", reader |-> redisReaderCreate]

Init ==
  /\ script \in Scripts
  /\ ctx = ContextInit /\ call = "unconnected" /\ wire = NoWire
  /\ base = 0 /\ issued = 0 /\ got = <<>> /\ cuts = 0 /\ connects = 0

\* [mutation] The reader goes on with the new connection.
SameReader(c) == c.reader
\* What redisReconnect has for a reader: the old one is freed.
NewReader(c) == redisReaderCreate

Connect(fd) ==
  \E outcome \in Connecting(script.options, fd) :
    /\ ctx' = [ContextInit EXCEPT !.err = outcome.err, !.fd = outcome.fd,
                                  !.reader = NewReader(ctx)]
    /\ call' = outcome.code
    /\ wire' = [NoWire EXCEPT !.state = outcome.state]
    /\ base' = Len(got) /\ issued' = 0 /\ connects' = connects + 1
    /\ UNCHANGED <<script, got, cuts>>

\* No call of redisGetReply is under way.
Idle == call \in {"REDIS_OK", "REDIS_ERR"}

redisConnect == call = "unconnected" /\ connects < MaxConnects /\ Connect("none")

\* The descriptor is closed and its number stays.  The new socket has no
\* timeouts, whatever redisSetTimeout gave the old one.
redisReconnect ==
  /\ Idle /\ ctx.err # "none" /\ connects < MaxConnects
  /\ Connect(IF ctx.fd = "none" THEN "none" ELSE "stale")

redisSetTimeout ==
  /\ Idle /\ script.options.block /\ ctx.fd = "open" /\ ctx.err = "none"
  /\ ~ctx.limited /\ script.options.timeout = "valid"
  /\ ctx' = [ctx EXCEPT !.limited = TRUE]
  /\ UNCHANGED <<script, call, wire, base, issued, got, cuts, connects>>

redisFree ==
  /\ Idle
  /\ ctx.err # "none" \/ Len(got) = Len(script.exchanges)
  /\ call' = "freed" /\ ctx' = ContextInit /\ wire' = NoWire
  /\ UNCHANGED <<script, base, issued, got, cuts, connects>>

-----------------------------------------------------------------------------
(* Commands and replies.                                                   *)

NextExchange == base + issued + 1

AppendCommand(command) ==
  /\ ctx' = [ctx EXCEPT !.obuf = @ \o SubSeq(command.text, 1, command.totlen)]
  /\ issued' = issued + 1
  /\ UNCHANGED <<script, call, wire, base, got, cuts, connects>>

\* The application looks at the error field, and not at what a call returned.
MayAppend == Idle /\ ctx.err = "none" /\ NextExchange <= Len(script.exchanges)

redisvAppendCommand ==
  LET words == script.exchanges[NextExchange].words
      formatted == redisvFormatCommand(Format(words), Args(words))
  IN /\ MayAppend
     /\ formatted.outcome = "valid" /\ AppendCommand(formatted.command)

\* A format that is none: the context is in error from then on.  One that ends within a
\* directive: what is read from there on is undefined, and the context is lost.
BadFormat ==
  /\ MayAppend /\ script.badFormat # ""
  /\ \/ /\ redisvFormatCommand(script.badFormat, <<"1">>).outcome = "invalid"
        /\ ctx' = [ctx EXCEPT !.err = "OTHER"] /\ UNCHANGED call
     \/ /\ redisvFormatCommand(script.badFormat, <<"1">>).outcome = "beyond"
        /\ call' = "lost" /\ UNCHANGED ctx
  /\ UNCHANGED <<script, wire, base, issued, got, cuts, connects>>

redisAppendCommandArgv ==
  /\ MayAppend
  /\ AppendCommand(FormatArgv(Argv(script.exchanges[NextExchange].words)))

WithReader(c, read) ==
  [ctx |-> [c EXCEPT !.reader = read.reader,
                     !.err = IF read.reader.err = "none" THEN @ ELSE read.reader.err],
   reply |-> read.reply]
redisGetReplyFromReader(c) == WithReader(c, redisReaderGetReply(c.reader))

\* What redisGetReply does with what the reader has: it returns, or goes on.
Settle(c, next) ==
  \E found \in {redisGetReplyFromReader(c)} :
    /\ ctx' = found.ctx
    /\ IF found.reply # NULL
       THEN got' = Append(got, found.reply) /\ call' = "REDIS_OK"
       ELSE UNCHANGED got /\ call' = IF found.ctx.reader.err = "none" THEN next ELSE "REDIS_ERR"

\* A context in error still gives the replies it has; then a blocking one fails in its first
\* write, another has none.
redisGetReply ==
  /\ Idle /\ Len(got) < base + issued
  /\ Settle(ctx, CASE ~script.options.block -> "REDIS_OK"
                   [] ctx.err = "none" -> "write"
                   [] OTHER -> "REDIS_ERR")
  /\ UNCHANGED <<script, wire, base, issued, cuts, connects>>

\* How many of n bytes a read or a write moves.
Moved(n) ==
  {[n |-> n, cuts |-> cuts]}
  \cup IF cuts < MaxCuts THEN [n : 1..(n - 1), cuts : {cuts + 1}] ELSE {}

\* A blocking context writes within redisGetReply, another when it is writable.
Writing == IF script.options.block THEN call = "write"
           ELSE Idle /\ ctx.err = "none" /\ ctx.obuf # ""
Reading == IF script.options.block THEN call = "read"
           ELSE Idle /\ ctx.err = "none" /\ Len(got) < base + issued

\* [mutation] The reading begins before everything is written.
WrittenSome(c) == "read"
\* Where redisGetReply goes on after a write.
Written(c) == IF c.obuf = "" THEN "read" ELSE "write"

redisBufferWrite ==
  /\ Writing
  /\ IF ctx.obuf = "" THEN UNCHANGED <<ctx, wire, cuts>>
     ELSE /\ wire.state = "up"
          /\ \E moved \in Moved(Len(ctx.obuf)) :
               /\ ctx' = [ctx EXCEPT !.obuf = From(@, moved.n + 1)]
               /\ wire' = [wire EXCEPT !.up = @ \o SubSeq(ctx.obuf, 1, moved.n)]
               /\ cuts' = moved.cuts
  /\ call' = IF script.options.block THEN Written(ctx') ELSE call
  /\ UNCHANGED <<script, base, issued, got, connects>>

\* Reads what has arrived; within redisGetReply the reader is asked at once.
redisBufferRead ==
  /\ Reading /\ wire.down # ""
  /\ \E moved \in Moved(Len(wire.down)) :
       LET fed == [ctx EXCEPT !.reader = redisReaderFeed(@, SubSeq(wire.down, 1, moved.n))]
       IN /\ IF script.options.block THEN Settle(fed, "read")
             ELSE ctx' = fed /\ UNCHANGED <<call, got>>
          /\ wire' = [wire EXCEPT !.down = From(@, moved.n + 1)]
          /\ cuts' = moved.cuts
  /\ UNCHANGED <<script, base, issued, connects>>

CallFails(err) ==
  /\ ctx' = [ctx EXCEPT !.err = err]
  /\ call' = "REDIS_ERR"
  /\ UNCHANGED <<script, wire, base, issued, got, cuts, connects>>

\* The server has closed, or the socket was never connected.
WriteFails == Writing /\ ctx.obuf # "" /\ wire.state \in {"closed", "refused"} /\ CallFails("IO")
ReadFails ==
  /\ Reading /\ wire.down = "" /\ wire.state \in {"closed", "refused"}
  /\ CallFails(IF wire.state = "closed" THEN "EOF" ELSE "IO")
\* EAGAIN on a blocking socket: its timeout.
TimesOut ==
  /\ script.options.block /\ ctx.limited /\ wire.state = "up"
  /\ (Writing /\ ctx.obuf # "") \/ (Reading /\ wire.down = "")
  /\ CallFails("IO")

-----------------------------------------------------------------------------
(* The kernel and the server (external).                                   *)

Established ==
  /\ wire.state = "pending"
  /\ \E state \in {"up", "refused"} : wire' = [wire EXCEPT !.state = state]
  /\ UNCHANGED <<script, ctx, call, base, issued, got, cuts, connects>>

Asked ==
  LET k == base + wire.answered + 1
  IN wire.state = "up" /\ k <= base + issued /\ IsPrefix(CommandText(k), wire.up)

ServerAnswers ==
  LET k == base + wire.answered + 1
  IN /\ Asked
     /\ wire' = [wire EXCEPT !.up = From(@, Len(CommandText(k)) + 1), !.answered = @ + 1,
                             !.down = @ \o Encode(script.exchanges[k].reply)]
     /\ UNCHANGED <<script, ctx, call, base, issued, got, cuts, connects>>

ServerCloses ==
  /\ wire.state = "up" /\ connects < MaxConnects
  /\ wire' = [wire EXCEPT !.state = "closed", !.up = ""]
  /\ UNCHANGED <<script, ctx, call, base, issued, got, cuts, connects>>

Next ==
  \/ redisConnect \/ redisReconnect \/ redisSetTimeout \/ redisFree
  \/ redisvAppendCommand \/ BadFormat \/ redisAppendCommandArgv
  \/ redisGetReply \/ redisBufferWrite \/ redisBufferRead
  \/ WriteFails \/ ReadFails \/ TimesOut
  \/ Established \/ ServerAnswers \/ ServerCloses

\* A blocked call goes on when it can, and the server answers what it is asked.
\* Weak fairness of the read and of the server is spelt out.
Fairness ==
  /\ WF_vars(redisBufferWrite) /\ WF_vars(WriteFails) /\ WF_vars(ReadFails)
  /\ []<>~Asked \/ []<><<wire'.answered > wire.answered>>_vars
  /\ []<>~(Reading /\ wire.down # "") \/ []<><<Len(wire'.down) < Len(wire.down)>>_vars

Spec == Init /\ [][Next]_vars /\ Fairness

-----------------------------------------------------------------------------

\* The format ends in a "%", flags, a width or a precision, and no conversion.
EndsInDirective(format) ==
  \E c \in 1..(Len(format) - 1) :
    /\ Char(format, c) = "%"
    /\ \A q \in (c + 1)..Len(format) :
         Char(format, q) \in {"#", "-", "+", " ", "."} \cup {Char(Digits, i) : i \in 1..10}

\* What is buffered and what is on its way to the server is, byte for byte, the
\* commands the application means, in order: whatever the arguments, the partial writes,
\* the connections before and the format, unless it ends within a directive, which takes the
\* scan past its end (redisvFormatCommand, hiredis.c:301, 357-379, redisBufferWrite,
\* redisReconnect).
CommandsAsMeant ==
  /\ wire.state = "up" =>
       wire.up \o ctx.obuf =
         Joined([i \in 1..(issued - wire.answered) |-> CommandText(base + wire.answered + i)])
  /\ call = "lost" => EndsInDirective(script.badFormat)

\* The replies the application gets are those of its commands, whole and in order,
\* however they are cut, on whichever connection; a protocol error is reported only at
\* a reply that is broken; and a call that fails says why in the error field, but for the
\* connects to a bound address in use and to a Unix socket with an invalid timeout
\* (redisReaderGetReply, redisGetReply, net.c:355-360, 383-385, 456-457).
RepliesInOrder ==
  /\ \A i \in DOMAIN got : got[i] = Meant(script.exchanges[i].reply)
  /\ ctx.err = "PROTOCOL" => script.exchanges[Len(got) + 1].reply.type = "BROKEN"
  /\ call = "REDIS_ERR" /\ ctx.err = "none" =>
       script.options.reuse \/ (script.options.unix /\ script.options.timeout = "invalid")

\* A blocking redisGetReply with a command outstanding returns: everything
\* is written before it reads (hiredis.c:878-892).
ReplyComes == call \in {"write", "read"} ~> Idle

\* The error field says when connecting has failed, as hiredis.c:671-672 has it.
ErrorIsSet == call = "REDIS_ERR" => ctx.err # "none"
=============================================================================
