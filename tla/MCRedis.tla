------------------------------- MODULE MCRedis -------------------------------
(***************************************************************************)
(* One run for the Redis clients: either the asynchronous one (RedisConn)  *)
(* has plain commands, pub/sub and a monitor, or the blocking one          *)
(* (RedisContext) has its exchanges.                                       *)
(***************************************************************************)
EXTENDS MCRedisConn

CONSTANTS DISCARD, Addresses, REDIS_CONNECT_RETRIES, MaxCuts, MaxConnects

VARIABLES part, exchanges, ctx, call, wire, base, issued, got, cuts, connects
blocking == <<exchanges, ctx, call, wire, base, issued, got, cuts, connects>>
all == <<vars, part, blocking>>

Samples == INSTANCE MCRedisSamples
Context == INSTANCE RedisContext WITH Scripts <- Samples!AllExchanges, script <- exchanges

ASSUME Context!RedisContextAssumption

Async == part = "async"

OneExchange == exchanges = CHOOSE s \in Samples!AllExchanges : TRUE
OneScript == script = <<Get, Quiet, Get>>

BothInit ==
  /\ part \in {"async", "blocking"}
  /\ Init /\ Context!Init
  /\ IF Async THEN OneExchange ELSE OneScript

BothNext ==
  \/ Async /\ Next /\ UNCHANGED <<part, blocking>>
  \/ ~Async /\ Context!Next /\ UNCHANGED <<part, vars>>

BothSpec ==
  /\ BothInit /\ [][BothNext]_all
  /\ (Async => Fairness) /\ (~Async => Context!Fairness)

\* The properties of RedisContext: the server gets the commands that were meant, the
\* application the replies to them, and redisGetReply returns.
CommandsAsMeant == Context!CommandsAsMeant
RepliesInOrder == Context!RepliesInOrder
ReplyComes == Context!ReplyComes
=============================================================================
