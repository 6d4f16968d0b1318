----------------------- MODULE MCRedisConnectionPool -----------------------
(***************************************************************************)
(* A TLC instance of the Redis pool with more threads than connections.    *)
(***************************************************************************)
EXTENDS RedisConnectionPool

CONSTANTS t1, t2, t3

ThreeThreads == {t1, t2, t3}
=============================================================================
