-------------------------- MODULE MCConnectionPool --------------------------
(***************************************************************************)
(* TLC instances of the connection pool: the driver parameters come from   *)
(* the two wrappers, the threads are named here.                           *)
(***************************************************************************)
EXTENDS ConnectionPool

CONSTANTS t1, t2, t3

ThreeThreads == {t1, t2, t3}
TwoThreads   == {t1, t2}
MysqlFailures == {"null", "dead", "raw"}
=============================================================================
