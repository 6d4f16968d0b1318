-------------------------- MODULE MCRedisSessions --------------------------
(***************************************************************************)
(* TLC instances of RedisSessions: two request threads that meet on one    *)
(* session (sessions with different ids share nothing but the pool),       *)
(* which lives one second of two ticks.                                    *)
(***************************************************************************)
EXTENDS RedisSessions

CONSTANTS t1, t2, id1, admin

TwoThreads   == {t1, t2}
OneId        == {id1}
OneAttribute == {admin}
=============================================================================
