------------------------ MODULE RedisConnectionPool ------------------------
(***************************************************************************)
(* RedisConnectionPool over RedisConnection.  The pool is the algorithm of *)
(* ConnectionPool; this module gives the driver's behaviour, which is what *)
(* sets it apart from the MySQL pool.                                      *)
(***************************************************************************)
EXTENDS Naturals, Sequences

CONSTANTS Threads, PoolSize

VARIABLES connections, initialized, mutex, slot, pc, held, link, chk, toCheck,
          serverUp

(***************************************************************************)
(* connect_helper assigns redis_ before it tests the link with a ping: on  *)
(* a failure the object stays behind, and its link is down.                *)
(***************************************************************************)
connect_failures == {"dead"}

(* redis_->ping() goes through redis++, which reconnects a broken link.    *)
ping_revives == TRUE

(* cleanup looks at redis_ and does nothing with it.                       *)
cleanup_may_reconnect == FALSE

Pool == INSTANCE ConnectionPool
  WITH ConnectFailures <- connect_failures,
       PingRevives <- ping_revives,
       CleanupMayReconnect <- cleanup_may_reconnect

init(t)           == Pool!init(t)
get_connection(t) == Pool!get_connection(t)
deleter(t)        == Pool!deleter(t)
check_connections == Pool!check_connections
Destroy           == Pool!Destroy

Next ==
  \/ \E t \in Threads : init(t) \/ get_connection(t) \/ deleter(t)
  \/ check_connections
  \/ Pool!Environment
  \/ Destroy

Spec == Pool!Init /\ [][Next]_Pool!vars

(* The fairness of ConnectionPool!FairSpec, for the same reasons.          *)
FairSpec ==
  /\ Spec
  /\ WF_Pool!vars(check_connections)
  /\ \A t \in Threads : Pool!ThreadFairness(t)

-----------------------------------------------------------------------------
(***************************************************************************)
(* get_connection serves its callers (see ConnectionPool), here for more   *)
(* callers than connections and a link that ping can re-establish.         *)
(***************************************************************************)
CallsServed == Pool!CallsServed
=============================================================================
