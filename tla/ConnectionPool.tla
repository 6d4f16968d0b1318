--------------------------- MODULE ConnectionPool ---------------------------
(***************************************************************************)
(* The algorithm that MysqlConnectionPool and RedisConnectionPool share:   *)
(* a FIFO queue of connections guarded by mutex_, callers that block on    *)
(* the condition variable cv_, a custom deleter that brings a borrowed     *)
(* connection back, and a detached health-check thread that pings and      *)
(* reconnects connections outside the lock.                                *)
(*                                                                         *)
(* One step is one critical section (of mutex_, or of the mutex that every *)
(* connection object has).  mutex_ stays held across steps in two places:  *)
(* while init creates the connections, and while the health checker sleeps *)
(* for a second because it found the queue empty; variable mutex records   *)
(* who holds it then.                                                      *)
(*                                                                         *)
(* What differs between the two database drivers is a parameter.           *)
(***************************************************************************)
EXTENDS Naturals, Sequences, FiniteSets, Functions

CONSTANTS
  Threads,             (* the threads that call the pool                   *)
  PoolSize,            (* pool_size, the connections init tries to create  *)
  ConnectFailures,     (* how connect_helper can leave a link it fails on  *)
  PingRevives,         (* does ping re-establish a dead link by itself     *)
  CleanupMayReconnect    (* does cleanup reconnect after a server error      *)

LinkStatus == {"none", "null", "dead", "raw", "ready"}

(***************************************************************************)
(* "checker" and "nobody" are the two other values of mutex, so they are   *)
(* not names of threads.                                                   *)
(***************************************************************************)
ASSUME PoolAssumption ==
  /\ PoolSize \in Nat
  /\ ConnectFailures \subseteq {"null", "dead", "raw"}
  /\ ConnectFailures # {}
  /\ PingRevives \in BOOLEAN
  /\ CleanupMayReconnect \in BOOLEAN
  /\ "checker" \notin Threads
  /\ "nobody" \notin Threads
  /\ IsFiniteSet(Threads)

Conns  == 1 .. PoolSize
NoConn == 0

VARIABLES
  connections,   (* connections_, the queue of idle connections            *)
  initialized,   (* initialized_                                           *)
  mutex,         (* who keeps mutex_ locked between steps                  *)
  slot,          (* the loop counter of init                               *)
  pc,            (* where each calling thread is                           *)
  held,          (* the connection each calling thread has taken           *)
  link,          (* what each connection object wraps                      *)
  chk,           (* where the health-check thread is                       *)
  toCheck,       (* connsToCheck, its copy of the queue                    *)
  serverUp       (* is the database server reachable                       *)

poolVars  == <<connections, initialized, mutex, slot>>
checkVars == <<chk, toCheck>>
vars == <<connections, initialized, mutex, slot, pc, held, link, chk, toCheck,
          serverUp>>

(***************************************************************************)
(* A thread is idle, runs init, is blocked in cv_.wait ("waiting"), has    *)
(* been notified but does not own mutex_ yet ("woken"), verifies the       *)
(* connection it took ("ping", "reconnect"), failed to ("error"), uses it, *)
(* or is inside the deleter ("cleanup", "return").                         *)
(***************************************************************************)
Holding  == {"ping", "reconnect", "error", "using", "cleanup", "return"}
ThreadPc == {"idle", "init", "waiting", "woken", "exited"} \cup Holding
CheckPc  == {"start", "locked", "ping", "reconnect", "exited"}

Waiting == {t \in Threads : pc[t] = "waiting"}
Woken   == {t \in Threads : pc[t] = "woken"}
Created == {c \in Conns : link[c] # "none"}
Alive(c) == link[c] \in {"raw", "ready"}

TypeOK ==
  /\ connections \in Seq(Conns)
  /\ initialized \in BOOLEAN
  /\ mutex \in Threads \cup {"checker", "nobody"}
  /\ slot \in 0 .. PoolSize
  /\ pc \in [Threads -> ThreadPc]
  /\ held \in [Threads -> Conns \cup {NoConn}]
  /\ link \in [Conns -> LinkStatus]
  /\ chk \in CheckPc
  /\ toCheck \in Seq(Conns)
  /\ serverUp \in BOOLEAN

Init ==
  /\ connections = << >>
  /\ initialized = FALSE
  /\ mutex = "nobody"
  /\ slot = 0
  /\ pc = [t \in Threads |-> "idle"]
  /\ held = [t \in Threads |-> NoConn]
  /\ link = [c \in Conns |-> "none"]
  /\ chk = "start"
  /\ toCheck = << >>
  /\ serverUp \in BOOLEAN

Goto(t, l) == pc' = [pc EXCEPT ![t] = l]

-----------------------------------------------------------------------------
(* Connecting to the server.                                               *)

(***************************************************************************)
(* connect_helper on connection c ends with a configured link, or throws   *)
(* and leaves one of ConnectFailures behind; "raw" is a live link whose    *)
(* configuration failed half way, which needs a server that answers.       *)
(***************************************************************************)
Connected(c) == serverUp /\ link' = [link EXCEPT ![c] = "ready"]

ConnectFailed(c) ==
  \E s \in ConnectFailures :
    /\ s = "raw" => serverUp
    /\ link' = [link EXCEPT ![c] = s]

-----------------------------------------------------------------------------
(* init: the whole loop runs under mutex_.                                 *)

(* Mutant: a second init of a pool that is open.                           *)
InitBeginAgain(t) ==
  /\ pc[t] = "idle" /\ mutex = "nobody"
  /\ mutex' = t
  /\ slot' = 0
  /\ Goto(t, "init")
  /\ UNCHANGED <<connections, initialized, held, link, checkVars, serverUp>>

InitBegin(t) ==
  /\ pc[t] = "idle" /\ mutex = "nobody" /\ ~initialized
  /\ mutex' = t
  /\ slot' = 0
  /\ Goto(t, "init")
  /\ UNCHANGED <<connections, initialized, held, link, checkVars, serverUp>>

(* Mutant: a loop with <= creates one connection too many.                 *)
InitCreateTooMany(t) ==
  /\ pc[t] = "init" /\ slot <= PoolSize
  /\ slot' = slot + 1
  /\ Connected(slot + 1)
  /\ connections' = Append(connections, slot + 1)
  /\ UNCHANGED <<initialized, mutex, pc, held, checkVars, serverUp>>

(* create_connection returns a new connection, which is queued ...         *)
InitCreate(t) ==
  /\ pc[t] = "init" /\ slot < PoolSize
  /\ slot' = slot + 1
  /\ Connected(slot + 1)
  /\ connections' = Append(connections, slot + 1)
  /\ UNCHANGED <<initialized, mutex, pc, held, checkVars, serverUp>>

(* ... or nullptr, and init carries on with the next one.                  *)
InitCreateFails(t) ==
  /\ pc[t] = "init" /\ slot < PoolSize
  /\ slot' = slot + 1
  /\ UNCHANGED <<connections, initialized, mutex, pc, held, link, checkVars, serverUp>>

InitEnd(t) ==
  /\ pc[t] = "init" /\ slot = PoolSize
  /\ initialized' = TRUE
  /\ mutex' = "nobody"
  /\ Goto(t, "idle")
  /\ UNCHANGED <<connections, slot, held, link, checkVars, serverUp>>

-----------------------------------------------------------------------------
(* get_connection.                                                         *)

(* Mutant: front() without pop().                                          *)
TakeWithoutPop(t) ==
  /\ IF connections # << >>
     THEN held' = [held EXCEPT ![t] = Head(connections)] /\ Goto(t, "ping")
     ELSE Goto(t, "waiting") /\ UNCHANGED held
  /\ UNCHANGED connections

(* The predicate loop of cv_.wait: take the front of the queue, or block.  *)
TakeOrWait(t) ==
  \/ /\ connections # << >>
     /\ held' = [held EXCEPT ![t] = Head(connections)]
     /\ connections' = Tail(connections)
     /\ Goto(t, "ping")
  \/ /\ connections = << >>
     /\ Goto(t, "waiting")
     /\ UNCHANGED <<connections, held>>

(* A call on a pool that is not initialized throws and changes nothing.    *)
Acquire(t) ==
  /\ pc[t] = "idle" /\ mutex = "nobody" /\ initialized
  /\ TakeOrWait(t)
  /\ UNCHANGED <<initialized, mutex, slot, link, checkVars, serverUp>>

Wake(t) ==
  /\ pc[t] = "woken" /\ mutex = "nobody"
  /\ TakeOrWait(t)
  /\ UNCHANGED <<initialized, mutex, slot, link, checkVars, serverUp>>

(* A condition variable may wake a waiter without a notification.          *)
SpuriousWake(t) ==
  /\ pc[t] = "waiting"
  /\ Goto(t, "woken")
  /\ UNCHANGED <<poolVars, held, link, checkVars, serverUp>>

(***************************************************************************)
(* ping of connection c succeeds on a live link.  redis++ re-establishes a *)
(* broken link inside the command, the MySQL connector does not.           *)
(***************************************************************************)
PingOk(c) ==
  \/ Alive(c) /\ UNCHANGED link
  \/ PingRevives /\ link[c] = "dead" /\ Connected(c)

PingFails(c) ==
  /\ ~Alive(c)
  /\ ~(PingRevives /\ link[c] = "dead" /\ serverUp)
  /\ UNCHANGED link

Ping(t) ==
  /\ pc[t] = "ping"
  /\ \/ PingOk(held[t]) /\ Goto(t, "using")
     \/ PingFails(held[t]) /\ Goto(t, "reconnect")
  /\ UNCHANGED <<poolVars, held, checkVars, serverUp>>

Reconnect(t) ==
  /\ pc[t] = "reconnect"
  /\ \/ Connected(held[t]) /\ Goto(t, "using")
     \/ ConnectFailed(held[t]) /\ Goto(t, "error")
  /\ UNCHANGED <<poolVars, held, checkVars, serverUp>>

-----------------------------------------------------------------------------
(* The connection comes back.                                              *)

(* Mutant: emplace without notify_one.                                     *)
PushSilently(t) ==
  /\ mutex = "nobody"
  /\ connections' = Append(connections, held[t])
  /\ held' = [held EXCEPT ![t] = NoConn]
  /\ Goto(t, "idle")
  /\ UNCHANGED <<initialized, mutex, slot, link, checkVars, serverUp>>

(* emplace and notify_one, in one critical section of mutex_.              *)
PushAndNotify(t) ==
  /\ mutex = "nobody"
  /\ connections' = Append(connections, held[t])
  /\ held' = [held EXCEPT ![t] = NoConn]
  /\ \/ /\ Waiting = {}
        /\ Goto(t, "idle")
     \/ \E w \in Waiting : pc' = [pc EXCEPT ![t] = "idle", ![w] = "woken"]
  /\ UNCHANGED <<initialized, mutex, slot, link, checkVars, serverUp>>

(* Mutant: the catch block gives the connection back and wakes nobody.     *)
ReturnOnErrorSilently(t) == pc[t] = "error" /\ PushSilently(t)

(* The catch block of get_connection: give the connection back, rethrow.   *)
ReturnOnError(t) == pc[t] = "error" /\ PushAndNotify(t)

(***************************************************************************)
(* The deleter runs when the last shared_ptr of the borrower dies.  On a   *)
(* dead link, cleanup of a MySQL connection may or may not see an error.   *)
(***************************************************************************)
Release(t) ==
  /\ pc[t] = "using"
  /\ \/ Goto(t, "return")
     \/ CleanupMayReconnect /\ link[held[t]] = "dead" /\ Goto(t, "cleanup")
  /\ UNCHANGED <<poolVars, held, link, checkVars, serverUp>>

CleanupReconnect(t) ==
  /\ pc[t] = "cleanup"
  /\ Connected(held[t]) \/ ConnectFailed(held[t])
  /\ Goto(t, "return")
  /\ UNCHANGED <<poolVars, held, checkVars, serverUp>>

ReturnToPool(t) == pc[t] = "return" /\ PushAndNotify(t)

-----------------------------------------------------------------------------
(* check_connections, the detached thread.                                 *)

(* Finding the queue empty, it sleeps for a second with mutex_ held.       *)
CheckEmpty ==
  /\ chk = "start" /\ mutex = "nobody" /\ connections = << >>
  /\ mutex' = "checker"
  /\ chk' = "locked"
  /\ UNCHANGED <<connections, initialized, slot, pc, held, link, toCheck, serverUp>>

CheckUnlock ==
  /\ chk = "locked"
  /\ mutex' = "nobody"
  /\ chk' = "start"
  /\ UNCHANGED <<connections, initialized, slot, pc, held, link, toCheck, serverUp>>

(* Mutant: the connections are moved out of the queue to be checked.       *)
CheckSnapshotMoves ==
  /\ chk = "start" /\ mutex = "nobody" /\ connections # << >>
  /\ toCheck' = connections
  /\ connections' = << >>
  /\ chk' = "ping"
  /\ UNCHANGED <<initialized, mutex, slot, pc, held, link, serverUp>>

CheckSnapshot ==
  /\ chk = "start" /\ mutex = "nobody" /\ connections # << >>
  /\ toCheck' = connections
  /\ chk' = "ping"
  /\ UNCHANGED <<poolVars, pc, held, link, serverUp>>

CheckNext ==
  /\ toCheck' = Tail(toCheck)
  /\ chk' = IF Len(toCheck) = 1 THEN "start" ELSE "ping"

CheckPing ==
  /\ chk = "ping"
  /\ \/ PingOk(Head(toCheck)) /\ CheckNext
     \/ PingFails(Head(toCheck)) /\ chk' = "reconnect" /\ UNCHANGED toCheck
  /\ UNCHANGED <<poolVars, pc, held, serverUp>>

CheckReconnect ==
  /\ chk = "reconnect"
  /\ Connected(Head(toCheck)) \/ ConnectFailed(Head(toCheck))
  /\ CheckNext
  /\ UNCHANGED <<poolVars, pc, held, serverUp>>

-----------------------------------------------------------------------------
(* The rest of the world.                                                  *)

ServerDown ==
  /\ serverUp
  /\ serverUp' = FALSE
  /\ link' = [c \in Conns |-> IF Alive(c) THEN "dead" ELSE link[c]]
  /\ UNCHANGED <<poolVars, pc, held, checkVars>>

ServerBack ==
  /\ ~serverUp
  /\ serverUp' = TRUE
  /\ UNCHANGED <<poolVars, pc, held, link, checkVars>>

(* The server closes one link, for instance an idle one.                   *)
LinkLost(c) ==
  /\ Alive(c)
  /\ link' = [link EXCEPT ![c] = "dead"]
  /\ UNCHANGED <<poolVars, pc, held, checkVars, serverUp>>

(***************************************************************************)
(* The destructor of the singleton runs when the process exits, after the  *)
(* calling threads are done; the process takes the checker with it.        *)
(***************************************************************************)
Destroy ==
  /\ mutex = "nobody" /\ chk # "exited"
  /\ \A t \in Threads : pc[t] = "idle"
  /\ connections' = << >>
  /\ initialized' = FALSE
  /\ link' = [c \in Conns |-> "none"]
  /\ pc' = [t \in Threads |-> "exited"]
  /\ chk' = "exited"
  /\ toCheck' = << >>
  /\ UNCHANGED <<mutex, slot, held, serverUp>>

init(t) == InitBegin(t) \/ InitCreate(t) \/ InitCreateFails(t) \/ InitEnd(t)

get_connection(t) ==
  Acquire(t) \/ Wake(t) \/ SpuriousWake(t) \/ Ping(t) \/ Reconnect(t)
    \/ ReturnOnError(t)

deleter(t) == Release(t) \/ CleanupReconnect(t) \/ ReturnToPool(t)

check_connections ==
  CheckEmpty \/ CheckUnlock \/ CheckSnapshot \/ CheckPing \/ CheckReconnect

Environment == ServerDown \/ ServerBack \/ \E c \in Conns : LinkLost(c)

Next ==
  \/ \E t \in Threads : init(t) \/ get_connection(t) \/ deleter(t)
  \/ check_connections
  \/ Environment
  \/ Destroy

Spec == Init /\ [][Next]_vars

(***************************************************************************)
(* Fairness.  Every thread that is past the lock keeps running, a borrower *)
(* drops its shared_ptr when its scope ends, and the checker keeps         *)
(* cycling.  A thread that needs mutex_ gets it eventually although the    *)
(* checker takes it again and again: strong fairness of the steps that     *)
(* lock it.  No caller is obliged to call, no server to come back.         *)
(***************************************************************************)
ThreadFairness(t) ==
  /\ WF_vars(InitCreate(t) \/ InitCreateFails(t) \/ InitEnd(t))
  /\ WF_vars(Ping(t) \/ Reconnect(t) \/ Release(t) \/ CleanupReconnect(t))
  /\ SF_vars(Wake(t) \/ ReturnOnError(t) \/ ReturnToPool(t))

FairSpec ==
  Spec /\ WF_vars(check_connections) /\ \A t \in Threads : ThreadFairness(t)

-----------------------------------------------------------------------------
(***************************************************************************)
(* A connection is never in two hands: the queue has no duplicate, no two  *)
(* threads hold the same connection, and what a thread holds is not in the *)
(* queue, whatever the checker, the error path and the deleter do.         *)
(***************************************************************************)
ExclusiveOwner ==
  /\ IsInjective(connections)
  /\ \A t, u \in Threads : held[t] = held[u] /\ held[t] # NoConn => t = u
  /\ \A t \in Threads : held[t] \notin Range(connections)

(***************************************************************************)
(* No connection leaks: every connection that init created is in the queue *)
(* or in the hands of a thread that is on its way to bring it back.        *)
(***************************************************************************)
NoneLost ==
  Created = Range(connections) \cup ({held[t] : t \in Threads} \ {NoConn})

(***************************************************************************)
(* No wakeup is lost.  A thread sleeps in cv_.wait next to a non-empty     *)
(* queue only while enough other threads are awake to empty the queue,     *)
(* although each push wakes one thread and newcomers may overtake it.      *)
(***************************************************************************)
NoLostWakeup == Waiting # {} => Len(connections) <= Cardinality(Woken)

(***************************************************************************)
(* The pool implements the abstract one.                                   *)
(***************************************************************************)
Phase == IF chk = "exited" THEN "closed" ELSE IF initialized THEN "open" ELSE "new"

Abstract == INSTANCE ResourcePool
  WITH Clients <- Threads, Resources <- Conns, NoResource <- NoConn,
       phase <- Phase, free <- Range(connections), owned <- held

ImplementsResourcePool == Abstract!Spec

(***************************************************************************)
(* get_connection serves its callers: a thread blocked in a pool that has  *)
(* at least one connection does not stay blocked for ever, unless others   *)
(* are given connections for ever (the queue of mutex_ is not a FIFO).     *)
(***************************************************************************)
InGetConnection(t) == pc[t] \in {"waiting", "woken"}

SomeoneServed == \E t \in Threads : held[t] = NoConn /\ held'[t] # NoConn

CallsServed ==
  \A t \in Threads :
    <>[](InGetConnection(t) /\ Created # {}) => []<><<SomeoneServed>>_held

(***************************************************************************)
(* A borrower's connection object wraps a driver connection: execute_query *)
(* and execute_update dereference it without a test.                       *)
(***************************************************************************)
BorrowedNotNull == \A t \in Threads : pc[t] = "using" => link[held[t]] # "null"
=============================================================================
