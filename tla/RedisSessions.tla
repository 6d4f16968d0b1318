---------------------------- MODULE RedisSessions ----------------------------
(***************************************************************************)
(* SessionManager over DbSessionStorage: requests that get, update and     *)
(* destroy sessions kept as Redis hashes, and the cleanup of expired ones. *)
(* A request thread works on a private copy of the session, every Redis    *)
(* command is a step of its own, and every storage call borrows a          *)
(* connection of the Redis pool for as long as it lasts; load of an        *)
(* expired session calls remove and so borrows a second one.               *)
(*                                                                         *)
(* The pool appears as the number of its free connections, which is what   *)
(* ConnectionPool guarantees: an exclusive loan, and blocking if there is  *)
(* none.  rb_mutex_ is only taken shared here and excludes nobody.         *)
(*                                                                         *)
(* Time is counted in ticks, TicksPerSecond to the second, because store   *)
(* rounds the expiry and the time to live to whole seconds.                *)
(***************************************************************************)
EXTENDS Naturals, FiniteSets

CONSTANTS
  Threads,         (* the threads that serve requests                      *)
  Ids,             (* the session ids generate_session_id draws            *)
  Attributes,      (* the names of session attributes                      *)
  PoolSize,        (* connections in the Redis pool                        *)
  Timeout,         (* timeout_ of a session, in seconds                    *)
  TicksPerSecond,
  MaxTime,         (* bound: the last tick                                 *)
  CommandsFail     (* may borrowing a connection, or a command, throw      *)

NoId == "none"

ASSUME SessionAssumption ==
  /\ NoId \notin Ids
  /\ IsFiniteSet(Threads)
  /\ PoolSize \in Nat \ {0} /\ Timeout \in Nat \ {0}
  /\ TicksPerSecond \in Nat \ {0} /\ MaxTime \in Nat
  /\ CommandsFail \in BOOLEAN

VARIABLES
  now,        (* system_clock, which Redis shares                          *)
  hash,       (* the Redis hash of each session id                         *)
  pc,         (* where each thread is                                      *)
  session,    (* the Session object each thread works on                   *)
  ttl,        (* the seconds to live that store has computed               *)
  todo,       (* the keys clear_expired still has to look at               *)
  drawn,      (* the ids that have been generated                          *)
  issued,     (* those that a response has told a client                   *)
  destroyed,  (* history: the ids whose destroy_session has returned       *)
  shared,     (* history: those another thread had in hand at that time    *)
  torn        (* history: the ids a store gave up half way, until the next *)
              (* store of them that succeeds                               *)

history == <<destroyed, shared, torn>>
vars == <<now, hash, pc, session, ttl, todo, drawn, issued, history>>

(***************************************************************************)
(* Where a thread can be, by the number of connections it holds there.     *)
(***************************************************************************)
HoldsNone == {"idle", "load", "check", "create", "store", "using", "remove",
              "destroy", "cleanup"}
HoldsOne  == {"exists", "hgetall", "expired", "hset_attributes", "hset_expiry",
              "expire", "del", "destroy_del", "sweep", "sweep_del"}
HoldsTwo  == {"expired_del"}

Free ==
  PoolSize - Cardinality({t \in Threads : pc[t] \in HoldsOne})
           - 2 * Cardinality({t \in Threads : pc[t] \in HoldsTwo})

NoTtl  == 0
NoHash == [fields |-> {}, attributes |-> {}, expiry |-> 0, deadline |-> NoTtl]

Exists(id)   == hash[id].fields # {}
Complete(id) == hash[id].fields = {"attributes", "expiry"}

Seconds(ticks)  == ticks \div TicksPerSecond
Ticks(seconds)  == seconds * TicksPerSecond
LatestTime      == MaxTime + Ticks(Timeout)

(* The session of a thread: it has an id, and while it is loaded the rest. *)
NewSession(id) == [id |-> id, attributes |-> {}, expiry |-> now + Ticks(Timeout)]

NoSession == [id |-> NoId, attributes |-> {}, expiry |-> 0]

Hash == [fields : SUBSET {"attributes", "expiry"}, attributes : SUBSET Attributes,
         expiry : 0 .. LatestTime, deadline : 0 .. LatestTime]

TypeOK ==
  /\ now \in 0 .. MaxTime
  /\ hash \in [Ids -> Hash] /\ \A id \in Ids : ~Exists(id) => hash[id] = NoHash
  /\ pc \in [Threads -> HoldsNone \cup HoldsOne \cup HoldsTwo]
  /\ session \in [Threads -> [id : drawn \cup {NoId}, attributes : SUBSET Attributes,
                              expiry : 0 .. LatestTime]]
  /\ ttl \in [Threads -> 0 .. Timeout]
  /\ todo \in [Threads -> SUBSET Ids]
  /\ issued \subseteq drawn /\ drawn \subseteq Ids
  /\ destroyed \subseteq drawn /\ shared \subseteq destroyed /\ torn \subseteq drawn
  /\ Free >= 0

Init ==
  /\ now = 0
  /\ hash = [id \in Ids |-> NoHash]
  /\ pc = [t \in Threads |-> "idle"]
  /\ session = [t \in Threads |-> NoSession]
  /\ ttl = [t \in Threads |-> 0]
  /\ todo = [t \in Threads |-> {}]
  /\ drawn = {}
  /\ issued = {}
  /\ destroyed = {}
  /\ shared = {}
  /\ torn = {}

Goto(t, l) == pc' = [pc EXCEPT ![t] = l]

(* The thread is done with its request, or with clear_expired.             *)
Finish(t) ==
  /\ Goto(t, "idle")
  /\ session' = [session EXCEPT ![t] = NoSession]

(* Mutant: more loans than connections.                                    *)
BorrowUnchecked(t, from, to) == pc[t] = from /\ Goto(t, to)

(* get_connection: blocks while there is no free connection.               *)
Borrow(t, from, to) ==
  /\ pc[t] = from /\ Free > 0
  /\ Goto(t, to)

-----------------------------------------------------------------------------
(* get_session, with the cookie of a session that was given out, or none.  *)

GetSession(t) ==
  /\ pc[t] = "idle"
  /\ \/ /\ \E id \in issued : session' = [session EXCEPT ![t].id = id]
        /\ Goto(t, "load")
     \/ /\ Goto(t, "create")
        /\ UNCHANGED session
  /\ UNCHANGED <<now, hash, ttl, todo, drawn, issued, history>>

LoadBorrow(t) ==
  /\ Borrow(t, "load", "exists")
  /\ UNCHANGED <<now, hash, session, ttl, todo, drawn, issued, history>>

(* Mutant: load tries again until there is such a session.                 *)
LoadRetries(t) ==
  /\ pc[t] = "exists"
  /\ Goto(t, IF Exists(session[t].id) THEN "hgetall" ELSE "load")
  /\ UNCHANGED <<now, hash, session, ttl, todo, drawn, issued, history>>

LoadExists(t) ==
  /\ pc[t] = "exists"
  /\ Goto(t, IF Exists(session[t].id) THEN "hgetall" ELSE "create")
  /\ UNCHANGED <<now, hash, session, ttl, todo, drawn, issued, history>>

(* A session without attributes is stored as the JSON text null.           *)
JsonObject(attributes) == attributes # {}

(* hgetall, then what load makes of the reply.                             *)
LoadHgetall(t) ==
  LET reply == hash[session[t].id] IN
  /\ pc[t] = "hgetall"
  /\ \/ /\ ~Complete(session[t].id)
        /\ Goto(t, "create")
        /\ UNCHANGED session
     \/ /\ Complete(session[t].id) /\ reply.expiry < now
        /\ Goto(t, "expired")
        /\ UNCHANGED session
     \/ /\ Complete(session[t].id) /\ reply.expiry >= now
        /\ IF JsonObject(reply.attributes)
           THEN /\ session' = [session EXCEPT ![t].attributes = reply.attributes,
                                              ![t].expiry = reply.expiry]
                /\ Goto(t, "check")
           ELSE Goto(t, "create") /\ UNCHANGED session
  /\ UNCHANGED <<now, hash, ttl, todo, drawn, issued, history>>

(* load calls remove while it still has its own connection.                *)
ExpiredBorrow(t) ==
  /\ Borrow(t, "expired", "expired_del")
  /\ UNCHANGED <<now, hash, session, ttl, todo, drawn, issued, history>>

Del(id) == hash' = [hash EXCEPT ![id] = NoHash]

ExpiredDel(t) ==
  /\ pc[t] = "expired_del"
  /\ Del(session[t].id)
  /\ Goto(t, "create")
  /\ UNCHANGED <<now, session, ttl, todo, drawn, issued, history>>

(* is_expired on the loaded copy, and refresh.                             *)
Check(t) ==
  /\ pc[t] = "check"
  /\ \/ /\ now > session[t].expiry
        /\ Goto(t, "remove")
        /\ UNCHANGED session
     \/ /\ now <= session[t].expiry
        /\ session' = [session EXCEPT ![t].expiry = now + Ticks(Timeout)]
        /\ Goto(t, "store")
  /\ UNCHANGED <<now, hash, ttl, todo, drawn, issued, history>>

RemoveBorrow(t) ==
  /\ Borrow(t, "remove", "del")
  /\ UNCHANGED <<now, hash, session, ttl, todo, drawn, issued, history>>

RemoveDel(t) ==
  /\ pc[t] = "del"
  /\ Del(session[t].id)
  /\ Goto(t, "create")
  /\ UNCHANGED <<now, session, ttl, todo, drawn, issued, history>>

(* generate_session_id: 128 random bits, taken to be fresh.                *)
Create(t) ==
  /\ pc[t] = "create"
  /\ \E id \in Ids \ drawn :
       /\ drawn' = drawn \cup {id}
       /\ session' = [session EXCEPT ![t] = NewSession(id)]
  /\ Goto(t, "store")
  /\ UNCHANGED <<now, hash, ttl, todo, issued, history>>

(* Bound: the model has no more ids, and gives the request up.             *)
OutOfIds(t) ==
  /\ pc[t] = "create" /\ drawn = Ids
  /\ Finish(t)
  /\ UNCHANGED <<now, hash, ttl, todo, drawn, issued, history>>

-----------------------------------------------------------------------------
(* store.                                                                  *)

(* store is done: the handler has its session, and the client its cookie.  *)
Return(t) ==
  /\ Goto(t, "using")
  /\ issued' = issued \cup {session[t].id}

(* A session with less than a second to live is not stored.                *)
StoreBorrow(t) ==
  /\ pc[t] = "store" /\ Free > 0
  /\ ttl' = [ttl EXCEPT ![t] = IF session[t].expiry <= now THEN 0
                               ELSE Seconds(session[t].expiry - now)]
  /\ IF ttl'[t] = 0 THEN Return(t) ELSE Goto(t, "hset_attributes") /\ UNCHANGED issued
  /\ UNCHANGED <<now, hash, session, todo, drawn, history>>

StoreAttributes(t) ==
  /\ pc[t] = "hset_attributes"
  /\ hash' = [hash EXCEPT ![session[t].id].fields = @ \cup {"attributes"},
                          ![session[t].id].attributes = session[t].attributes]
  /\ Goto(t, "hset_expiry")
  /\ UNCHANGED <<now, session, ttl, todo, drawn, issued, history>>

(* Mutant: the key is given no time to live.                               *)
StoreExpiryIsLast(t) ==
  /\ pc[t] = "hset_expiry"
  /\ hash' = [hash EXCEPT ![session[t].id].fields = @ \cup {"expiry"},
                          ![session[t].id].expiry = Ticks(Seconds(session[t].expiry))]
  /\ Return(t)
  /\ UNCHANGED <<now, session, ttl, todo, drawn, history>>

StoreExpiry(t) ==
  /\ pc[t] = "hset_expiry"
  /\ hash' = [hash EXCEPT ![session[t].id].fields = @ \cup {"expiry"},
                          ![session[t].id].expiry = Ticks(Seconds(session[t].expiry))]
  /\ Goto(t, "expire")
  /\ UNCHANGED <<now, session, ttl, todo, drawn, issued, history>>

(* EXPIRE of a key that is gone does nothing.                              *)
StoreExpire(t) ==
  /\ pc[t] = "expire"
  /\ hash' = IF Exists(session[t].id)
             THEN [hash EXCEPT ![session[t].id].deadline = now + Ticks(ttl[t])]
             ELSE hash
  /\ ttl' = [ttl EXCEPT ![t] = 0]
  /\ torn' = torn \ {session[t].id}
  /\ Return(t)
  /\ UNCHANGED <<now, session, todo, drawn, destroyed, shared>>

-----------------------------------------------------------------------------
(* The handler: it changes attributes and calls update_session, logs the   *)
(* user out with destroy_session, or is done.                              *)

Update(t) ==
  /\ pc[t] = "using"
  /\ \E attributes \in SUBSET Attributes :
       session' = [session EXCEPT ![t].attributes = attributes]
  /\ Goto(t, "store")
  /\ UNCHANGED <<now, hash, ttl, todo, drawn, issued, history>>

Destroy(t) ==
  /\ pc[t] = "using"
  /\ Goto(t, "destroy")
  /\ UNCHANGED <<now, hash, session, ttl, todo, drawn, issued, history>>

DestroyBorrow(t) ==
  /\ Borrow(t, "destroy", "destroy_del")
  /\ UNCHANGED <<now, hash, session, ttl, todo, drawn, issued, history>>

(* Does another thread have the session in hand?                           *)
InHand(id, t) == \E u \in Threads \ {t} : session[u].id = id

(* Mutant: only the attributes are deleted.                                *)
DestroyHdel(t) ==
  /\ pc[t] = "destroy_del"
  /\ hash' = [hash EXCEPT ![session[t].id].attributes = {}]
  /\ destroyed' = destroyed \cup {session[t].id}
  /\ shared' = IF InHand(session[t].id, t) THEN shared \cup {session[t].id} ELSE shared
  /\ Finish(t)
  /\ UNCHANGED <<now, ttl, todo, drawn, issued, torn>>

DestroyDel(t) ==
  /\ pc[t] = "destroy_del"
  /\ Del(session[t].id)
  /\ destroyed' = destroyed \cup {session[t].id}
  /\ shared' = IF InHand(session[t].id, t) THEN shared \cup {session[t].id} ELSE shared
  /\ Finish(t)
  /\ UNCHANGED <<now, ttl, todo, drawn, issued, torn>>

Done(t) ==
  /\ pc[t] = "using"
  /\ Finish(t)
  /\ UNCHANGED <<now, hash, ttl, todo, drawn, issued, history>>

-----------------------------------------------------------------------------
(* clear_expired: one connection for the scan and every key after it.      *)

Cleanup(t) ==
  /\ pc[t] = "idle"
  /\ Goto(t, "cleanup")
  /\ UNCHANGED <<now, hash, session, ttl, todo, drawn, issued, history>>

CleanupScan(t) ==
  /\ Borrow(t, "cleanup", "sweep")
  /\ todo' = [todo EXCEPT ![t] = {id \in Ids : Exists(id)}]
  /\ UNCHANGED <<now, hash, session, ttl, drawn, issued, history>>

(* hgetall of the next key, and a look at its expiry.                      *)
Sweep(t) ==
  /\ pc[t] = "sweep"
  /\ \/ /\ todo[t] = {}
        /\ Finish(t)
        /\ UNCHANGED todo
     \/ \E id \in todo[t] :
          /\ todo' = [todo EXCEPT ![t] = @ \ {id}]
          /\ IF "expiry" \in hash[id].fields /\ hash[id].expiry < now
             THEN session' = [session EXCEPT ![t].id = id] /\ Goto(t, "sweep_del")
             ELSE UNCHANGED <<session, pc>>
  /\ UNCHANGED <<now, hash, ttl, drawn, issued, history>>

SweepDel(t) ==
  /\ pc[t] = "sweep_del"
  /\ Del(session[t].id)
  /\ session' = [session EXCEPT ![t] = NoSession]
  /\ Goto(t, "sweep")
  /\ UNCHANGED <<now, ttl, todo, drawn, issued, history>>

-----------------------------------------------------------------------------
(* A connection cannot be had, or a command throws.  load swallows the     *)
(* exception, clear_expired that of a key; the others end the request.     *)

Throws(t) ==
  /\ CommandsFail
  /\ \/ /\ pc[t] \in {"load", "exists", "hgetall", "expired", "expired_del"}
        /\ Goto(t, "create")
        /\ UNCHANGED <<session, todo>>
     \/ /\ pc[t] \in {"store", "hset_attributes", "hset_expiry", "expire", "remove",
                      "del", "destroy", "destroy_del", "cleanup"}
        /\ Finish(t)
        /\ UNCHANGED todo
     \/ /\ pc[t] = "sweep"
        /\ \E id \in todo[t] : todo' = [todo EXCEPT ![t] = @ \ {id}]
        /\ UNCHANGED <<pc, session>>
     \/ /\ pc[t] = "sweep_del"
        /\ Goto(t, "sweep")
        /\ UNCHANGED <<session, todo>>
  /\ ttl' = [ttl EXCEPT ![t] = 0]
  /\ torn' = IF pc[t] \in {"hset_expiry", "expire"} THEN torn \cup {session[t].id} ELSE torn
  /\ UNCHANGED <<now, hash, drawn, issued, destroyed, shared>>

-----------------------------------------------------------------------------
(* Time passes, and Redis drops the keys whose time has come.              *)

Tick ==
  /\ now < MaxTime
  /\ now' = now + 1
  /\ hash' = [id \in Ids |->
                IF hash[id].deadline # NoTtl /\ hash[id].deadline <= now'
                THEN NoHash ELSE hash[id]]
  /\ UNCHANGED <<pc, session, ttl, todo, drawn, issued, history>>

load(t)  == LoadBorrow(t) \/ LoadExists(t) \/ LoadHgetall(t) \/ ExpiredBorrow(t) \/ ExpiredDel(t)
store(t) == StoreBorrow(t) \/ StoreAttributes(t) \/ StoreExpiry(t) \/ StoreExpire(t)
remove(t) == RemoveBorrow(t) \/ RemoveDel(t) \/ DestroyBorrow(t) \/ DestroyDel(t)
clear_expired(t) == CleanupScan(t) \/ Sweep(t) \/ SweepDel(t)

Working(t) ==
  load(t) \/ Check(t) \/ Create(t) \/ OutOfIds(t) \/ store(t) \/ remove(t)
    \/ clear_expired(t)

Handler(t) == Update(t) \/ Destroy(t) \/ Done(t)

Next ==
  \/ \E t \in Threads :
       GetSession(t) \/ Cleanup(t) \/ Working(t) \/ Handler(t) \/ Throws(t)
  \/ Tick

Spec == Init /\ [][Next]_vars

(***************************************************************************)
(* Every call runs on.  The pool serves a caller who keeps asking while    *)
(* connections come back again and again (ConnectionPool!CallsServed, and  *)
(* a cv_ that is not unfair for ever): strong fairness of the steps that   *)
(* borrow.                                                                 *)
(***************************************************************************)
FairSpec == Spec /\ \A t \in Threads : SF_vars(Working(t))

-----------------------------------------------------------------------------
(***************************************************************************)
(* get_session, and every other call into the storage, returns.            *)
(***************************************************************************)
CallsReturn ==
  \A t \in Threads :
    pc[t] \notin {"idle", "using"} ~> pc[t] \in {"idle", "using"}

(***************************************************************************)
(* No session stays in Redis for ever: a key without a time to live is one *)
(* that a store is about to give one, although a deletion can come between *)
(* any two of its commands.  The exception is a store that threw half way, *)
(* which nothing repairs but the next store of that session.               *)
(***************************************************************************)
NoImmortalKey ==
  \A id \in Ids :
    Exists(id) /\ hash[id].deadline = NoTtl =>
      \/ id \in torn
      \/ \E t \in Threads : session[t].id = id /\ pc[t] \in {"hset_expiry", "expire"}

(***************************************************************************)
(* A session that was destroyed does not come back, unless another request *)
(* had it in hand when it was: that one works on a copy, and its next      *)
(* store writes the whole session again.                                   *)
(***************************************************************************)
DestroyedIsGoneIfUnshared == \A id \in destroyed \ shared : ~Exists(id)
=============================================================================
