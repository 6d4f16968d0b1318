---------------------------- MODULE MemorySessions ----------------------------
(***************************************************************************)
(* SessionManager over InMemoryStorage, its default: an unordered_map from *)
(* session ids to Session objects, which get_session hands out themselves, *)
(* so that all requests of a session share one object.  Every call of the  *)
(* manager holds rb_mutex_, but shared, also those that change the map or  *)
(* draw from rng_: only set_session_storage excludes the others.           *)
(*                                                                         *)
(* A thread is inside the map from Enter to the step that leaves it; load  *)
(* and clear_expired hold an iterator from their look at a session to its  *)
(* erase, and stay inside for that long.  Where a thread is inside to      *)
(* change the map while another one is, the behaviour is undefined from    *)
(* then on: a step may be lost, or the program crash.                      *)
(***************************************************************************)
EXTENDS Naturals, FiniteSets

CONSTANTS
  Threads,   (* the I/O threads, which serve requests                      *)
  Ids,       (* the ids generate_session_id draws                          *)
  NoId,      (* no id                                                      *)
  Timeout,   (* timeout_ of a session                                      *)
  MaxTime    (* bound: the clock                                           *)

ASSUME MemoryAssumption ==
  /\ NoId \notin Ids
  /\ Timeout \in Nat \ {0} /\ MaxTime \in Nat

VARIABLES
  now,
  sessions_, (* the ids in the map                                         *)
  expiry,    (* of each Session object: expiry_time_                       *)
  pc,        (* where each thread is                                       *)
  inside,    (* the threads that are inside the map, or inside rng_        *)
  session,   (* the session each thread works on                           *)
  todo,      (* of clear_expired: the sessions still to come               *)
  drawn,     (* the ids that have been generated                           *)
  issued,    (* those that a response has told a client                    *)
  replaced,  (* has set_session_storage been called                        *)
  raced,     (* history: has there been a data race                        *)
  forgotten, (* history: the live sessions that went with a replaced       *)
             (* storage, or that a get_session removed as expired          *)
  destroyed, (* history: the ids destroy_session has removed ...           *)
  shared     (* ... and those of them another request had found before     *)

history == <<forgotten, destroyed, shared>>
vars == <<now, sessions_, expiry, pc, inside, session, todo, drawn, issued,
          replaced, raced, history>>

(* Where a thread reads the map, changes it, and where it draws an id.     *)
Reads   == {"load", "sweep"}
Changes == {"load_erase", "remove", "store", "update", "destroy", "sweep_erase"}
Draws   == {"generate"}
Locked  == Reads \cup Changes \cup Draws \cup {"check", "refresh"}

TypeOK ==
  /\ now \in 0 .. MaxTime
  /\ sessions_ \subseteq drawn /\ issued \subseteq drawn /\ drawn \subseteq Ids
  /\ expiry \in [Ids -> 0 .. MaxTime + Timeout]
  /\ pc \in [Threads -> {"idle", "using", "crashed"} \cup Locked]
  /\ inside \subseteq {t \in Threads : pc[t] \in Reads \cup Changes \cup Draws}
  /\ session \in [Threads -> drawn \cup {NoId}]
  /\ todo \in [Threads -> SUBSET drawn]
  /\ replaced \in BOOLEAN /\ raced \in BOOLEAN
  /\ forgotten \subseteq drawn /\ shared \subseteq destroyed /\ destroyed \subseteq drawn

Init ==
  /\ now = 0
  /\ sessions_ = {}
  /\ expiry = [id \in Ids |-> 0]
  /\ pc = [t \in Threads |-> "idle"]
  /\ inside = {}
  /\ session = [t \in Threads |-> NoId]
  /\ todo = [t \in Threads |-> {}]
  /\ drawn = {}
  /\ issued = {}
  /\ replaced = FALSE
  /\ raced = FALSE
  /\ forgotten = {} /\ destroyed = {} /\ shared = {}

-----------------------------------------------------------------------------
Goto(t, l) == pc' = [pc EXCEPT ![t] = l]

Expired(id) == now > expiry[id]

(* Two threads are inside the same thing, and one of them changes it.      *)
Conflict(l, m) ==
  \/ l \in Changes /\ m \in Reads \cup Changes
  \/ m \in Changes /\ l \in Reads \cup Changes
  \/ l \in Draws /\ m \in Draws

Racing(t) == \E u \in inside \ {t} : Conflict(pc[t], pc[u])

(* The thread begins to use the map, or rng_; clear_expired begins with    *)
(* the sessions that are there.                                            *)
Enter(t) ==
  /\ pc[t] \in Reads \cup Changes \cup Draws /\ t \notin inside
  /\ inside' = inside \cup {t}
  /\ todo' = IF pc[t] = "sweep" THEN [todo EXCEPT ![t] = sessions_] ELSE todo
  /\ UNCHANGED <<now, sessions_, expiry, pc, session, drawn, issued, replaced, raced,
                 history>>

(* It goes on with an iterator it has.                                     *)
Stay(t) ==
  /\ t \in inside
  /\ UNCHANGED inside
  /\ raced' = (raced \/ Racing(t))

(* It is done with it.                                                     *)
Leave(t) ==
  /\ t \in inside
  /\ inside' = inside \ {t}
  /\ raced' = (raced \/ Racing(t))

(* Two calls race now or have raced: an iterator may be invalid.           *)
Undefined(t) == raced \/ Racing(t)

(* What the map is after the step, which may then have no effect.          *)
Becomes(t, map) ==
  \/ sessions_' = map
  \/ Undefined(t) /\ UNCHANGED sessions_

Crash ==
  /\ \E t \in inside : Undefined(t)
  /\ pc' = [t \in Threads |-> "crashed"]
  /\ inside' = {}
  /\ raced' = TRUE
  /\ UNCHANGED <<now, sessions_, expiry, session, todo, drawn, issued, replaced, history>>

-----------------------------------------------------------------------------
(* get_session, with the cookie of a session that was given out, or none.  *)

GetSession(t) ==
  /\ pc[t] = "idle"
  /\ \/ /\ \E id \in issued : session' = [session EXCEPT ![t] = id]
        /\ Goto(t, "load")
     \/ /\ Goto(t, "generate")
        /\ UNCHANGED session
  /\ UNCHANGED <<now, sessions_, expiry, inside, todo, drawn, issued, replaced, raced,
                 history>>

(* Mutant: load lets go of the map between its look and its erase.         *)
LoadLetsGo(t) ==
  LET id == session[t] IN
  /\ pc[t] = "load"
  /\ Leave(t)
  /\ \/ (id \notin sessions_ \/ Undefined(t)) /\ Goto(t, "generate")
     \/ id \in sessions_ /\ Goto(t, IF Expired(id) THEN "load_erase" ELSE "check")
  /\ UNCHANGED <<now, sessions_, expiry, session, todo, drawn, issued, replaced, history>>

(* load: find and is_expired.  A find that raced may miss what is there;   *)
(* the iterator of an expired session is kept for the erase.               *)
Load(t) ==
  LET id == session[t] IN
  /\ pc[t] = "load"
  /\ \/ /\ id \notin sessions_ \/ Undefined(t)
        /\ Goto(t, "generate")
        /\ Leave(t)
     \/ /\ id \in sessions_ /\ Expired(id)
        /\ Goto(t, "load_erase")
        /\ Stay(t)
     \/ /\ id \in sessions_ /\ ~Expired(id)
        /\ Goto(t, "check")
        /\ Leave(t)
  /\ UNCHANGED <<now, sessions_, expiry, session, todo, drawn, issued, replaced, history>>

(* load erases through its iterator, and returns nothing.                  *)
LoadErase(t) ==
  /\ pc[t] = "load_erase"
  /\ Leave(t)
  /\ Becomes(t, sessions_ \ {session[t]})
  /\ Goto(t, "generate")
  /\ UNCHANGED <<now, expiry, session, todo, drawn, issued, replaced, history>>

(* get_session looks at the object again.                                  *)
Check(t) ==
  /\ pc[t] = "check"
  /\ Goto(t, IF Expired(session[t]) THEN "remove" ELSE "refresh")
  /\ UNCHANGED <<now, sessions_, expiry, inside, session, todo, drawn, issued, replaced,
                 raced, history>>

(* remove, by the id: the session may have been refreshed since the look.  *)
Remove(t) ==
  LET id == session[t] IN
  /\ pc[t] = "remove"
  /\ Leave(t)
  /\ Becomes(t, sessions_ \ {id})
  /\ forgotten' = IF Expired(id) THEN forgotten ELSE forgotten \cup {id}
  /\ Goto(t, "generate")
  /\ UNCHANGED <<now, expiry, session, todo, drawn, issued, replaced, destroyed, shared>>

Refresh(t) ==
  /\ pc[t] = "refresh"
  /\ expiry' = [expiry EXCEPT ![session[t]] = now + Timeout]
  /\ Goto(t, "store")
  /\ UNCHANGED <<now, sessions_, inside, session, todo, drawn, issued, replaced, raced,
                 history>>

(* Mutant: a session that is not found is made anew under the id asked for.*)
GenerateAsAsked(t) ==
  /\ pc[t] = "generate"
  /\ Leave(t)
  /\ \E id \in IF session[t] # NoId THEN {session[t]} ELSE Ids \ drawn :
       /\ drawn' = drawn \cup {id}
       /\ session' = [session EXCEPT ![t] = id]
       /\ expiry' = [expiry EXCEPT ![id] = now + Timeout]
  /\ Goto(t, "store")
  /\ UNCHANGED <<now, sessions_, todo, issued, replaced, history>>

(* generate_session_id, and the Session made for it.  Draws that overlap   *)
(* read the same state of rng_ and may return the same id.                 *)
Generate(t) ==
  /\ pc[t] = "generate"
  /\ Leave(t)
  /\ \E id \in IF Racing(t) THEN Ids ELSE Ids \ drawn :
       /\ drawn' = drawn \cup {id}
       /\ session' = [session EXCEPT ![t] = id]
       /\ expiry' = [expiry EXCEPT ![id] = now + Timeout]
  /\ Goto(t, "store")
  /\ UNCHANGED <<now, sessions_, todo, issued, replaced, history>>

(* Bound: the model has no more ids, and gives the request up.             *)
OutOfIds(t) ==
  /\ pc[t] = "generate" /\ drawn = Ids
  /\ Goto(t, "idle")
  /\ inside' = inside \ {t}
  /\ session' = [session EXCEPT ![t] = NoId]
  /\ UNCHANGED <<now, sessions_, expiry, todo, drawn, issued, replaced, raced, history>>

(* store, of get_session or update_session: the handler has its session.   *)
Store(t) ==
  /\ pc[t] \in {"store", "update"}
  /\ Leave(t)
  /\ Becomes(t, sessions_ \cup {session[t]})
  /\ issued' = issued \cup {session[t]}
  /\ forgotten' = forgotten \ {session[t]}
  /\ Goto(t, "using")
  /\ UNCHANGED <<now, expiry, session, todo, drawn, replaced, destroyed, shared>>

-----------------------------------------------------------------------------
(* The handler: update_session, destroy_session, or it is done.            *)

Handler(t) ==
  /\ pc[t] = "using"
  /\ \/ /\ \E l \in {"update", "destroy"} : Goto(t, l)
        /\ UNCHANGED session
     \/ /\ Goto(t, "idle")
        /\ session' = [session EXCEPT ![t] = NoId]
  /\ UNCHANGED <<now, sessions_, expiry, inside, todo, drawn, issued, replaced, raced,
                 history>>

(* The requests that have found the session, and may store it (again).     *)
Keeps == {"check", "refresh", "store", "using", "update"}
Holders(id) == {t \in Threads : session[t] = id /\ pc[t] \in Keeps}

(* remove for destroy_session; the handler does not use the session again. *)
Destroy(t) ==
  LET id == session[t] IN
  /\ pc[t] = "destroy"
  /\ Leave(t)
  /\ Becomes(t, sessions_ \ {id})
  /\ destroyed' = destroyed \cup {id}
  /\ shared' = IF Holders(id) = {} THEN shared \ {id} ELSE shared \cup {id}
  /\ session' = [session EXCEPT ![t] = NoId]
  /\ Goto(t, "idle")
  /\ UNCHANGED <<now, expiry, todo, drawn, issued, replaced, forgotten>>

-----------------------------------------------------------------------------
(* cleanup_expired_sessions: clear_expired looks at every session.         *)

Cleanup(t) ==
  /\ pc[t] = "idle"
  /\ Goto(t, "sweep")
  /\ UNCHANGED <<now, sessions_, expiry, inside, session, todo, drawn, issued, replaced,
                 raced, history>>

(* The next session, or the end; the thread stays inside the map.          *)
Sweep(t) ==
  /\ pc[t] = "sweep"
  /\ \/ /\ todo[t] = {}
        /\ Leave(t)
        /\ Goto(t, "idle")
        /\ UNCHANGED <<session, todo>>
     \/ \E id \in todo[t] :
          /\ todo' = [todo EXCEPT ![t] = @ \ {id}]
          /\ IF id \in sessions_ /\ Expired(id)
             THEN /\ Goto(t, "sweep_erase")
                  /\ session' = [session EXCEPT ![t] = id]
             ELSE UNCHANGED <<pc, session>>
          /\ Stay(t)
  /\ UNCHANGED <<now, sessions_, expiry, drawn, issued, replaced, history>>

SweepErase(t) ==
  /\ pc[t] = "sweep_erase"
  /\ Stay(t)
  /\ Becomes(t, sessions_ \ {session[t]})
  /\ session' = [session EXCEPT ![t] = NoId]
  /\ Goto(t, "sweep")
  /\ UNCHANGED <<now, expiry, todo, drawn, issued, replaced, history>>

-----------------------------------------------------------------------------
(* set_session_storage waits until nobody holds rb_mutex_; the sessions of *)
(* the old storage are gone with it.                                       *)
SetSessionStorage ==
  /\ ~replaced /\ \A t \in Threads : pc[t] \notin Locked
  /\ \A t \in Threads : pc[t] # "crashed"
  /\ replaced' = TRUE
  /\ sessions_' = {}
  /\ forgotten' = forgotten \cup sessions_
  /\ UNCHANGED <<now, expiry, pc, inside, session, todo, drawn, issued, raced,
                 destroyed, shared>>

Tick ==
  /\ now < MaxTime
  /\ now' = now + 1
  /\ UNCHANGED <<sessions_, expiry, pc, inside, session, todo, drawn, issued, replaced,
                 raced, history>>

Working(t) ==
  Enter(t) \/ Load(t) \/ LoadErase(t) \/ Check(t) \/ Remove(t) \/ Refresh(t)
    \/ Generate(t) \/ OutOfIds(t) \/ Store(t) \/ Destroy(t) \/ Sweep(t) \/ SweepErase(t)

Next ==
  \/ \E t \in Threads : GetSession(t) \/ Handler(t) \/ Cleanup(t) \/ Working(t)
  \/ Crash \/ SetSessionStorage \/ Tick

Spec == Init /\ [][Next]_vars

-----------------------------------------------------------------------------
(***************************************************************************)
(* A live session that a handler works with can be found by the client's   *)
(* next request, or another request that has just refreshed it is about to *)
(* store it: also where load and clear_expired erase what they have found  *)
(* expired while another request refreshes the same object.  A look and    *)
(* its erase are one visit of the map, so that a store cannot come between *)
(* without a race, after which nothing is promised.  The exceptions are    *)
(* what was destroyed while others had it, what went with a replaced       *)
(* storage, and the one erase that does come later than its look: that of  *)
(* get_session, which removes by the id what another request may have      *)
(* refreshed and stored in between.                                        *)
(***************************************************************************)
UsedIsStored ==
  ~raced =>
    \A t \in Threads :
      pc[t] = "using" /\ ~Expired(session[t]) /\ session[t] \notin forgotten \cup shared
        => \/ session[t] \in sessions_
           \/ \E u \in Threads : pc[u] = "store" /\ session[u] = session[t]

(***************************************************************************)
(* Where calls do not race, no request is served any more with a session   *)
(* that was destroyed, and it does not come back, unless another request   *)
(* had already found it: that one stores it again.  A request that carries *)
(* its cookie but has not looked yet does not keep it alive, nor do two    *)
(* that destroy it one after the other.                                    *)
(***************************************************************************)
DestroyedIsGoneIfUnshared ==
  ~raced => \A id \in destroyed \ shared : id \notin sessions_ /\ Holders(id) = {}
=============================================================================
