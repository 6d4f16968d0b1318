-------------------------- MODULE RedisSessionsProofs --------------------------
(***************************************************************************)
(* Proofs about RedisSessions, for any threads, ids and attributes, any    *)
(* number of connections, any timeout and any resolution of the clock.     *)
(***************************************************************************)
EXTENDS RedisSessions, Integers, FiniteSetTheorems, TLAPS

(***************************************************************************)
(* Where a thread works on a session, it has one, and only sessions that   *)
(* have been drawn are in Redis.                                           *)
(***************************************************************************)
HaveSession ==
  {"load", "exists", "hgetall", "expired", "expired_del", "check", "remove", "del", "store",
   "hset_attributes", "hset_expiry", "expire", "using", "destroy", "destroy_del", "sweep_del"}

SessionInHand ==
  /\ \A t \in Threads : pc[t] \in HaveSession => session[t].id \in drawn
  /\ \A id \in Ids : Exists(id) => id \in drawn

(***************************************************************************)
(* No session lives longer from now on than its timeout, as an object or in*)
(* Redis, and a store that goes on has at least a second to live left.     *)
(***************************************************************************)
LifeIsBounded ==
  /\ \A t \in Threads : session[t].expiry <= now + Ticks(Timeout)
  /\ \A id \in Ids : hash[id].expiry <= now + Ticks(Timeout)
  /\ \A t \in Threads : pc[t] \in {"hset_attributes", "hset_expiry", "expire"} => ttl[t] > 0

(***************************************************************************)
(* A session that is gone for good can still be asked for by its cookie,   *)
(* but no thread gets further with it than to the load that fails: a new   *)
(* one is generated then.                                                  *)
(***************************************************************************)
GoneIsOnlyAskedFor ==
  \A id \in destroyed \ shared :
    \A t \in Threads : session[t].id = id => pc[t] \in {"load", "exists", "create"}

IInv ==
  /\ TypeOK
  /\ SessionInHand
  /\ LifeIsBounded
  /\ GoneIsOnlyAskedFor
  /\ NoImmortalKey
  /\ DestroyedIsGoneIfUnshared

-----------------------------------------------------------------------------
(* Lemmas about the clock: whole seconds, rounded down.                    *)

(***************************************************************************)
(* A number of seconds is a number of ticks, and none is only no ticks.    *)
(***************************************************************************)
LEMMA TicksGrow ==
  ASSUME NEW s \in Nat, NEW limit \in Nat, s <= limit
  PROVE  /\ Ticks(s) \in Nat /\ Ticks(s) <= Ticks(limit)
         /\ s > 0 => Ticks(s) > 0
<1>1. \A k \in Nat \ {0} : s * k \in Nat /\ s * k <= limit * k /\ (s > 0 => s * k > 0)
  OBVIOUS
<1> QED
  BY <1>1, SessionAssumption DEF Ticks

(***************************************************************************)
(* Rounding to whole seconds never makes a time later, nor a span longer.  *)
(***************************************************************************)
LEMMA SecondsRoundDown ==
  ASSUME NEW n \in Nat
  PROVE  /\ Seconds(n) \in Nat
         /\ Ticks(Seconds(n)) \in Nat /\ Ticks(Seconds(n)) <= n
         /\ n <= Ticks(Timeout) => Seconds(n) <= Timeout
<1>1. \A k \in Nat \ {0} : n \div k \in Nat /\ (n \div k) * k \in Nat /\ (n \div k) * k <= n
  OBVIOUS
<1>2. \A k \in Nat \ {0}, limit \in Nat : n <= limit * k => n \div k <= limit
  OBVIOUS
<1> QED
  BY <1>1, <1>2, SessionAssumption DEF Seconds, Ticks

-----------------------------------------------------------------------------
(* Lemmas about the connections.                                           *)

(* Those of some threads that are in one of these places.                  *)
At(f, threads, places) == {u \in threads : f[u] \in places}

(***************************************************************************)
(* How many threads are in a set of places, with one thread looked at on   *)
(* its own.                                                                *)
(***************************************************************************)
LEMMA CountApart ==
  ASSUME NEW f, NEW places, NEW t \in Threads
  PROVE  /\ Cardinality(At(f, Threads \ {t}, places)) \in Nat
         /\ Cardinality(At(f, Threads, places))
              = Cardinality(At(f, Threads \ {t}, places)) + (IF f[t] \in places THEN 1 ELSE 0)
<1> DEFINE others == At(f, Threads \ {t}, places)
           all    == At(f, Threads, places)
<1>1. IsFiniteSet(others)
  BY SessionAssumption, FS_Subset DEF At
<1>2. Cardinality(others) \in Nat
  BY <1>1, FS_CardinalityType
<1>3. CASE f[t] \in places
  <2>1. all = others \cup {t} /\ t \notin others
    BY <1>3 DEF At
  <2>2. Cardinality(others \cup {t}) = Cardinality(others) + 1
    BY <2>1, <1>1, FS_AddElement
  <2>3. Cardinality(all) = Cardinality(others) + 1
    BY <2>1, <2>2
  <2> QED
    BY <1>2, <1>3, <2>3
<1>4. CASE f[t] \notin places
  <2>1. all = others
    BY <1>4 DEF At
  <2> QED
    BY <1>2, <1>4, <2>1
<1> QED
  BY <1>3, <1>4

(* The connections that a thread holds where it is.                        *)
Weight(l) == (IF l \in HoldsOne THEN 1 ELSE 0) + 2 * (IF l \in HoldsTwo THEN 1 ELSE 0)

(***************************************************************************)
(* A thread that goes from one place to another gives back what it held and*)
(* takes what it holds there.                                              *)
(***************************************************************************)
LEMMA FreeMoves ==
  ASSUME TypeOK, NEW t \in Threads, NEW l, Goto(t, l)
  PROVE  Free \in Int /\ Free' = Free + Weight(pc[t]) - Weight(l)
<1> DEFINE One(f) == Cardinality(At(f, Threads \ {t}, HoldsOne))
           Two(f) == Cardinality(At(f, Threads \ {t}, HoldsTwo))
<1>1. pc' = [pc EXCEPT ![t] = l]
      /\ pc \in [Threads -> HoldsNone \cup HoldsOne \cup HoldsTwo]
  BY DEF Goto, TypeOK
<1>2. pc'[t] = l /\ \A u \in Threads \ {t} : pc'[u] = pc[u]
  BY <1>1
<1>3. /\ At(pc', Threads \ {t}, HoldsOne) = At(pc, Threads \ {t}, HoldsOne)
      /\ At(pc', Threads \ {t}, HoldsTwo) = At(pc, Threads \ {t}, HoldsTwo)
  BY <1>2 DEF At
<1>4. One(pc) \in Nat /\ Two(pc) \in Nat
  BY CountApart
<1>5. Free = PoolSize - (One(pc) + (IF pc[t] \in HoldsOne THEN 1 ELSE 0))
                      - 2 * (Two(pc) + (IF pc[t] \in HoldsTwo THEN 1 ELSE 0))
  BY CountApart DEF Free, At
<1>6. Free' = PoolSize - (One(pc') + (IF l \in HoldsOne THEN 1 ELSE 0))
                       - 2 * (Two(pc') + (IF l \in HoldsTwo THEN 1 ELSE 0))
  BY CountApart, <1>2, ZenonT(40) DEF Free, At
<1>7. One(pc') = One(pc) /\ Two(pc') = Two(pc)
  BY <1>3
<1> HIDE DEF One, Two
<1> QED
  BY <1>4, <1>5, <1>6, <1>7, SessionAssumption DEF Weight

(***************************************************************************)
(* There are enough connections for a step that takes no more than it gives*)
(* back, or one more while one is free.                                    *)
(***************************************************************************)
LEMMA LoansCovered ==
  ASSUME TypeOK, NEW t \in Threads, NEW l, Goto(t, l),
         \/ Weight(l) <= Weight(pc[t])
         \/ Free > 0 /\ Weight(l) <= Weight(pc[t]) + 1
  PROVE  Free' >= 0
<1>1. Free \in Int /\ Free' = Free + Weight(pc[t]) - Weight(l)
  BY FreeMoves
<1>2. Weight(pc[t]) \in Nat /\ Weight(l) \in Nat /\ Free >= 0
  BY DEF Weight, TypeOK
<1> QED
  BY <1>1, <1>2

(***************************************************************************)
(* Nobody takes a connection that is not there.                            *)
(***************************************************************************)
LEMMA FreeStep ==
  ASSUME TypeOK, [Next]_vars
  PROVE  Free' >= 0
<1>1. ASSUME NEW t \in Threads, GetSession(t) PROVE Free' >= 0
  BY <1>1, LoansCovered DEF GetSession, Weight, HoldsOne, HoldsTwo
<1>2. ASSUME NEW t \in Threads, Cleanup(t) PROVE Free' >= 0
  BY <1>2, LoansCovered DEF Cleanup, Weight, HoldsOne, HoldsTwo
<1>3. ASSUME NEW t \in Threads, LoadBorrow(t) PROVE Free' >= 0
  BY <1>3, LoansCovered DEF LoadBorrow, Borrow, Weight, HoldsOne, HoldsTwo
<1>4. ASSUME NEW t \in Threads, LoadExists(t) PROVE Free' >= 0
  BY <1>4, LoansCovered DEF LoadExists, Weight, HoldsOne, HoldsTwo
<1>5. ASSUME NEW t \in Threads, LoadHgetall(t) PROVE Free' >= 0
  BY <1>5, LoansCovered DEF LoadHgetall, Weight, HoldsOne, HoldsTwo
<1>6. ASSUME NEW t \in Threads, ExpiredBorrow(t) PROVE Free' >= 0
  BY <1>6, LoansCovered DEF ExpiredBorrow, Borrow, Weight, HoldsOne, HoldsTwo
<1>7. ASSUME NEW t \in Threads, ExpiredDel(t) PROVE Free' >= 0
  BY <1>7, LoansCovered DEF ExpiredDel, Del, Weight, HoldsOne, HoldsTwo
<1>8. ASSUME NEW t \in Threads, Check(t) PROVE Free' >= 0
  BY <1>8, LoansCovered DEF Check, Weight, HoldsOne, HoldsTwo
<1>9. ASSUME NEW t \in Threads, Create(t) PROVE Free' >= 0
  BY <1>9, LoansCovered DEF Create, NewSession, Weight, HoldsOne, HoldsTwo
<1>10. ASSUME NEW t \in Threads, OutOfIds(t) PROVE Free' >= 0
  BY <1>10, LoansCovered DEF OutOfIds, Finish, NoSession, Weight, HoldsOne, HoldsTwo
<1>11. ASSUME NEW t \in Threads, StoreBorrow(t) PROVE Free' >= 0
  BY <1>11, LoansCovered DEF StoreBorrow, Return, Weight, HoldsOne, HoldsTwo
<1>12. ASSUME NEW t \in Threads, StoreAttributes(t) PROVE Free' >= 0
  BY <1>12, LoansCovered DEF StoreAttributes, Weight, HoldsOne, HoldsTwo
<1>13. ASSUME NEW t \in Threads, StoreExpiry(t) PROVE Free' >= 0
  BY <1>13, LoansCovered DEF StoreExpiry, Weight, HoldsOne, HoldsTwo
<1>14. ASSUME NEW t \in Threads, StoreExpire(t) PROVE Free' >= 0
  BY <1>14, LoansCovered DEF StoreExpire, Return, Weight, HoldsOne, HoldsTwo
<1>15. ASSUME NEW t \in Threads, RemoveBorrow(t) PROVE Free' >= 0
  BY <1>15, LoansCovered DEF RemoveBorrow, Borrow, Weight, HoldsOne, HoldsTwo
<1>16. ASSUME NEW t \in Threads, RemoveDel(t) PROVE Free' >= 0
  BY <1>16, LoansCovered DEF RemoveDel, Del, Weight, HoldsOne, HoldsTwo
<1>17. ASSUME NEW t \in Threads, DestroyBorrow(t) PROVE Free' >= 0
  BY <1>17, LoansCovered DEF DestroyBorrow, Borrow, Weight, HoldsOne, HoldsTwo
<1>18. ASSUME NEW t \in Threads, DestroyDel(t) PROVE Free' >= 0
  BY <1>18, LoansCovered DEF DestroyDel, Del, Finish, NoSession, Weight, HoldsOne,
     HoldsTwo
<1>19. ASSUME NEW t \in Threads, CleanupScan(t) PROVE Free' >= 0
  BY <1>19, LoansCovered DEF CleanupScan, Borrow, Weight, HoldsOne, HoldsTwo
<1>20. ASSUME NEW t \in Threads, Sweep(t) PROVE Free' >= 0
  <2>1. CASE \E l \in {"idle", "sweep_del"} : Goto(t, l)
    BY <2>1, <1>20, LoansCovered DEF Sweep, Weight, HoldsOne, HoldsTwo
  <2>2. CASE UNCHANGED pc
    BY <2>2 DEF Free, TypeOK
  <2> QED
    BY <2>1, <2>2, <1>20 DEF Sweep, Finish
<1>21. ASSUME NEW t \in Threads, SweepDel(t) PROVE Free' >= 0
  BY <1>21, LoansCovered DEF SweepDel, Del, NoSession, Weight, HoldsOne, HoldsTwo
<1>22. ASSUME NEW t \in Threads, Update(t) PROVE Free' >= 0
  BY <1>22, LoansCovered DEF Update, Weight, HoldsOne, HoldsTwo
<1>23. ASSUME NEW t \in Threads, Destroy(t) PROVE Free' >= 0
  BY <1>23, LoansCovered DEF Destroy, Weight, HoldsOne, HoldsTwo
<1>24. ASSUME NEW t \in Threads, Done(t) PROVE Free' >= 0
  BY <1>24, LoansCovered DEF Done, Finish, NoSession, Weight, HoldsOne, HoldsTwo
<1>25. ASSUME NEW t \in Threads, Throws(t) PROVE Free' >= 0
  <2>1. ASSUME NEW l \in {"create", "idle", "sweep"}, Goto(t, l), l = "sweep" => pc[t] = "sweep_del"
        PROVE  Free' >= 0
    BY <2>1, LoansCovered DEF Weight, HoldsOne, HoldsTwo
  <2>2. CASE UNCHANGED pc
    BY <2>2 DEF Free, TypeOK
  <2> QED
    BY <2>1, <2>2, <1>25 DEF Throws, Finish
<1>26. CASE Tick
  BY <1>26 DEF Tick, Free, TypeOK
<1>27. CASE UNCHANGED vars
  BY <1>27 DEF vars, Free, TypeOK
<1> QED
  BY <1>1, <1>2, <1>3, <1>4, <1>5, <1>6, <1>7, <1>8, <1>9, <1>10, <1>11, <1>12, <1>13,
     <1>14, <1>15, <1>16, <1>17, <1>18, <1>19, <1>20, <1>21, <1>22, <1>23, <1>24,
     <1>25, <1>26, <1>27
     DEF Next, Working, load, store, remove, clear_expired, Handler

-----------------------------------------------------------------------------
(* The inductive invariant.                                                *)

(***************************************************************************)
(* The steps that change what is in Redis.                                 *)
(***************************************************************************)
LEMMA HashChanges ==
  ASSUME [Next]_vars
  PROVE  \/ UNCHANGED hash
         \/ \E t \in Threads : ExpiredDel(t) \/ RemoveDel(t) \/ DestroyDel(t) \/ SweepDel(t)
         \/ \E t \in Threads : StoreAttributes(t) \/ StoreExpiry(t) \/ StoreExpire(t)
         \/ Tick
BY DEF Next, Working, load, store, remove, clear_expired, Handler, vars, GetSession,
       Cleanup, LoadBorrow, LoadExists, LoadHgetall, ExpiredBorrow, Check, Create,
       OutOfIds, StoreBorrow, RemoveBorrow, DestroyBorrow, CleanupScan, Sweep, Update,
       Destroy, Done, Throws

(***************************************************************************)
(* The length of a session's life and the end of the clock.                *)
(***************************************************************************)
LEMMA Times ==
  /\ MaxTime \in Nat /\ Ticks(Timeout) \in Nat /\ LatestTime = MaxTime + Ticks(Timeout)
  /\ LatestTime \in Nat
BY TicksGrow, SessionAssumption DEF LatestTime

(***************************************************************************)
(* What is in Redis is a hash of the two fields store writes, and a key is *)
(* gone when its last field is.                                            *)
(***************************************************************************)
LEMMA HashStep ==
  ASSUME TypeOK, SessionInHand, LifeIsBounded, [Next]_vars
  PROVE  hash' \in [Ids -> Hash] /\ \A id \in Ids : ~Exists(id)' => hash'[id] = NoHash
<1>1. /\ hash \in [Ids -> Hash] /\ \A id \in Ids : ~Exists(id) => hash[id] = NoHash
      /\ now \in Nat /\ drawn \subseteq Ids
  BY DEF TypeOK
<1>2. NoHash \in Hash
  BY Times DEF NoHash, NoTtl, Hash
<1>3. CASE UNCHANGED hash
  BY <1>1, <1>3 DEF Exists
<1>4. ASSUME NEW t \in Threads, ExpiredDel(t) \/ RemoveDel(t) \/ DestroyDel(t) \/ SweepDel(t)
      PROVE  hash' \in [Ids -> Hash] /\ \A id \in Ids : ~Exists(id)' => hash'[id] = NoHash
  <2>1. hash' = [hash EXCEPT ![session[t].id] = NoHash]
    BY <1>4 DEF ExpiredDel, RemoveDel, DestroyDel, SweepDel, Del
  <2> QED
    BY <1>1, <1>2, <2>1 DEF Exists
<1>5. ASSUME NEW t \in Threads, StoreAttributes(t) \/ StoreExpiry(t) \/ StoreExpire(t)
      PROVE  hash' \in [Ids -> Hash] /\ \A id \in Ids : ~Exists(id)' => hash'[id] = NoHash
  <2> DEFINE h == session[t].id
  <2>1. h \in Ids /\ hash[h] \in Hash
    BY <1>1, <1>5 DEF SessionInHand, HaveSession, StoreAttributes, StoreExpiry,
       StoreExpire
  <2>2. /\ session[t].attributes \in SUBSET Attributes /\ session[t].expiry \in 0 .. LatestTime
        /\ ttl[t] \in 0 .. Timeout /\ now \in 0 .. MaxTime
    BY DEF TypeOK
  <2>3. Ticks(Seconds(session[t].expiry)) \in 0 .. LatestTime
    BY <2>2, Times, SecondsRoundDown
  <2>4. now + Ticks(ttl[t]) \in 0 .. LatestTime
    <3>1. Ticks(ttl[t]) \in Nat /\ Ticks(ttl[t]) <= Ticks(Timeout)
      BY <2>2, TicksGrow, SessionAssumption
    <3> QED
      BY <2>2, <3>1, Times
  <2>5. /\ DOMAIN hash' = Ids
        /\ \A id \in Ids \ {h} : hash'[id] = hash[id]
    BY <1>1, <1>5 DEF StoreAttributes, StoreExpiry, StoreExpire
  <2>6. hash'[h] \in Hash /\ (hash'[h].fields = {} => hash'[h] = NoHash)
    <3>1. CASE StoreAttributes(t)
      BY <1>1, <2>1, <2>2, <3>1 DEF StoreAttributes, Hash
    <3>2. CASE StoreExpiry(t)
      BY <1>1, <2>1, <2>3, <3>2 DEF StoreExpiry, Hash
    <3>3. CASE StoreExpire(t)
      BY <1>1, <2>1, <2>4, <3>3 DEF StoreExpire, Hash, Exists
    <3> QED
      BY <1>5, <3>1, <3>2, <3>3
  <2>7. hash' \in [Ids -> Hash]
    <3>1. hash' = [id \in Ids |-> hash'[id]]
      BY <1>1, <1>5 DEF StoreAttributes, StoreExpiry, StoreExpire
    <3> QED
      BY <3>1, <1>1, <2>5, <2>6
  <2> QED
    BY <1>1, <2>5, <2>6, <2>7 DEF Exists
<1>6. CASE Tick
  BY <1>1, <1>2, <1>6 DEF Tick, Exists
<1> QED
  BY <1>3, <1>4, <1>5, <1>6, HashChanges

(***************************************************************************)
(* The steps that change the session of a thread.                          *)
(***************************************************************************)
LEMMA SessionChanges ==
  ASSUME [Next]_vars
  PROVE  \/ UNCHANGED <<session, drawn>>
         \/ \E t \in Threads : Create(t) \/ OutOfIds(t) \/ DestroyDel(t) \/ SweepDel(t) \/ Done(t)
         \/ \E t \in Threads : GetSession(t) \/ LoadHgetall(t) \/ Check(t) \/ Update(t)
         \/ \E t \in Threads : Sweep(t) \/ Throws(t)
BY DEF Next, Working, load, store, remove, clear_expired, Handler, vars, Cleanup,
       LoadBorrow, LoadExists, ExpiredBorrow, ExpiredDel, StoreBorrow, StoreAttributes,
       StoreExpiry, StoreExpire, RemoveBorrow, RemoveDel, DestroyBorrow, CleanupScan,
       Destroy, Tick

(***************************************************************************)
(* The Session object of a thread: one that has been drawn, or none.       *)
(***************************************************************************)
SessionOf(ids) ==
  [id : ids \cup {NoId}, attributes : SUBSET Attributes, expiry : 0 .. LatestTime]

(***************************************************************************)
(* No step gives a thread a session that was not drawn.                    *)
(***************************************************************************)
LEMMA SessionStep ==
  ASSUME TypeOK, SessionInHand, [Next]_vars
  PROVE  session' \in [Threads -> SessionOf(drawn')]
<1>1. /\ session \in [Threads -> SessionOf(drawn)] /\ hash \in [Ids -> Hash]
      /\ issued \subseteq drawn /\ drawn \subseteq Ids /\ now \in 0 .. MaxTime
  BY DEF TypeOK, SessionOf
<1>2. NoSession \in SessionOf(drawn) /\ now + Ticks(Timeout) \in 0 .. LatestTime
  BY <1>1, Times DEF NoSession, SessionOf
<1>4. ASSUME NEW t \in Threads, NEW s \in SessionOf(drawn), drawn' = drawn,
             session' = [session EXCEPT ![t] = s]
      PROVE  session' \in [Threads -> SessionOf(drawn')]
  BY <1>1, <1>4
<1>5. CASE UNCHANGED <<session, drawn>>
  BY <1>1, <1>5
<1>6. ASSUME NEW t \in Threads, Create(t)
      PROVE  session' \in [Threads -> SessionOf(drawn')]
  <2>1. PICK id \in Ids \ drawn : /\ drawn' = drawn \cup {id}
                                  /\ session' = [session EXCEPT ![t] = NewSession(id)]
    BY <1>6 DEF Create
  <2>2. NewSession(id) \in SessionOf(drawn')
    BY <2>1, <1>2 DEF NewSession, SessionOf
  <2>3. SessionOf(drawn) \subseteq SessionOf(drawn')
    BY <2>1 DEF SessionOf
  <2> QED
    BY <1>1, <2>1, <2>2, <2>3
<1>7. ASSUME NEW t \in Threads,
             OutOfIds(t) \/ DestroyDel(t) \/ SweepDel(t) \/ Done(t)
      PROVE  session' \in [Threads -> SessionOf(drawn')]
  BY <1>2, <1>4, <1>7 DEF OutOfIds, DestroyDel, SweepDel, Done, Finish
<1>8. ASSUME NEW t \in Threads, GetSession(t)
      PROVE  session' \in [Threads -> SessionOf(drawn')]
  <2>1. ASSUME NEW id \in issued, session' = [session EXCEPT ![t].id = id]
        PROVE  session' \in [Threads -> SessionOf(drawn)]
    <3>1. [session[t] EXCEPT !.id = id] \in SessionOf(drawn)
      BY <1>1 DEF SessionOf
    <3> QED
      BY <2>1, <3>1, <1>1
  <2> QED
    BY <2>1, <1>1, <1>8 DEF GetSession
<1>9. ASSUME NEW t \in Threads, LoadHgetall(t)
      PROVE  session' \in [Threads -> SessionOf(drawn')]
  <2> DEFINE reply == hash[session[t].id]
  <2>1. reply \in Hash
    BY <1>1, <1>9 DEF SessionInHand, HaveSession, LoadHgetall
  <2>2. [session[t] EXCEPT !.attributes = reply.attributes, !.expiry = reply.expiry]
          \in SessionOf(drawn)
    BY <1>1, <2>1, ZenonT(40) DEF SessionOf, Hash
  <2> QED
    BY <1>1, <1>9, <2>2 DEF LoadHgetall
<1>10. ASSUME NEW t \in Threads, Check(t)
       PROVE  session' \in [Threads -> SessionOf(drawn')]
  <2>1. [session[t] EXCEPT !.expiry = now + Ticks(Timeout)] \in SessionOf(drawn)
    BY <1>1, <1>2 DEF SessionOf
  <2> QED
    BY <1>1, <1>10, <2>1 DEF Check
<1>11. ASSUME NEW t \in Threads, Update(t)
       PROVE  session' \in [Threads -> SessionOf(drawn')]
  <2>1. PICK attributes \in SUBSET Attributes :
          session' = [session EXCEPT ![t].attributes = attributes]
    BY <1>11 DEF Update
  <2>2. [session[t] EXCEPT !.attributes = attributes] \in SessionOf(drawn)
    BY <1>1 DEF SessionOf
  <2> QED
    BY <1>1, <1>11, <2>1, <2>2 DEF Update
<1>12. ASSUME NEW t \in Threads, Sweep(t)
       PROVE  session' \in [Threads -> SessionOf(drawn')]
  <2>1. CASE Finish(t) \/ UNCHANGED session
    BY <2>1, <1>1, <1>2, <1>4, <1>12 DEF Sweep, Finish
  <2>2. ASSUME NEW id \in todo[t], "expiry" \in hash[id].fields,
               session' = [session EXCEPT ![t].id = id]
        PROVE  session' \in [Threads -> SessionOf(drawn)]
    <3>1. id \in drawn
      BY <2>2 DEF SessionInHand, Exists, TypeOK
    <3>2. [session[t] EXCEPT !.id = id] \in SessionOf(drawn)
      BY <1>1, <3>1 DEF SessionOf
    <3> QED
      BY <2>2, <3>2, <1>1
  <2> QED
    BY <2>1, <2>2, <1>12 DEF Sweep
<1>13. ASSUME NEW t \in Threads, Throws(t)
       PROVE  session' \in [Threads -> SessionOf(drawn')]
  BY <1>1, <1>2, <1>4, <1>13 DEF Throws, Finish
<1> QED
  BY <1>5, <1>6, <1>7, <1>8, <1>9, <1>10, <1>11, <1>12, <1>13, SessionChanges

(* The rest of the types.                                                  *)
RestOK ==
  /\ now \in 0 .. MaxTime

      /\ pc \in [Threads -> HoldsNone \cup HoldsOne \cup HoldsTwo]
  /\ ttl \in [Threads -> 0 .. Timeout]
  /\ todo \in [Threads -> SUBSET Ids]
  /\ issued \subseteq drawn /\ drawn \subseteq Ids
  /\ destroyed \subseteq drawn /\ shared \subseteq destroyed /\ torn \subseteq drawn

(***************************************************************************)
(* Places, numbers and sets of ids keep their types.                       *)
(***************************************************************************)
LEMMA RestStep ==
  ASSUME TypeOK, SessionInHand, LifeIsBounded, [Next]_vars
  PROVE  RestOK'
<1>1. \A t \in Threads : pc[t] \in HaveSession => session[t].id \in drawn
  BY DEF SessionInHand
<1>2. RestOK /\ MaxTime \in Nat
  BY SessionAssumption DEF TypeOK, RestOK
<1> USE <1>1, <1>2 DEF RestOK, HaveSession, HoldsNone, HoldsOne, HoldsTwo, history
<1>3. ASSUME NEW t \in Threads, GetSession(t) PROVE RestOK'
  BY <1>3 DEF GetSession, Goto
<1>4. ASSUME NEW t \in Threads, Cleanup(t) PROVE RestOK'
  BY <1>4 DEF Cleanup, Goto
<1>5. ASSUME NEW t \in Threads, LoadBorrow(t) PROVE RestOK'
  BY <1>5 DEF LoadBorrow, Borrow, Goto
<1>6. ASSUME NEW t \in Threads, LoadExists(t) PROVE RestOK'
  BY <1>6 DEF LoadExists, Goto
<1>7. ASSUME NEW t \in Threads, LoadHgetall(t) PROVE RestOK'
  BY <1>7 DEF LoadHgetall, Goto
<1>8. ASSUME NEW t \in Threads, ExpiredBorrow(t) PROVE RestOK'
  BY <1>8 DEF ExpiredBorrow, Borrow, Goto
<1>9. ASSUME NEW t \in Threads, ExpiredDel(t) PROVE RestOK'
  BY <1>9 DEF ExpiredDel, Del, Goto
<1>10. ASSUME NEW t \in Threads, Check(t) PROVE RestOK'
  BY <1>10 DEF Check, Goto
<1>11. ASSUME NEW t \in Threads, Create(t) PROVE RestOK'
  BY <1>11 DEF Create, NewSession, Goto
<1>12. ASSUME NEW t \in Threads, OutOfIds(t) PROVE RestOK'
  BY <1>12 DEF OutOfIds, Finish, NoSession, Goto
<1>13. ASSUME NEW t \in Threads, StoreBorrow(t) PROVE RestOK'
  <2>1. session[t].expiry \in Nat /\ session[t].expiry <= now + Ticks(Timeout) /\ now \in Nat
    BY Times DEF TypeOK, LifeIsBounded
  <2>2. session[t].expiry > now => session[t].expiry - now \in Nat
                                   /\ session[t].expiry - now <= Ticks(Timeout)
    BY <2>1, Times
  <2>3. session[t].expiry > now => Seconds(session[t].expiry - now) \in 0 .. Timeout
    BY <2>2, SecondsRoundDown, SessionAssumption
  <2>4. 0 \in 0 .. Timeout
    BY SessionAssumption
  <2>5. ttl' \in [Threads -> 0 .. Timeout]
    BY <2>1, <2>3, <2>4, <1>13 DEF StoreBorrow
  <2> QED
    BY <2>5, <1>13 DEF StoreBorrow, Return, Goto
<1>14. ASSUME NEW t \in Threads, StoreAttributes(t) PROVE RestOK'
  BY <1>14 DEF StoreAttributes, Goto
<1>15. ASSUME NEW t \in Threads, StoreExpiry(t) PROVE RestOK'
  BY <1>15 DEF StoreExpiry, Goto
<1>16. ASSUME NEW t \in Threads, StoreExpire(t) PROVE RestOK'
  <2>1. 0 \in 0 .. Timeout
    BY SessionAssumption
  <2> QED
    BY <2>1, <1>16 DEF StoreExpire, Return, Goto
<1>17. ASSUME NEW t \in Threads, RemoveBorrow(t) PROVE RestOK'
  BY <1>17 DEF RemoveBorrow, Borrow, Goto
<1>18. ASSUME NEW t \in Threads, RemoveDel(t) PROVE RestOK'
  BY <1>18 DEF RemoveDel, Del, Goto
<1>19. ASSUME NEW t \in Threads, DestroyBorrow(t) PROVE RestOK'
  BY <1>19 DEF DestroyBorrow, Borrow, Goto
<1>20. ASSUME NEW t \in Threads, DestroyDel(t) PROVE RestOK'
  BY <1>20 DEF DestroyDel, Del, Finish, NoSession, Goto
<1>21. ASSUME NEW t \in Threads, CleanupScan(t) PROVE RestOK'
  BY <1>21 DEF CleanupScan, Borrow, Goto
<1>22. ASSUME NEW t \in Threads, Sweep(t) PROVE RestOK'
  <2>1. pc' \in [Threads -> HoldsNone \cup HoldsOne \cup HoldsTwo]
    BY <1>22 DEF Sweep, Finish, Goto
  <2>2. todo' \in [Threads -> SUBSET Ids]
    BY <1>22 DEF Sweep
  <2> QED
    BY <2>1, <2>2, <1>22 DEF Sweep
<1>23. ASSUME NEW t \in Threads, SweepDel(t) PROVE RestOK'
  BY <1>23 DEF SweepDel, Del, NoSession, Goto
<1>24. ASSUME NEW t \in Threads, Update(t) PROVE RestOK'
  BY <1>24 DEF Update, Goto
<1>25. ASSUME NEW t \in Threads, Destroy(t) PROVE RestOK'
  BY <1>25 DEF Destroy, Goto
<1>26. ASSUME NEW t \in Threads, Done(t) PROVE RestOK'
  BY <1>26 DEF Done, Finish, NoSession, Goto
<1>27. ASSUME NEW t \in Threads, Throws(t) PROVE RestOK'
  <2>1. 0 \in 0 .. Timeout
    BY SessionAssumption
  <2>2. ttl' \in [Threads -> 0 .. Timeout] /\ torn' \subseteq drawn
    BY <2>1, <1>27 DEF Throws
  <2>3. pc' \in [Threads -> HoldsNone \cup HoldsOne \cup HoldsTwo]
    BY <1>27 DEF Throws, Finish, Goto
  <2>4. todo' \in [Threads -> SUBSET Ids]
    BY <1>27 DEF Throws
  <2> QED
    BY <2>2, <2>3, <2>4, <1>27 DEF Throws
<1>28. CASE Tick
  BY <1>28 DEF Tick
<1>29. CASE UNCHANGED vars
  BY <1>29 DEF vars
<1> QED
  BY <1>3, <1>4, <1>5, <1>6, <1>7, <1>8, <1>9, <1>10, <1>11, <1>12, <1>13, <1>14,
     <1>15, <1>16, <1>17, <1>18, <1>19, <1>20, <1>21, <1>22, <1>23, <1>24, <1>25,
     <1>26, <1>27, <1>28, <1>29
     DEF Next, Working, load, store, remove, clear_expired, Handler

(***************************************************************************)
(* Every variable keeps its type.                                          *)
(***************************************************************************)
LEMMA TypeStep ==
  ASSUME TypeOK, SessionInHand, LifeIsBounded, [Next]_vars
  PROVE  TypeOK'
BY FreeStep, HashStep, SessionStep, RestStep DEF TypeOK, SessionOf, RestOK

(***************************************************************************)
(* A thread that goes on with a session has one that has been drawn, and   *)
(* only those are stored.                                                  *)
(***************************************************************************)
LEMMA InHandStep ==
  ASSUME TypeOK, SessionInHand, [Next]_vars
  PROVE  SessionInHand'
<1> USE DEF TypeOK, SessionInHand, HaveSession, Exists, history
<1>1. ASSUME NEW t \in Threads, GetSession(t) PROVE SessionInHand'
  BY <1>1 DEF GetSession, Goto
<1>2. ASSUME NEW t \in Threads, Cleanup(t) PROVE SessionInHand'
  BY <1>2 DEF Cleanup, Goto
<1>3. ASSUME NEW t \in Threads, LoadBorrow(t) PROVE SessionInHand'
  BY <1>3 DEF LoadBorrow, Borrow, Goto
<1>4. ASSUME NEW t \in Threads, LoadExists(t) PROVE SessionInHand'
  BY <1>4 DEF LoadExists, Goto
<1>5. ASSUME NEW t \in Threads, LoadHgetall(t) PROVE SessionInHand'
  BY <1>5 DEF LoadHgetall, Goto
<1>6. ASSUME NEW t \in Threads, ExpiredBorrow(t) PROVE SessionInHand'
  BY <1>6 DEF ExpiredBorrow, Borrow, Goto
<1>7. ASSUME NEW t \in Threads, ExpiredDel(t) PROVE SessionInHand'
  BY <1>7 DEF ExpiredDel, Del, Goto, NoHash
<1>8. ASSUME NEW t \in Threads, Check(t) PROVE SessionInHand'
  BY <1>8 DEF Check, Goto
<1>9. ASSUME NEW t \in Threads, Create(t) PROVE SessionInHand'
  BY <1>9 DEF Create, NewSession, Goto
<1>10. ASSUME NEW t \in Threads, OutOfIds(t) PROVE SessionInHand'
  BY <1>10 DEF OutOfIds, Finish, NoSession, Goto
<1>11. ASSUME NEW t \in Threads, StoreBorrow(t) PROVE SessionInHand'
  BY <1>11 DEF StoreBorrow, Return, Goto
<1>12. ASSUME NEW t \in Threads, StoreAttributes(t) PROVE SessionInHand'
  <2>1. session[t].id \in drawn
    BY <1>12 DEF SessionInHand, StoreAttributes
  <2> QED
    BY <2>1, <1>12 DEF StoreAttributes, Goto
<1>13. ASSUME NEW t \in Threads, StoreExpiry(t) PROVE SessionInHand'
  <2>1. session[t].id \in drawn
    BY <1>13 DEF SessionInHand, StoreExpiry
  <2> QED
    BY <2>1, <1>13 DEF StoreExpiry, Goto
<1>14. ASSUME NEW t \in Threads, StoreExpire(t) PROVE SessionInHand'
  <2>1. session[t].id \in drawn
    BY <1>14 DEF SessionInHand, StoreExpire
  <2> QED
    BY <2>1, <1>14 DEF StoreExpire, Goto, Return
<1>15. ASSUME NEW t \in Threads, RemoveBorrow(t) PROVE SessionInHand'
  BY <1>15 DEF RemoveBorrow, Borrow, Goto
<1>16. ASSUME NEW t \in Threads, RemoveDel(t) PROVE SessionInHand'
  BY <1>16 DEF RemoveDel, Del, Goto, NoHash
<1>17. ASSUME NEW t \in Threads, DestroyBorrow(t) PROVE SessionInHand'
  BY <1>17 DEF DestroyBorrow, Borrow, Goto
<1>18. ASSUME NEW t \in Threads, DestroyDel(t) PROVE SessionInHand'
  BY <1>18 DEF DestroyDel, Del, Finish, NoSession, Goto, NoHash
<1>19. ASSUME NEW t \in Threads, CleanupScan(t) PROVE SessionInHand'
  BY <1>19 DEF CleanupScan, Borrow, Goto
<1>20. ASSUME NEW t \in Threads, Sweep(t) PROVE SessionInHand'
  <2>1. CASE Finish(t) \/ UNCHANGED <<session, pc>>
    BY <2>1, <1>20 DEF Sweep, Finish, NoSession, Goto
  <2>2. ASSUME NEW id \in todo[t], "expiry" \in hash[id].fields, Goto(t, "sweep_del"),
               session' = [session EXCEPT ![t].id = id]
        PROVE  SessionInHand'
    <3>1. id \in drawn
      BY <2>2
    <3>2. session'[t].id = id
      BY <2>2
    <3> QED
      BY <2>2, <3>1, <3>2, <1>20 DEF Sweep, Goto
  <2> QED
    BY <2>1, <2>2, <1>20 DEF Sweep
<1>21. ASSUME NEW t \in Threads, SweepDel(t) PROVE SessionInHand'
  BY <1>21 DEF SweepDel, Del, NoSession, Goto, NoHash
<1>22. ASSUME NEW t \in Threads, Update(t) PROVE SessionInHand'
  BY <1>22 DEF Update, Goto
<1>23. ASSUME NEW t \in Threads, Destroy(t) PROVE SessionInHand'
  BY <1>23 DEF Destroy, Goto
<1>24. ASSUME NEW t \in Threads, Done(t) PROVE SessionInHand'
  BY <1>24 DEF Done, Finish, NoSession, Goto
<1>25. ASSUME NEW t \in Threads, Throws(t) PROVE SessionInHand'
  BY <1>25, SMTT(30) DEF Throws, Finish, NoSession, Goto
<1>26. CASE Tick
  BY <1>26 DEF Tick, NoHash
<1>27. CASE UNCHANGED vars
  BY <1>27 DEF vars
<1> QED
  BY <1>1, <1>2, <1>3, <1>4, <1>5, <1>6, <1>7, <1>8, <1>9, <1>10, <1>11, <1>12, <1>13,
     <1>14, <1>15, <1>16, <1>17, <1>18, <1>19, <1>20, <1>21, <1>22, <1>23, <1>24,
     <1>25, <1>26, <1>27
     DEF Next, Working, load, store, remove, clear_expired, Handler

(***************************************************************************)
(* No session lives longer from now on than its timeout.                   *)
(***************************************************************************)
LEMMA LifeStep ==
  ASSUME TypeOK, SessionInHand, LifeIsBounded, [Next]_vars
  PROVE  LifeIsBounded'
<1> USE DEF LifeIsBounded
<1>1. /\ now \in Nat /\ MaxTime \in Nat /\ Ticks(Timeout) \in Nat
      /\ \A t \in Threads : session[t].expiry \in Nat /\ session[t].expiry <= now + Ticks(Timeout)
      /\ \A id \in Ids : hash[id].expiry \in Nat /\ hash[id].expiry <= now + Ticks(Timeout)
      /\ \A t \in Threads : pc[t] \in {"hset_attributes", "hset_expiry", "expire"} => ttl[t] > 0
  BY Times, SessionAssumption DEF TypeOK, Hash, LifeIsBounded
<1>2. /\ session \in [Threads -> SessionOf(drawn)]
      /\ pc \in [Threads -> HoldsNone \cup HoldsOne \cup HoldsTwo]
      /\ hash \in [Ids -> Hash] /\ ttl \in [Threads -> 0 .. Timeout] /\ Timeout \in Nat
  BY SessionAssumption DEF TypeOK, SessionOf
<1>3. ASSUME NEW t \in Threads, GetSession(t) PROVE LifeIsBounded'
  <2>1. \A u \in Threads : session'[u].expiry = session[u].expiry
    BY <1>2, <1>3 DEF GetSession, SessionOf
  <2>2. \A u \in Threads : pc'[u] = pc[u] \/ pc'[u] \in {"load", "create"}
    BY <1>2, <1>3 DEF GetSession, Goto
  <2> QED
    BY <1>1, <2>1, <2>2, <1>3 DEF GetSession
<1>4. ASSUME NEW t \in Threads, Cleanup(t) PROVE LifeIsBounded'
  BY <1>4, <1>1, <1>2 DEF Cleanup, Goto
<1>5. ASSUME NEW t \in Threads, LoadBorrow(t) PROVE LifeIsBounded'
  BY <1>5, <1>1, <1>2 DEF LoadBorrow, Borrow, Goto
<1>6. ASSUME NEW t \in Threads, LoadExists(t) PROVE LifeIsBounded'
  BY <1>6, <1>1, <1>2 DEF LoadExists, Goto
<1>7. ASSUME NEW t \in Threads, LoadHgetall(t) PROVE LifeIsBounded'
  <2>1. session[t].id \in Ids
    BY <1>7 DEF SessionInHand, HaveSession, TypeOK, LoadHgetall
  <2>2. \A u \in Threads : session'[u].expiry \in {session[u].expiry, hash[session[t].id].expiry}
    BY <1>2, <1>7 DEF LoadHgetall, SessionOf
  <2>3. \A u \in Threads : pc'[u] = pc[u] \/ pc'[u] \in {"create", "expired", "check"}
    BY <1>2, <1>7 DEF LoadHgetall, Goto
  <2> QED
    BY <1>1, <2>1, <2>2, <2>3, <1>7 DEF LoadHgetall
<1>8. ASSUME NEW t \in Threads, ExpiredBorrow(t) PROVE LifeIsBounded'
  BY <1>8, <1>1, <1>2 DEF ExpiredBorrow, Borrow, Goto
<1>9. ASSUME NEW t \in Threads, ExpiredDel(t) PROVE LifeIsBounded'
  BY <1>9, <1>1, <1>2 DEF ExpiredDel, Del, Goto, NoHash
<1>10. ASSUME NEW t \in Threads, Check(t) PROVE LifeIsBounded'
  <2>1. \A u \in Threads : session'[u].expiry \in {session[u].expiry, now + Ticks(Timeout)}
    BY <1>2, <1>10 DEF Check, SessionOf
  <2>2. \A u \in Threads : pc'[u] = pc[u] \/ pc'[u] \in {"remove", "store"}
    BY <1>2, <1>10 DEF Check, Goto
  <2> QED
    BY <1>1, <2>1, <2>2, <1>10 DEF Check
<1>11. ASSUME NEW t \in Threads, Create(t) PROVE LifeIsBounded'
  BY <1>11, <1>1, <1>2 DEF Create, NewSession, Goto
<1>12. ASSUME NEW t \in Threads, OutOfIds(t) PROVE LifeIsBounded'
  BY <1>12, <1>1, <1>2 DEF OutOfIds, Finish, NoSession, Goto
<1>13. ASSUME NEW t \in Threads, StoreBorrow(t) PROVE LifeIsBounded'
  <2>1. ttl'[t] # 0 => ttl'[t] > 0
    <3>1. session[t].expiry > now => session[t].expiry - now \in Nat
      BY <1>1
    <3>2. session[t].expiry > now => Seconds(session[t].expiry - now) \in Nat
      BY <3>1, SecondsRoundDown
    <3> QED
      BY <1>1, <1>2, <3>2, <1>13 DEF StoreBorrow
  <2>2. \A u \in Threads \ {t} : ttl'[u] = ttl[u] /\ pc'[u] = pc[u]
    BY <1>2, <1>13 DEF StoreBorrow, Return, Goto
  <2>3. pc'[t] = "hset_attributes" => ttl'[t] # 0
    BY <1>2, <1>13 DEF StoreBorrow, Return, Goto
  <2>4. pc'[t] \in {"using", "hset_attributes"}
    BY <1>2, <1>13 DEF StoreBorrow, Return, Goto
  <2> QED
    BY <1>1, <2>1, <2>2, <2>3, <2>4, <1>13 DEF StoreBorrow
<1>14. ASSUME NEW t \in Threads, StoreAttributes(t) PROVE LifeIsBounded'
  BY <1>14, <1>1, <1>2 DEF StoreAttributes, Goto
<1>15. ASSUME NEW t \in Threads, StoreExpiry(t) PROVE LifeIsBounded'
  <2>1. Ticks(Seconds(session[t].expiry)) <= now + Ticks(Timeout)
    <3>1. Ticks(Seconds(session[t].expiry)) \in Nat
          /\ Ticks(Seconds(session[t].expiry)) <= session[t].expiry
      BY <1>1, SecondsRoundDown
    <3> QED
      BY <3>1, <1>1
  <2> QED
    BY <1>1, <1>2, <2>1, <1>15 DEF StoreExpiry, Goto
<1>16. ASSUME NEW t \in Threads, StoreExpire(t) PROVE LifeIsBounded'
  BY <1>16, <1>1, <1>2 DEF StoreExpire, Return, Goto
<1>17. ASSUME NEW t \in Threads, RemoveBorrow(t) PROVE LifeIsBounded'
  BY <1>17, <1>1, <1>2 DEF RemoveBorrow, Borrow, Goto
<1>18. ASSUME NEW t \in Threads, RemoveDel(t) PROVE LifeIsBounded'
  BY <1>18, <1>1, <1>2 DEF RemoveDel, Del, Goto, NoHash
<1>19. ASSUME NEW t \in Threads, DestroyBorrow(t) PROVE LifeIsBounded'
  BY <1>19, <1>1, <1>2 DEF DestroyBorrow, Borrow, Goto
<1>20. ASSUME NEW t \in Threads, DestroyDel(t) PROVE LifeIsBounded'
  BY <1>20, <1>1, <1>2 DEF DestroyDel, Del, Finish, NoSession, Goto, NoHash
<1>21. ASSUME NEW t \in Threads, CleanupScan(t) PROVE LifeIsBounded'
  BY <1>21, <1>1, <1>2 DEF CleanupScan, Borrow, Goto
<1>22. ASSUME NEW t \in Threads, Sweep(t) PROVE LifeIsBounded'
  <2>1. \A u \in Threads : session'[u].expiry \in {session[u].expiry, 0}
    BY <1>2, <1>22 DEF Sweep, Finish, NoSession, SessionOf
  <2>2. \A u \in Threads : pc'[u] = pc[u] \/ pc'[u] \in {"idle", "sweep_del"}
    BY <1>2, <1>22 DEF Sweep, Finish, Goto
  <2> QED
    BY <1>1, <2>1, <2>2, <1>22 DEF Sweep
<1>23. ASSUME NEW t \in Threads, SweepDel(t) PROVE LifeIsBounded'
  BY <1>23, <1>1, <1>2 DEF SweepDel, Del, NoSession, Goto, NoHash
<1>24. ASSUME NEW t \in Threads, Update(t) PROVE LifeIsBounded'
  BY <1>24, <1>1, <1>2 DEF Update, Goto
<1>25. ASSUME NEW t \in Threads, Destroy(t) PROVE LifeIsBounded'
  BY <1>25, <1>1, <1>2 DEF Destroy, Goto
<1>26. ASSUME NEW t \in Threads, Done(t) PROVE LifeIsBounded'
  BY <1>26, <1>1, <1>2 DEF Done, Finish, NoSession, Goto
<1>27. ASSUME NEW t \in Threads, Throws(t) PROVE LifeIsBounded'
  BY <1>27, <1>1, <1>2 DEF Throws, Finish, NoSession, Goto
<1>28. CASE Tick
  <2>1. now' = now + 1 /\ now' + Ticks(Timeout) >= now + Ticks(Timeout)
    BY <1>1, <1>28 DEF Tick
  <2>2. \A id \in Ids : hash'[id] = hash[id] \/ hash'[id] = NoHash
    BY <1>2, <1>28 DEF Tick
  <2>3. \A id \in Ids : hash'[id].expiry <= now' + Ticks(Timeout)
    BY <1>1, <2>1, <2>2 DEF NoHash
  <2> QED
    BY <1>1, <2>1, <2>3, <1>28 DEF Tick
<1>29. CASE UNCHANGED vars
  BY <1>29 DEF vars
<1> QED
  BY <1>3, <1>4, <1>5, <1>6, <1>7, <1>8, <1>9, <1>10, <1>11, <1>12, <1>13, <1>14,
     <1>15, <1>16, <1>17, <1>18, <1>19, <1>20, <1>21, <1>22, <1>23, <1>24, <1>25,
     <1>26, <1>27, <1>28, <1>29
     DEF Next, Working, load, store, remove, clear_expired, Handler

(* Where a thread is that asks for a session which is gone.                *)
Asking == {"load", "exists", "create"}

(***************************************************************************)
(* What was destroyed while no other thread had it is not stored again: it *)
(* can be asked for, but load does not find it, and a new id is never an   *)
(* old one.                                                                *)
(***************************************************************************)
LEMMA GoneStep ==
  ASSUME TypeOK, SessionInHand, GoneIsOnlyAskedFor, DestroyedIsGoneIfUnshared, [Next]_vars
  PROVE  GoneIsOnlyAskedFor' /\ DestroyedIsGoneIfUnshared'
<1> USE DEF Exists, Asking, history
<1> SUFFICES ASSUME NEW id \in destroyed' \ shared'
             PROVE  /\ ~Exists(id)'
                    /\ \A u \in Threads : session'[u].id = id => pc'[u] \in Asking
  BY DEF GoneIsOnlyAskedFor, DestroyedIsGoneIfUnshared, Asking
<1> DEFINE Gone == /\ ~Exists(id)
                   /\ \A u \in Threads : session[u].id = id => pc[u] \in Asking
<1>1. id \in destroyed \ shared => Gone
  BY DEF GoneIsOnlyAskedFor, DestroyedIsGoneIfUnshared, Asking
<1>2. /\ session \in [Threads -> SessionOf(drawn)]
      /\ pc \in [Threads -> HoldsNone \cup HoldsOne \cup HoldsTwo]
      /\ hash \in [Ids -> Hash] /\ destroyed \subseteq drawn /\ NoId \notin Ids /\ drawn \subseteq Ids
  BY SessionAssumption DEF TypeOK, SessionOf
<1>3. ASSUME NEW t \in Threads, GetSession(t)
      PROVE  /\ ~Exists(id)'
             /\ \A u \in Threads : session'[u].id = id => pc'[u] \in Asking
  BY <1>3, <1>1, <1>2 DEF GetSession, Goto, SessionOf
<1>4. ASSUME NEW t \in Threads, Cleanup(t)
      PROVE  /\ ~Exists(id)'
             /\ \A u \in Threads : session'[u].id = id => pc'[u] \in Asking
  BY <1>4, <1>1, <1>2 DEF Cleanup, Goto
<1>5. ASSUME NEW t \in Threads, LoadBorrow(t)
      PROVE  /\ ~Exists(id)'
             /\ \A u \in Threads : session'[u].id = id => pc'[u] \in Asking
  BY <1>5, <1>1, <1>2 DEF LoadBorrow, Borrow, Goto
<1>6. ASSUME NEW t \in Threads, LoadExists(t)
      PROVE  /\ ~Exists(id)'
             /\ \A u \in Threads : session'[u].id = id => pc'[u] \in Asking
  BY <1>6, <1>1, <1>2 DEF LoadExists, Goto
<1>7. ASSUME NEW t \in Threads, LoadHgetall(t)
      PROVE  /\ ~Exists(id)'
             /\ \A u \in Threads : session'[u].id = id => pc'[u] \in Asking
  <2>1. Gone
    BY <1>1, <1>7 DEF LoadHgetall
  <2>2. \A u \in Threads : session'[u].id = session[u].id
    BY <1>2, <1>7 DEF LoadHgetall, SessionOf
  <2>3. pc[t] \notin Asking /\ \A u \in Threads \ {t} : pc'[u] = pc[u]
    BY <1>2, <1>7 DEF LoadHgetall, Goto
  <2> QED
    BY <2>1, <2>2, <2>3, <1>7 DEF LoadHgetall
<1>8. ASSUME NEW t \in Threads, ExpiredBorrow(t)
      PROVE  /\ ~Exists(id)'
             /\ \A u \in Threads : session'[u].id = id => pc'[u] \in Asking
  BY <1>8, <1>1, <1>2 DEF ExpiredBorrow, Borrow, Goto
<1>9. ASSUME NEW t \in Threads, ExpiredDel(t)
      PROVE  /\ ~Exists(id)'
             /\ \A u \in Threads : session'[u].id = id => pc'[u] \in Asking
  BY <1>9, <1>1, <1>2 DEF ExpiredDel, Del, Goto, NoHash
<1>10. ASSUME NEW t \in Threads, Check(t)
      PROVE  /\ ~Exists(id)'
             /\ \A u \in Threads : session'[u].id = id => pc'[u] \in Asking
  <2>1. Gone
    BY <1>1, <1>10 DEF Check
  <2>2. \A u \in Threads : session'[u].id = session[u].id
    BY <1>2, <1>10 DEF Check, SessionOf
  <2>3. pc[t] \notin Asking /\ \A u \in Threads \ {t} : pc'[u] = pc[u]
    BY <1>2, <1>10 DEF Check, Goto
  <2> QED
    BY <2>1, <2>2, <2>3, <1>10 DEF Check
<1>11. ASSUME NEW t \in Threads, Create(t)
      PROVE  /\ ~Exists(id)'
             /\ \A u \in Threads : session'[u].id = id => pc'[u] \in Asking
  BY <1>11, <1>1, <1>2 DEF Create, NewSession, Goto
<1>12. ASSUME NEW t \in Threads, OutOfIds(t)
      PROVE  /\ ~Exists(id)'
             /\ \A u \in Threads : session'[u].id = id => pc'[u] \in Asking
  BY <1>12, <1>1, <1>2 DEF OutOfIds, Finish, NoSession, Goto
<1>13. ASSUME NEW t \in Threads, StoreBorrow(t)
      PROVE  /\ ~Exists(id)'
             /\ \A u \in Threads : session'[u].id = id => pc'[u] \in Asking
  BY <1>13, <1>1, <1>2 DEF StoreBorrow, Return, Goto
<1>14. ASSUME NEW t \in Threads, StoreAttributes(t)
      PROVE  /\ ~Exists(id)'
             /\ \A u \in Threads : session'[u].id = id => pc'[u] \in Asking
  BY <1>14, <1>1, <1>2 DEF StoreAttributes, Goto
<1>15. ASSUME NEW t \in Threads, StoreExpiry(t)
      PROVE  /\ ~Exists(id)'
             /\ \A u \in Threads : session'[u].id = id => pc'[u] \in Asking
  BY <1>15, <1>1, <1>2 DEF StoreExpiry, Goto
<1>16. ASSUME NEW t \in Threads, StoreExpire(t)
      PROVE  /\ ~Exists(id)'
             /\ \A u \in Threads : session'[u].id = id => pc'[u] \in Asking
  BY <1>16, <1>1, <1>2 DEF StoreExpire, Return, Goto
<1>17. ASSUME NEW t \in Threads, RemoveBorrow(t)
      PROVE  /\ ~Exists(id)'
             /\ \A u \in Threads : session'[u].id = id => pc'[u] \in Asking
  BY <1>17, <1>1, <1>2 DEF RemoveBorrow, Borrow, Goto
<1>18. ASSUME NEW t \in Threads, RemoveDel(t)
      PROVE  /\ ~Exists(id)'
             /\ \A u \in Threads : session'[u].id = id => pc'[u] \in Asking
  BY <1>18, <1>1, <1>2 DEF RemoveDel, Del, Goto, NoHash
<1>19. ASSUME NEW t \in Threads, DestroyBorrow(t)
      PROVE  /\ ~Exists(id)'
             /\ \A u \in Threads : session'[u].id = id => pc'[u] \in Asking
  BY <1>19, <1>1, <1>2 DEF DestroyBorrow, Borrow, Goto
<1>20. ASSUME NEW t \in Threads, DestroyDel(t)
      PROVE  /\ ~Exists(id)'
             /\ \A u \in Threads : session'[u].id = id => pc'[u] \in Asking
  <2>1. session[t].id \in Ids /\ hash' = [hash EXCEPT ![session[t].id] = NoHash]
    BY <1>20 DEF SessionInHand, HaveSession, TypeOK, DestroyDel, Del
  <2>2. \A u \in Threads \ {t} : session'[u] = session[u] /\ pc'[u] = pc[u]
    BY <1>2, <1>20 DEF DestroyDel, Finish, Goto
  <2>3. session'[t].id = NoId /\ id # NoId
    BY <1>2, <2>1, <1>20 DEF DestroyDel, Finish, NoSession
  <2>4. CASE id # session[t].id
    <3>1. Gone
      BY <2>4, <1>1, <1>20 DEF DestroyDel
    <3> QED
      BY <1>2, <2>1, <2>2, <2>3, <2>4, <3>1
  <2>5. CASE id = session[t].id
    <3>1. ~InHand(id, t) \/ Gone
      BY <2>5, <1>1, <1>20 DEF DestroyDel
    <3>2. ~Gone
      BY <2>5, <1>20 DEF DestroyDel
    <3>3. \A u \in Threads \ {t} : session[u].id # id
      BY <3>1, <3>2 DEF InHand
    <3> QED
      BY <1>2, <2>1, <2>2, <2>3, <2>5, <3>3 DEF NoHash
  <2> QED
    BY <2>4, <2>5
<1>21. ASSUME NEW t \in Threads, CleanupScan(t)
      PROVE  /\ ~Exists(id)'
             /\ \A u \in Threads : session'[u].id = id => pc'[u] \in Asking
  BY <1>21, <1>1, <1>2 DEF CleanupScan, Borrow, Goto
<1>22. ASSUME NEW t \in Threads, Sweep(t)
      PROVE  /\ ~Exists(id)'
             /\ \A u \in Threads : session'[u].id = id => pc'[u] \in Asking
  <2>1. Gone /\ hash' = hash /\ id # NoId
    BY <1>1, <1>2, <1>22 DEF Sweep
  <2>2. \A u \in Threads \ {t} : session'[u] = session[u] /\ pc'[u] = pc[u]
    BY <1>2, <1>22 DEF Sweep, Finish, Goto
  <2>3. session[t].id # id
    BY <2>1, <1>22 DEF Sweep
  <2>4. session'[t].id # id
    <3>1. CASE Finish(t) \/ UNCHANGED session
      BY <2>1, <2>3, <3>1, <1>2 DEF Finish, NoSession
    <3>2. ASSUME NEW key \in todo[t], "expiry" \in hash[key].fields,
                 session' = [session EXCEPT ![t].id = key]
          PROVE  session'[t].id # id
      <4>1. key # id
        BY <2>1, <3>2
      <4>2. session'[t].id = key
        BY <3>2, <1>2 DEF SessionOf
      <4> QED
        BY <4>1, <4>2
    <3> QED
      BY <3>1, <3>2, <1>22 DEF Sweep
  <2> QED
    BY <2>1, <2>2, <2>4
<1>23. ASSUME NEW t \in Threads, SweepDel(t)
      PROVE  /\ ~Exists(id)'
             /\ \A u \in Threads : session'[u].id = id => pc'[u] \in Asking
  BY <1>23, <1>1, <1>2 DEF SweepDel, Del, NoSession, Goto, NoHash
<1>24. ASSUME NEW t \in Threads, Update(t)
      PROVE  /\ ~Exists(id)'
             /\ \A u \in Threads : session'[u].id = id => pc'[u] \in Asking
  BY <1>24, <1>1, <1>2 DEF Update, Goto
<1>25. ASSUME NEW t \in Threads, Destroy(t)
      PROVE  /\ ~Exists(id)'
             /\ \A u \in Threads : session'[u].id = id => pc'[u] \in Asking
  BY <1>25, <1>1, <1>2 DEF Destroy, Goto
<1>26. ASSUME NEW t \in Threads, Done(t)
      PROVE  /\ ~Exists(id)'
             /\ \A u \in Threads : session'[u].id = id => pc'[u] \in Asking
  BY <1>26, <1>1, <1>2 DEF Done, Finish, NoSession, Goto
<1>27. ASSUME NEW t \in Threads, Throws(t)
      PROVE  /\ ~Exists(id)'
             /\ \A u \in Threads : session'[u].id = id => pc'[u] \in Asking
  BY <1>27, <1>1, <1>2 DEF Throws, Finish, NoSession, Goto
<1>28. CASE Tick
  BY <1>28, <1>1, <1>2 DEF Tick, NoHash
<1>29. CASE UNCHANGED vars
  BY <1>29, <1>1, <1>2 DEF vars
<1> QED
  BY <1>3, <1>4, <1>5, <1>6, <1>7, <1>8, <1>9, <1>10, <1>11, <1>12, <1>13, <1>14,
     <1>15, <1>16, <1>17, <1>18, <1>19, <1>20, <1>21, <1>22, <1>23, <1>24, <1>25,
     <1>26, <1>27, <1>28, <1>29
     DEF Next, Working, load, store, remove, clear_expired, Handler

(***************************************************************************)
(* A key without a time to live is on its way to one, or torn.             *)
(***************************************************************************)
LEMMA ImmortalStep ==
  ASSUME TypeOK, SessionInHand, LifeIsBounded, NoImmortalKey, [Next]_vars
  PROVE  NoImmortalKey'
<1> USE DEF Exists, NoHash, history
<1> SUFFICES ASSUME NEW id \in Ids, Exists(id)', hash'[id].deadline = NoTtl
             PROVE  \/ id \in torn'
                    \/ \E u \in Threads : session'[u].id = id /\ pc'[u] \in {"hset_expiry", "expire"}
  BY DEF NoImmortalKey
<1> DEFINE Promised == \/ id \in torn
                       \/ \E u \in Threads : session[u].id = id /\ pc[u] \in {"hset_expiry", "expire"}
<1>1. Exists(id) /\ hash[id].deadline = NoTtl => Promised
  BY DEF NoImmortalKey
<1>2. /\ session \in [Threads -> SessionOf(drawn)]
      /\ pc \in [Threads -> HoldsNone \cup HoldsOne \cup HoldsTwo]
      /\ hash \in [Ids -> Hash] /\ drawn \subseteq Ids
  BY DEF TypeOK, SessionOf
<1>3. \A t \in Threads : pc[t] \in HaveSession => session[t].id \in Ids
  BY DEF SessionInHand, TypeOK
<1>4. ASSUME NEW t \in Threads, GetSession(t)
      PROVE  \/ id \in torn'
             \/ \E u \in Threads : session'[u].id = id /\ pc'[u] \in {"hset_expiry", "expire"}
  BY <1>4, <1>1, <1>2, <1>3 DEF GetSession, Goto
<1>5. ASSUME NEW t \in Threads, Cleanup(t)
      PROVE  \/ id \in torn'
             \/ \E u \in Threads : session'[u].id = id /\ pc'[u] \in {"hset_expiry", "expire"}
  BY <1>5, <1>1, <1>2, <1>3 DEF Cleanup, Goto
<1>6. ASSUME NEW t \in Threads, LoadBorrow(t)
      PROVE  \/ id \in torn'
             \/ \E u \in Threads : session'[u].id = id /\ pc'[u] \in {"hset_expiry", "expire"}
  BY <1>6, <1>1, <1>2, <1>3 DEF LoadBorrow, Borrow, Goto
<1>7. ASSUME NEW t \in Threads, LoadExists(t)
      PROVE  \/ id \in torn'
             \/ \E u \in Threads : session'[u].id = id /\ pc'[u] \in {"hset_expiry", "expire"}
  BY <1>7, <1>1, <1>2, <1>3 DEF LoadExists, Goto
<1>8. ASSUME NEW t \in Threads, LoadHgetall(t)
      PROVE  \/ id \in torn'
             \/ \E u \in Threads : session'[u].id = id /\ pc'[u] \in {"hset_expiry", "expire"}
  BY <1>8, <1>1, <1>2, <1>3 DEF LoadHgetall, Goto
<1>9. ASSUME NEW t \in Threads, ExpiredBorrow(t)
      PROVE  \/ id \in torn'
             \/ \E u \in Threads : session'[u].id = id /\ pc'[u] \in {"hset_expiry", "expire"}
  BY <1>9, <1>1, <1>2, <1>3 DEF ExpiredBorrow, Borrow, Goto
<1>10. ASSUME NEW t \in Threads, ExpiredDel(t)
      PROVE  \/ id \in torn'
             \/ \E u \in Threads : session'[u].id = id /\ pc'[u] \in {"hset_expiry", "expire"}
  BY <1>10, <1>1, <1>2, <1>3 DEF ExpiredDel, Del, Goto
<1>11. ASSUME NEW t \in Threads, Check(t)
      PROVE  \/ id \in torn'
             \/ \E u \in Threads : session'[u].id = id /\ pc'[u] \in {"hset_expiry", "expire"}
  BY <1>11, <1>1, <1>2, <1>3 DEF Check, Goto
<1>12. ASSUME NEW t \in Threads, Create(t)
      PROVE  \/ id \in torn'
             \/ \E u \in Threads : session'[u].id = id /\ pc'[u] \in {"hset_expiry", "expire"}
  BY <1>12, <1>1, <1>2, <1>3 DEF Create, NewSession, Goto
<1>13. ASSUME NEW t \in Threads, OutOfIds(t)
      PROVE  \/ id \in torn'
             \/ \E u \in Threads : session'[u].id = id /\ pc'[u] \in {"hset_expiry", "expire"}
  BY <1>13, <1>1, <1>2, <1>3 DEF OutOfIds, Finish, NoSession, Goto
<1>14. ASSUME NEW t \in Threads, StoreBorrow(t)
      PROVE  \/ id \in torn'
             \/ \E u \in Threads : session'[u].id = id /\ pc'[u] \in {"hset_expiry", "expire"}
  BY <1>14, <1>1, <1>2, <1>3 DEF StoreBorrow, Return, Goto
<1>15. ASSUME NEW t \in Threads, StoreAttributes(t)
      PROVE  \/ id \in torn'
             \/ \E u \in Threads : session'[u].id = id /\ pc'[u] \in {"hset_expiry", "expire"}
  BY <1>15, <1>1, <1>2, <1>3 DEF StoreAttributes, Goto, HaveSession
<1>16. ASSUME NEW t \in Threads, StoreExpiry(t)
      PROVE  \/ id \in torn'
             \/ \E u \in Threads : session'[u].id = id /\ pc'[u] \in {"hset_expiry", "expire"}
  BY <1>16, <1>1, <1>2, <1>3 DEF StoreExpiry, Goto, HaveSession
<1>17. ASSUME NEW t \in Threads, StoreExpire(t)
      PROVE  \/ id \in torn'
             \/ \E u \in Threads : session'[u].id = id /\ pc'[u] \in {"hset_expiry", "expire"}
  <2>1. now + Ticks(ttl[t]) # NoTtl
    <3>1. ttl[t] \in Nat /\ ttl[t] > 0 /\ now \in Nat
      BY <1>17 DEF StoreExpire, LifeIsBounded, TypeOK
    <3> QED
      BY <3>1, TicksGrow DEF NoTtl
  <2>2. \A u \in Threads \ {t} : session'[u] = session[u] /\ pc'[u] = pc[u]
    BY <1>2, <1>17 DEF StoreExpire, Return, Goto
  <2>3. CASE id = session[t].id
    BY <2>1, <2>3, <1>2, <1>17 DEF StoreExpire
  <2>4. CASE id # session[t].id
    <3>1. Promised /\ torn' = torn \ {session[t].id}
      BY <2>4, <1>1, <1>2, <1>17 DEF StoreExpire
    <3> QED
      BY <3>1, <2>2, <2>4, <1>17
  <2> QED
    BY <2>3, <2>4
<1>18. ASSUME NEW t \in Threads, RemoveBorrow(t)
      PROVE  \/ id \in torn'
             \/ \E u \in Threads : session'[u].id = id /\ pc'[u] \in {"hset_expiry", "expire"}
  BY <1>18, <1>1, <1>2, <1>3 DEF RemoveBorrow, Borrow, Goto
<1>19. ASSUME NEW t \in Threads, RemoveDel(t)
      PROVE  \/ id \in torn'
             \/ \E u \in Threads : session'[u].id = id /\ pc'[u] \in {"hset_expiry", "expire"}
  BY <1>19, <1>1, <1>2, <1>3 DEF RemoveDel, Del, Goto
<1>20. ASSUME NEW t \in Threads, DestroyBorrow(t)
      PROVE  \/ id \in torn'
             \/ \E u \in Threads : session'[u].id = id /\ pc'[u] \in {"hset_expiry", "expire"}
  BY <1>20, <1>1, <1>2, <1>3 DEF DestroyBorrow, Borrow, Goto
<1>21. ASSUME NEW t \in Threads, DestroyDel(t)
      PROVE  \/ id \in torn'
             \/ \E u \in Threads : session'[u].id = id /\ pc'[u] \in {"hset_expiry", "expire"}
  BY <1>21, <1>1, <1>2, <1>3 DEF DestroyDel, Del, Finish, NoSession, Goto
<1>22. ASSUME NEW t \in Threads, CleanupScan(t)
      PROVE  \/ id \in torn'
             \/ \E u \in Threads : session'[u].id = id /\ pc'[u] \in {"hset_expiry", "expire"}
  BY <1>22, <1>1, <1>2, <1>3 DEF CleanupScan, Borrow, Goto
<1>23. ASSUME NEW t \in Threads, Sweep(t)
      PROVE  \/ id \in torn'
             \/ \E u \in Threads : session'[u].id = id /\ pc'[u] \in {"hset_expiry", "expire"}
  BY <1>23, <1>1, <1>2, <1>3 DEF Sweep, Finish, NoSession, Goto
<1>24. ASSUME NEW t \in Threads, SweepDel(t)
      PROVE  \/ id \in torn'
             \/ \E u \in Threads : session'[u].id = id /\ pc'[u] \in {"hset_expiry", "expire"}
  BY <1>24, <1>1, <1>2, <1>3 DEF SweepDel, Del, NoSession, Goto
<1>25. ASSUME NEW t \in Threads, Update(t)
      PROVE  \/ id \in torn'
             \/ \E u \in Threads : session'[u].id = id /\ pc'[u] \in {"hset_expiry", "expire"}
  BY <1>25, <1>1, <1>2, <1>3 DEF Update, Goto
<1>26. ASSUME NEW t \in Threads, Destroy(t)
      PROVE  \/ id \in torn'
             \/ \E u \in Threads : session'[u].id = id /\ pc'[u] \in {"hset_expiry", "expire"}
  BY <1>26, <1>1, <1>2, <1>3 DEF Destroy, Goto
<1>27. ASSUME NEW t \in Threads, Done(t)
      PROVE  \/ id \in torn'
             \/ \E u \in Threads : session'[u].id = id /\ pc'[u] \in {"hset_expiry", "expire"}
  BY <1>27, <1>1, <1>2, <1>3 DEF Done, Finish, NoSession, Goto
<1>28. ASSUME NEW t \in Threads, Throws(t)
      PROVE  \/ id \in torn'
             \/ \E u \in Threads : session'[u].id = id /\ pc'[u] \in {"hset_expiry", "expire"}
  BY <1>28, <1>1, <1>2, <1>3 DEF Throws, Finish, NoSession, Goto
<1>29. CASE Tick
  BY <1>29, <1>1, <1>2 DEF Tick
<1>30. CASE UNCHANGED vars
  BY <1>30, <1>1, <1>2 DEF vars
<1> QED
  BY <1>4, <1>5, <1>6, <1>7, <1>8, <1>9, <1>10, <1>11, <1>12, <1>13, <1>14, <1>15,
     <1>16, <1>17, <1>18, <1>19, <1>20, <1>21, <1>22, <1>23, <1>24, <1>25, <1>26,
     <1>27, <1>28, <1>29, <1>30
     DEF Next, Working, load, store, remove, clear_expired, Handler

(***************************************************************************)
(* Nothing is in Redis at the beginning, and nobody works.                 *)
(***************************************************************************)
LEMMA InitEstablishes == Init => IInv
<1> SUFFICES ASSUME Init PROVE IInv
  OBVIOUS
<1>1. NoHash \in Hash /\ 0 \in 0 .. LatestTime /\ 0 \in 0 .. Timeout /\ 0 \in 0 .. MaxTime
  BY Times, SessionAssumption DEF NoHash, Hash, NoTtl
<1>2. hash \in [Ids -> Hash] /\ \A id \in Ids : ~Exists(id) /\ hash[id] = NoHash
  BY <1>1 DEF Init, Exists, NoHash
<1>3. session \in [Threads -> SessionOf(drawn)]
  BY <1>1 DEF Init, NoSession, SessionOf
<1>4. RestOK
  BY <1>1 DEF Init, RestOK, HoldsNone
<1>5. Free >= 0
  <2>1. {t \in Threads : pc[t] \in HoldsOne} = {} /\ {t \in Threads : pc[t] \in HoldsTwo} = {}
    BY DEF Init, HoldsOne, HoldsTwo
  <2>2. Cardinality({t \in Threads : pc[t] \in HoldsOne}) = 0
        /\ Cardinality({t \in Threads : pc[t] \in HoldsTwo}) = 0
    BY <2>1, FS_EmptySet
  <2> QED
    BY <2>2, SessionAssumption DEF Free
<1>6. TypeOK
  BY <1>2, <1>3, <1>4, <1>5 DEF TypeOK, SessionOf, RestOK
<1>7. SessionInHand /\ GoneIsOnlyAskedFor /\ NoImmortalKey /\ DestroyedIsGoneIfUnshared
  BY <1>2 DEF Init, SessionInHand, HaveSession, GoneIsOnlyAskedFor, NoImmortalKey,
     DestroyedIsGoneIfUnshared
<1>8. LifeIsBounded
  BY <1>2, Times DEF Init, LifeIsBounded, NoSession, NoHash
<1> QED
  BY <1>6, <1>7, <1>8 DEF IInv

(***************************************************************************)
(* The inductive invariant holds always.                                   *)
(***************************************************************************)
THEOREM Invariance == Spec => []IInv
<1>1. IInv /\ [Next]_vars => IInv'
  BY TypeStep, InHandStep, LifeStep, GoneStep, ImmortalStep DEF IInv
<1> QED
  BY InitEstablishes, <1>1, PTL DEF Spec

(***************************************************************************)
(* Every variable keeps its type; among it, that the loans never exceed the*)
(* connections of the pool, although a load may hold two.                  *)
(***************************************************************************)
THEOREM TypeCorrect == Spec => []TypeOK
<1>1. IInv => TypeOK
  BY DEF IInv
<1> QED
  BY Invariance, <1>1, PTL

(***************************************************************************)
(* Whatever deletions, expiries and failures come between its commands, a  *)
(* store leaves no key without a time to live, unless it throws half way.  *)
(***************************************************************************)
THEOREM NoKeyIsImmortal == Spec => []NoImmortalKey
<1>1. IInv => NoImmortalKey
  BY DEF IInv
<1> QED
  BY Invariance, <1>1, PTL

(***************************************************************************)
(* A session destroyed while no other request had it in hand never comes   *)
(* back, whatever requests and cleanups run then.                          *)
(***************************************************************************)
THEOREM DestroyedSessionsStayGone == Spec => []DestroyedIsGoneIfUnshared
<1>1. IInv => DestroyedIsGoneIfUnshared
  BY DEF IInv
<1> QED
  BY Invariance, <1>1, PTL
=============================================================================
