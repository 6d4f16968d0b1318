------------------------- MODULE MemorySessionsProofs -------------------------
(***************************************************************************)
(* Proofs about MemorySessions, for any threads, any ids and any timeout.  *)
(***************************************************************************)
EXTENDS MemorySessions, TLAPS

(***************************************************************************)
(* Where a thread is past get_session's first choice, it has a session.    *)
(***************************************************************************)
HaveSession ==
  {"load", "load_erase", "remove", "check", "refresh", "store", "using", "update",
   "destroy", "sweep_erase"}

SessionInHand == \A t \in Threads : pc[t] \in HaveSession => session[t] \in drawn

(***************************************************************************)
(* load and clear_expired erase through an iterator: they have not left    *)
(* the map since they looked.                                              *)
(***************************************************************************)
Erasing(t) == pc[t] \in {"load_erase", "sweep_erase"}

ErasesInside == \A t \in Threads : Erasing(t) => t \in inside

(***************************************************************************)
(* Some request is about to store the session.                             *)
(***************************************************************************)
Storing(id) == \E u \in Threads : pc[u] = "store" /\ session[u] = id

(***************************************************************************)
(* What is being erased is still expired, or was refreshed by a request    *)
(* that has yet to store it: it cannot have stored it already, since the   *)
(* erasing thread is inside the map.                                       *)
(***************************************************************************)
ErasedIsExpired ==
  ~raced =>
    \A t \in Threads : Erasing(t) => Expired(session[t]) \/ Storing(session[t])

IInv ==
  /\ TypeOK
  /\ SessionInHand
  /\ ErasesInside
  /\ ErasedIsExpired
  /\ UsedIsStored
  /\ DestroyedIsGoneIfUnshared

-----------------------------------------------------------------------------
(***************************************************************************)
(* Nobody has a session at the beginning, and there is none.               *)
(***************************************************************************)
LEMMA InitEstablishes == Init => IInv
<1> SUFFICES ASSUME Init PROVE IInv
  OBVIOUS
<1>1. TypeOK
  <2>1. expiry \in [Ids -> 0 .. MaxTime + Timeout] /\ now \in 0 .. MaxTime
    BY MemoryAssumption DEF Init
  <2>2. session \in [Threads -> drawn \cup {NoId}] /\ todo \in [Threads -> SUBSET drawn]
    BY DEF Init
  <2>3. pc \in [Threads -> {"idle", "using", "crashed"} \cup Locked]
    BY DEF Init
  <2> QED
    BY <2>1, <2>2, <2>3 DEF Init, TypeOK
<1>2. SessionInHand /\ ErasesInside /\ ErasedIsExpired /\ UsedIsStored
  BY DEF Init, SessionInHand, HaveSession, ErasesInside, ErasedIsExpired, Erasing,
         UsedIsStored
<1>3. DestroyedIsGoneIfUnshared
  BY DEF Init, DestroyedIsGoneIfUnshared
<1> QED
  BY <1>1, <1>2, <1>3 DEF IInv

(***************************************************************************)
(* Every step keeps the types, and leaves a thread that goes on with a     *)
(* session one that has been drawn.                                        *)
(***************************************************************************)
LEMMA TypeStep ==
  ASSUME TypeOK, SessionInHand, [Next]_vars
  PROVE  TypeOK' /\ SessionInHand'
<1> USE MemoryAssumption DEF TypeOK, SessionInHand, HaveSession, Reads, Changes, Draws, Locked, history
<1>1. ASSUME NEW t \in Threads, GetSession(t) PROVE TypeOK' /\ SessionInHand'
  BY <1>1 DEF GetSession, Goto
<1>2. ASSUME NEW t \in Threads, Handler(t) PROVE TypeOK' /\ SessionInHand'
  BY <1>2 DEF Handler, Goto
<1>3. ASSUME NEW t \in Threads, Cleanup(t) PROVE TypeOK' /\ SessionInHand'
  BY <1>3 DEF Cleanup, Goto
<1>4. ASSUME NEW t \in Threads, Enter(t) PROVE TypeOK' /\ SessionInHand'
  BY <1>4 DEF Enter
<1>5. ASSUME NEW t \in Threads, Load(t) PROVE TypeOK' /\ SessionInHand'
  BY <1>5 DEF Load, Leave, Stay, Goto
<1>6. ASSUME NEW t \in Threads, LoadErase(t) PROVE TypeOK' /\ SessionInHand'
  BY <1>6 DEF LoadErase, Leave, Goto, Becomes
<1>7. ASSUME NEW t \in Threads, Check(t) PROVE TypeOK' /\ SessionInHand'
  BY <1>7 DEF Check, Goto
<1>8. ASSUME NEW t \in Threads, Refresh(t) PROVE TypeOK' /\ SessionInHand'
  BY <1>8 DEF Refresh, Goto
<1>9. ASSUME NEW t \in Threads, Generate(t) PROVE TypeOK' /\ SessionInHand'
  BY <1>9 DEF Generate, Leave, Goto
<1>10. ASSUME NEW t \in Threads, OutOfIds(t) PROVE TypeOK' /\ SessionInHand'
  BY <1>10 DEF OutOfIds, Goto
<1>11. ASSUME NEW t \in Threads, Store(t) PROVE TypeOK' /\ SessionInHand'
  BY <1>11 DEF Store, Leave, Goto, Becomes
<1>12. ASSUME NEW t \in Threads, Destroy(t) PROVE TypeOK' /\ SessionInHand'
  BY <1>12 DEF Destroy, Leave, Goto, Becomes
<1>13. ASSUME NEW t \in Threads, Sweep(t) PROVE TypeOK' /\ SessionInHand'
  <2>1. CASE todo[t] = {} /\ Leave(t) /\ Goto(t, "idle") /\ UNCHANGED <<session, todo>>
    BY <2>1, <1>13 DEF Sweep, Leave, Goto
  <2>2. ASSUME NEW id \in todo[t],
               id \in sessions_ /\ Expired(id),
               Goto(t, "sweep_erase"), session' = [session EXCEPT ![t] = id],
               todo' = [todo EXCEPT ![t] = @ \ {id}], Stay(t)
        PROVE  TypeOK' /\ SessionInHand'
    <3>1. session'[t] = id /\ id \in drawn
      BY <2>2
    <3>2. todo' \in [Threads -> SUBSET drawn] /\ session' \in [Threads -> drawn \cup {NoId}]
      BY <2>2
    <3> QED
      BY <2>2, <3>1, <3>2, <1>13 DEF Sweep, Stay, Goto
  <2>3. ASSUME NEW id \in todo[t],
               UNCHANGED <<pc, session>>,
               todo' = [todo EXCEPT ![t] = @ \ {id}], Stay(t)
        PROVE  TypeOK' /\ SessionInHand'
    <3>1. todo' \in [Threads -> SUBSET drawn]
      BY <2>3
    <3> QED
      BY <2>3, <3>1, <1>13 DEF Sweep, Stay
  <2> QED
    BY <2>1, <2>2, <2>3, <1>13 DEF Sweep
<1>14. ASSUME NEW t \in Threads, SweepErase(t) PROVE TypeOK' /\ SessionInHand'
  BY <1>14 DEF SweepErase, Stay, Goto, Becomes
<1>15. CASE Crash
  BY <1>15 DEF Crash
<1>16. CASE SetSessionStorage
  BY <1>16 DEF SetSessionStorage
<1>17. CASE Tick
  BY <1>17 DEF Tick
<1>18. CASE UNCHANGED vars
  BY <1>18 DEF vars
<1>19. ASSUME NEW t \in Threads, Remove(t) PROVE TypeOK' /\ SessionInHand'
  BY <1>19 DEF Remove, Leave, Goto, Becomes
<1> QED
  BY <1>1, <1>2, <1>3, <1>4, <1>5, <1>6, <1>7, <1>8, <1>9, <1>10, <1>11, <1>12, <1>13,
     <1>14, <1>15, <1>16, <1>17, <1>18, <1>19 DEF Next, Working

(***************************************************************************)
(* Who erases through an iterator has kept it since the look.              *)
(***************************************************************************)
LEMMA ErasesInsideStep ==
  ASSUME TypeOK, ErasesInside, [Next]_vars
  PROVE  ErasesInside'
<1> USE DEF TypeOK, ErasesInside, Erasing, history
<1>1. ASSUME NEW t \in Threads, GetSession(t) PROVE ErasesInside'
  BY <1>1 DEF GetSession, Goto
<1>2. ASSUME NEW t \in Threads, Handler(t) PROVE ErasesInside'
  BY <1>2 DEF Handler, Goto
<1>3. ASSUME NEW t \in Threads, Cleanup(t) PROVE ErasesInside'
  BY <1>3 DEF Cleanup, Goto
<1>4. ASSUME NEW t \in Threads, Enter(t) PROVE ErasesInside'
  BY <1>4 DEF Enter
<1>5. ASSUME NEW t \in Threads, Load(t) PROVE ErasesInside'
  BY <1>5 DEF Load, Leave, Stay, Goto
<1>6. ASSUME NEW t \in Threads, LoadErase(t) PROVE ErasesInside'
  BY <1>6 DEF LoadErase, Leave, Goto, Becomes, Undefined
<1>7. ASSUME NEW t \in Threads, Check(t) PROVE ErasesInside'
  BY <1>7 DEF Check, Goto
<1>8. ASSUME NEW t \in Threads, Remove(t) PROVE ErasesInside'
  BY <1>8 DEF Remove, Leave, Goto, Becomes, Undefined
<1>9. ASSUME NEW t \in Threads, Refresh(t) PROVE ErasesInside'
  BY <1>9 DEF Refresh, Goto
<1>10. ASSUME NEW t \in Threads, Generate(t) PROVE ErasesInside'
  BY <1>10 DEF Generate, Leave, Goto
<1>11. ASSUME NEW t \in Threads, OutOfIds(t) PROVE ErasesInside'
  BY <1>11 DEF OutOfIds, Goto
<1>12. ASSUME NEW t \in Threads, Store(t) PROVE ErasesInside'
  BY <1>12 DEF Store, Leave, Goto, Becomes, Undefined
<1>13. ASSUME NEW t \in Threads, Destroy(t) PROVE ErasesInside'
  BY <1>13 DEF Destroy, Leave, Goto, Becomes, Undefined
<1>14. ASSUME NEW t \in Threads, Sweep(t) PROVE ErasesInside'
  BY <1>14 DEF Sweep, Leave, Stay, Goto
<1>15. ASSUME NEW t \in Threads, SweepErase(t) PROVE ErasesInside'
  BY <1>15 DEF SweepErase, Stay, Goto, Becomes, Undefined
<1>16. CASE Crash
  BY <1>16 DEF Crash
<1>17. CASE SetSessionStorage
  BY <1>17 DEF SetSessionStorage
<1>18. CASE Tick
  BY <1>18 DEF Tick
<1>19. CASE UNCHANGED vars
  BY <1>19 DEF vars
<1> QED
  BY <1>1, <1>2, <1>3, <1>4, <1>5, <1>6, <1>7, <1>8, <1>9, <1>10,
     <1>11, <1>12, <1>13, <1>14, <1>15, <1>16, <1>17, <1>18, <1>19 DEF Next, Working

(***************************************************************************)
(* Without a race, a session that is being erased as expired is so, or is  *)
(* about to be stored: a store that came in between would be a race.       *)
(***************************************************************************)
LEMMA ErasedIsExpiredStep ==
  ASSUME TypeOK, SessionInHand, ErasesInside, ErasedIsExpired, [Next]_vars
  PROVE  ErasedIsExpired'
<1> SUFFICES ASSUME ~raced', NEW e \in Threads, Erasing(e)'
             PROVE  Expired(session[e])' \/ Storing(session[e])'
  BY DEF ErasedIsExpired
<1>0. ~raced /\ Erasing(e) => e \in inside /\ (Expired(session[e]) \/ Storing(session[e]))
  BY DEF ErasedIsExpired, ErasesInside
<1> USE MemoryAssumption DEF TypeOK, SessionInHand, HaveSession, Erasing, Expired, Storing, history
<1>1. ASSUME NEW t \in Threads, GetSession(t) PROVE Expired(session[e])' \/ Storing(session[e])'
  BY <1>1, <1>0 DEF GetSession, Goto
<1>2. ASSUME NEW t \in Threads, Handler(t) PROVE Expired(session[e])' \/ Storing(session[e])'
  BY <1>2, <1>0 DEF Handler, Goto
<1>3. ASSUME NEW t \in Threads, Cleanup(t) PROVE Expired(session[e])' \/ Storing(session[e])'
  BY <1>3, <1>0 DEF Cleanup, Goto
<1>4. ASSUME NEW t \in Threads, Enter(t) PROVE Expired(session[e])' \/ Storing(session[e])'
  BY <1>4, <1>0 DEF Enter
<1>5. ASSUME NEW t \in Threads, Load(t) PROVE Expired(session[e])' \/ Storing(session[e])'
  BY <1>5, <1>0 DEF Load, Leave, Stay, Goto
<1>6. ASSUME NEW t \in Threads, LoadErase(t) PROVE Expired(session[e])' \/ Storing(session[e])'
  BY <1>6, <1>0 DEF LoadErase, Leave, Goto, Becomes, Undefined
<1>7. ASSUME NEW t \in Threads, Check(t) PROVE Expired(session[e])' \/ Storing(session[e])'
  BY <1>7, <1>0 DEF Check, Goto
<1>8. ASSUME NEW t \in Threads, Remove(t) PROVE Expired(session[e])' \/ Storing(session[e])'
  BY <1>8, <1>0 DEF Remove, Leave, Goto, Becomes, Undefined
<1>9. ASSUME NEW t \in Threads, Refresh(t) PROVE Expired(session[e])' \/ Storing(session[e])'
  BY <1>9, <1>0 DEF Refresh, Goto
<1>10. ASSUME NEW t \in Threads, Generate(t) PROVE Expired(session[e])' \/ Storing(session[e])'
  BY <1>10, <1>0 DEF Generate, Leave, Goto
<1>11. ASSUME NEW t \in Threads, OutOfIds(t) PROVE Expired(session[e])' \/ Storing(session[e])'
  BY <1>11, <1>0 DEF OutOfIds, Goto
<1>12. ASSUME NEW t \in Threads, Store(t) PROVE Expired(session[e])' \/ Storing(session[e])'
  <2>1. Erasing(e) /\ e # t
    BY <1>12 DEF Store, Goto
  <2>2. t \in inside /\ pc[t] \in Changes /\ pc[e] \in Changes
    BY <1>12, <2>1 DEF Store, Leave, Changes
  <2>3. ~raced /\ ~Racing(t)
    BY <1>12 DEF Store, Leave
  <2>4. e \in inside
    BY <2>1, <2>3, <1>0
  <2> QED
    BY <2>1, <2>2, <2>3, <2>4 DEF Racing, Conflict
<1>13. ASSUME NEW t \in Threads, Destroy(t) PROVE Expired(session[e])' \/ Storing(session[e])'
  BY <1>13, <1>0 DEF Destroy, Leave, Goto, Becomes, Undefined
<1>14. ASSUME NEW t \in Threads, Sweep(t) PROVE Expired(session[e])' \/ Storing(session[e])'
  BY <1>14, <1>0 DEF Sweep, Leave, Stay, Goto
<1>15. ASSUME NEW t \in Threads, SweepErase(t) PROVE Expired(session[e])' \/ Storing(session[e])'
  BY <1>15, <1>0 DEF SweepErase, Stay, Goto, Becomes, Undefined
<1>16. CASE Crash
  BY <1>16, <1>0 DEF Crash
<1>17. CASE SetSessionStorage
  BY <1>17, <1>0 DEF SetSessionStorage
<1>18. CASE Tick
  BY <1>18, <1>0 DEF Tick
<1>19. CASE UNCHANGED vars
  BY <1>19, <1>0 DEF vars
<1> QED
  BY <1>1, <1>2, <1>3, <1>4, <1>5, <1>6, <1>7, <1>8, <1>9, <1>10,
     <1>11, <1>12, <1>13, <1>14, <1>15, <1>16, <1>17, <1>18, <1>19 DEF Next, Working

(***************************************************************************)
(* Without a race, a live session in use leaves the map only when another  *)
(* request is about to store it, or in a way that is counted (forgotten,   *)
(* shared).                                                                *)
(***************************************************************************)
LEMMA UsedStep ==
  ASSUME TypeOK, SessionInHand, ErasedIsExpired, UsedIsStored, [Next]_vars
  PROVE  UsedIsStored'
<1> DEFINE Safe(t) == pc[t] = "using" /\ ~Expired(session[t])
                        /\ session[t] \notin forgotten \cup shared
                      => session[t] \in sessions_ \/ Storing(session[t])
<1> SUFFICES ASSUME ~raced', NEW e \in Threads PROVE Safe(e)'
  BY DEF UsedIsStored, Storing
<1>0. ~raced => Safe(e)
  BY DEF UsedIsStored, Storing
<1> USE MemoryAssumption DEF TypeOK, SessionInHand, HaveSession, Expired, Storing, history
<1>1. ASSUME NEW t \in Threads, GetSession(t) PROVE Safe(e)'
  BY <1>1, <1>0 DEF GetSession, Goto
<1>2. ASSUME NEW t \in Threads, Handler(t) PROVE Safe(e)'
  BY <1>2, <1>0 DEF Handler, Goto
<1>3. ASSUME NEW t \in Threads, Cleanup(t) PROVE Safe(e)'
  BY <1>3, <1>0 DEF Cleanup, Goto
<1>4. ASSUME NEW t \in Threads, Enter(t) PROVE Safe(e)'
  BY <1>4, <1>0 DEF Enter
<1>5. ASSUME NEW t \in Threads, Load(t) PROVE Safe(e)'
  BY <1>5, <1>0 DEF Load, Leave, Stay, Goto
<1>6. ASSUME NEW t \in Threads, LoadErase(t) PROVE Safe(e)'
  <2>1. ~raced /\ sessions_' = sessions_ \ {session[t]}
    BY <1>6 DEF LoadErase, Leave, Becomes, Undefined
  <2>2. Expired(session[t]) \/ Storing(session[t])
    BY <1>6, <2>1 DEF LoadErase, ErasedIsExpired, Erasing
  <2>3. /\ pc[t] # "store" /\ pc'[t] # "using"
        /\ \A u \in Threads \ {t} : pc'[u] = pc[u] /\ session'[u] = session[u]
    BY <1>6 DEF LoadErase, Goto
  <2>4. \A s : Storing(s) => Storing(s)'
    BY <2>3
  <2>5. CASE e = t
    BY <2>3, <2>5
  <2>6. CASE e # t
    <3>1. pc'[e] = pc[e] /\ session'[e] = session[e]
      BY <2>3, <2>6
    <3>2. UNCHANGED <<now, expiry, forgotten, shared>>
      BY <1>6 DEF LoadErase
    <3>3. Safe(e)
      BY <2>1, <1>0
    <3>4. session[e] \in sessions_ => session[e] \in sessions_' \/ session[e] = session[t]
      BY <2>1
    <3> QED
      BY <3>1, <3>2, <3>3, <3>4, <2>2, <2>4
  <2> QED
    BY <2>5, <2>6
<1>7. ASSUME NEW t \in Threads, Check(t) PROVE Safe(e)'
  BY <1>7, <1>0 DEF Check, Goto
<1>8. ASSUME NEW t \in Threads, Remove(t) PROVE Safe(e)'
  BY <1>8, <1>0 DEF Remove, Leave, Goto, Becomes, Undefined
<1>9. ASSUME NEW t \in Threads, Refresh(t) PROVE Safe(e)'
  BY <1>9, <1>0 DEF Refresh, Goto
<1>10. ASSUME NEW t \in Threads, Generate(t) PROVE Safe(e)'
  BY <1>10, <1>0 DEF Generate, Leave, Goto
<1>11. ASSUME NEW t \in Threads, OutOfIds(t) PROVE Safe(e)'
  BY <1>11, <1>0 DEF OutOfIds, Goto
<1>12. ASSUME NEW t \in Threads, Store(t) PROVE Safe(e)'
  BY <1>12, <1>0 DEF Store, Leave, Goto, Becomes, Undefined
<1>13. ASSUME NEW t \in Threads, Destroy(t) PROVE Safe(e)'
  <2>1. ~raced /\ sessions_' = sessions_ \ {session[t]}
    BY <1>13 DEF Destroy, Leave, Becomes, Undefined
  <2>2. CASE pc'[e] # "using"
    BY <2>2
  <2>3. CASE pc'[e] = "using"
    <3>1. e # t /\ pc[e] = "using" /\ session'[e] = session[e]
      BY <2>3, <1>13 DEF Destroy, Goto
    <3>2. CASE session[e] = session[t]
      <4>1. e \in Holders(session[t])
        BY <3>1, <3>2 DEF Holders, Keeps
      <4>2. session[e] \in shared'
        BY <4>1, <3>2, <1>13 DEF Destroy
      <4> QED
        BY <4>2, <3>1
    <3>3. CASE session[e] # session[t]
      <4>1. session[e] \in shared' <=> session[e] \in shared
        BY <3>3, <1>13 DEF Destroy
      <4>2. \A s : Storing(s) => Storing(s)'
        BY <1>13 DEF Destroy, Goto
      <4>3. Safe(e) /\ UNCHANGED <<now, expiry, forgotten>>
        BY <2>1, <1>0, <1>13 DEF Destroy
      <4> QED
        BY <2>1, <3>1, <3>3, <4>1, <4>2, <4>3
    <3> QED
      BY <3>2, <3>3
  <2> QED
    BY <2>2, <2>3
<1>14. ASSUME NEW t \in Threads, Sweep(t) PROVE Safe(e)'
  BY <1>14, <1>0 DEF Sweep, Leave, Stay, Goto
<1>15. ASSUME NEW t \in Threads, SweepErase(t) PROVE Safe(e)'
  <2>1. ~raced /\ sessions_' = sessions_ \ {session[t]}
    BY <1>15 DEF SweepErase, Stay, Becomes, Undefined
  <2>2. Expired(session[t]) \/ Storing(session[t])
    BY <1>15, <2>1 DEF SweepErase, ErasedIsExpired, Erasing
  <2>3. /\ pc[t] # "store" /\ pc'[t] # "using"
        /\ \A u \in Threads \ {t} : pc'[u] = pc[u] /\ session'[u] = session[u]
    BY <1>15 DEF SweepErase, Goto
  <2>4. \A s : Storing(s) => Storing(s)'
    BY <2>3
  <2>5. CASE e = t
    BY <2>3, <2>5
  <2>6. CASE e # t
    <3>1. pc'[e] = pc[e] /\ session'[e] = session[e]
      BY <2>3, <2>6
    <3>2. UNCHANGED <<now, expiry, forgotten, shared>>
      BY <1>15 DEF SweepErase
    <3>3. Safe(e)
      BY <2>1, <1>0
    <3>4. session[e] \in sessions_ => session[e] \in sessions_' \/ session[e] = session[t]
      BY <2>1
    <3> QED
      BY <3>1, <3>2, <3>3, <3>4, <2>2, <2>4
  <2> QED
    BY <2>5, <2>6
<1>16. CASE Crash
  BY <1>16, <1>0 DEF Crash
<1>17. CASE SetSessionStorage
  BY <1>17, <1>0 DEF SetSessionStorage
<1>18. CASE Tick
  BY <1>18, <1>0 DEF Tick
<1>19. CASE UNCHANGED vars
  BY <1>19, <1>0 DEF vars
<1> QED
  BY <1>1, <1>2, <1>3, <1>4, <1>5, <1>6, <1>7, <1>8, <1>9, <1>10,
     <1>11, <1>12, <1>13, <1>14, <1>15, <1>16, <1>17, <1>18, <1>19 DEF Next, Working

(***************************************************************************)
(* Without a race, what was destroyed while no other request had found it  *)
(* is not stored again: it can be asked for, but the load that would give  *)
(* it out does not find it, and a fresh id is never an old one.            *)
(***************************************************************************)
LEMMA GoneStep ==
  ASSUME TypeOK, SessionInHand, DestroyedIsGoneIfUnshared, [Next]_vars
  PROVE  DestroyedIsGoneIfUnshared'
<1> DEFINE Gone(id) == id \notin sessions_ /\ Holders(id) = {}
<1> SUFFICES ASSUME ~raced', NEW id \in destroyed' \ shared' PROVE Gone(id)'
  BY DEF DestroyedIsGoneIfUnshared
<1>0. ~raced /\ id \in destroyed \ shared => Gone(id)
  BY DEF DestroyedIsGoneIfUnshared
<1> USE MemoryAssumption DEF TypeOK, SessionInHand, HaveSession, Holders, Keeps, history
<1>1. ASSUME NEW t \in Threads, GetSession(t) PROVE Gone(id)'
  BY <1>1, <1>0 DEF GetSession, Goto
<1>2. ASSUME NEW t \in Threads, Handler(t) PROVE Gone(id)'
  BY <1>2, <1>0 DEF Handler, Goto
<1>3. ASSUME NEW t \in Threads, Cleanup(t) PROVE Gone(id)'
  BY <1>3, <1>0 DEF Cleanup, Goto
<1>4. ASSUME NEW t \in Threads, Enter(t) PROVE Gone(id)'
  BY <1>4, <1>0 DEF Enter
<1>5. ASSUME NEW t \in Threads, Load(t) PROVE Gone(id)'
  BY <1>5, <1>0 DEF Load, Leave, Stay, Goto
<1>6. ASSUME NEW t \in Threads, LoadErase(t) PROVE Gone(id)'
  BY <1>6, <1>0 DEF LoadErase, Leave, Goto, Becomes, Undefined
<1>7. ASSUME NEW t \in Threads, Check(t) PROVE Gone(id)'
  BY <1>7, <1>0 DEF Check, Goto
<1>8. ASSUME NEW t \in Threads, Remove(t) PROVE Gone(id)'
  BY <1>8, <1>0 DEF Remove, Leave, Goto, Becomes, Undefined
<1>9. ASSUME NEW t \in Threads, Refresh(t) PROVE Gone(id)'
  BY <1>9, <1>0 DEF Refresh, Goto
<1>10. ASSUME NEW t \in Threads, Generate(t) PROVE Gone(id)'
  <2>1. ~Racing(t) /\ Gone(id) /\ id \in drawn
    BY <1>10, <1>0 DEF Generate, Leave
  <2>2. PICK i \in Ids \ drawn : session' = [session EXCEPT ![t] = i]
    BY <1>10, <2>1 DEF Generate
  <2> QED
    BY <2>1, <2>2, <1>10 DEF Generate, Goto
<1>11. ASSUME NEW t \in Threads, OutOfIds(t) PROVE Gone(id)'
  BY <1>11, <1>0 DEF OutOfIds, Goto
<1>12. ASSUME NEW t \in Threads, Store(t) PROVE Gone(id)'
  BY <1>12, <1>0 DEF Store, Leave, Goto, Becomes, Undefined
<1>13. ASSUME NEW t \in Threads, Destroy(t) PROVE Gone(id)'
  BY <1>13, <1>0 DEF Destroy, Leave, Goto, Becomes, Undefined
<1>14. ASSUME NEW t \in Threads, Sweep(t) PROVE Gone(id)'
  BY <1>14, <1>0 DEF Sweep, Leave, Stay, Goto
<1>15. ASSUME NEW t \in Threads, SweepErase(t) PROVE Gone(id)'
  BY <1>15, <1>0 DEF SweepErase, Stay, Goto, Becomes, Undefined
<1>16. CASE Crash
  BY <1>16, <1>0 DEF Crash
<1>17. CASE SetSessionStorage
  BY <1>17, <1>0 DEF SetSessionStorage
<1>18. CASE Tick
  BY <1>18, <1>0 DEF Tick
<1>19. CASE UNCHANGED vars
  BY <1>19, <1>0 DEF vars
<1> QED
  BY <1>1, <1>2, <1>3, <1>4, <1>5, <1>6, <1>7, <1>8, <1>9, <1>10,
     <1>11, <1>12, <1>13, <1>14, <1>15, <1>16, <1>17, <1>18, <1>19 DEF Next, Working

(***************************************************************************)
(* The inductive invariant holds always.                                   *)
(***************************************************************************)
THEOREM Invariance == Spec => []IInv
<1>1. IInv /\ [Next]_vars => IInv'
  BY TypeStep, ErasesInsideStep, ErasedIsExpiredStep, UsedStep, GoneStep DEF IInv
<1> QED
  BY InitEstablishes, <1>1, PTL DEF Spec

(***************************************************************************)
(* Every variable keeps its type; among it, that only ids which have been  *)
(* drawn are stored, given to clients or swept.                            *)
(***************************************************************************)
THEOREM TypeCorrect == Spec => []TypeOK
<1>1. IInv => TypeOK
  BY DEF IInv
<1> QED
  BY Invariance, <1>1, PTL

(***************************************************************************)
(* As long as no two calls race, a live session a handler works with is in *)
(* the map or about to be stored, whoever looks, refreshes and erases      *)
(* around it, except what get_session's late remove, a replaced storage or *)
(* a destroy_session took.                                                 *)
(***************************************************************************)
THEOREM SessionsInUseAreStored == Spec => []UsedIsStored
<1>1. IInv => UsedIsStored
  BY DEF IInv
<1> QED
  BY Invariance, <1>1, PTL

(***************************************************************************)
(* As long as no two calls race, a session that was destroyed while no     *)
(* other request had found it never comes back and serves nobody.          *)
(***************************************************************************)
THEOREM DestroyedSessionsStayGone == Spec => []DestroyedIsGoneIfUnshared
<1>1. IInv => DestroyedIsGoneIfUnshared
  BY DEF IInv
<1> QED
  BY Invariance, <1>1, PTL
=============================================================================
