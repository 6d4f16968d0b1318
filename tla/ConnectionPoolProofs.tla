------------------------ MODULE ConnectionPoolProofs ------------------------
(***************************************************************************)
(* Proofs about ConnectionPool, for any number of threads, any pool size   *)
(* and any driver behaviour the assumption allows.                         *)
(***************************************************************************)
EXTENDS ConnectionPool, SequenceTheorems, FiniteSetTheorems, TLAPS

(***************************************************************************)
(* What the control flow says about the data, the part of the inductive    *)
(* invariant no property states: who may hold a connection, what an        *)
(* unfinished init has built, and that the checker looks at connections    *)
(* that exist.                                                             *)
(***************************************************************************)
HoldersHold == \A t \in Threads : held[t] # NoConn <=> pc[t] \in Holding

LockHolders ==
  /\ \A t \in Threads : pc[t] = "init" <=> mutex = t
  /\ chk = "locked" <=> mutex = "checker"

BeforeOpen ==
  ~initialized /\ chk # "exited" =>
    /\ \A t \in Threads : pc[t] \in {"idle", "init"}
    /\ mutex \notin Threads => connections = << >>
    /\ \A c \in Range(connections) : c <= slot

InitInProgress == mutex \in Threads => ~initialized /\ chk # "exited"

Exited ==
  chk = "exited" =>
    /\ ~initialized
    /\ connections = << >>
    /\ mutex = "nobody"
    /\ \A t \in Threads : pc[t] = "exited"

CheckerSnapshot ==
  /\ Range(toCheck) \subseteq Created
  /\ chk \in {"ping", "reconnect"} => toCheck # << >>

Control ==
  /\ HoldersHold
  /\ LockHolders
  /\ BeforeOpen
  /\ InitInProgress
  /\ Exited
  /\ CheckerSnapshot

IInv == TypeOK /\ Control /\ ExclusiveOwner /\ NoneLost

-----------------------------------------------------------------------------
(* Lemmas about the queue.                                                 *)

(***************************************************************************)
(* Appending a new element to a queue without duplicates adds it to the    *)
(* range and creates no duplicate (connections_.emplace).                  *)
(***************************************************************************)
LEMMA AppendNew ==
  ASSUME NEW S, NEW s \in Seq(S), NEW e \in S
  PROVE  /\ Append(s, e) \in Seq(S)
         /\ Len(Append(s, e)) = Len(s) + 1
         /\ Range(Append(s, e)) = Range(s) \cup {e}
         /\ IsInjective(s) /\ e \notin Range(s) => IsInjective(Append(s, e))
<1>1. /\ Append(s, e) \in Seq(S)
      /\ Len(Append(s, e)) = Len(s) + 1
      /\ Len(s) \in Nat
      /\ \A i \in 1 .. Len(s) : Append(s, e)[i] = s[i]
      /\ Append(s, e)[Len(s) + 1] = e
  BY AppendProperties, LenProperties
<1>2. DOMAIN s = 1 .. Len(s) /\ DOMAIN Append(s, e) = 1 .. Len(s) + 1
  BY <1>1, LenProperties
<1>3. \A i \in 1 .. Len(s) + 1 : i \in 1 .. Len(s) \/ i = Len(s) + 1
  BY <1>1
<1>4. \A i \in 1 .. Len(s) : i \in 1 .. Len(s) + 1 /\ i # Len(s) + 1
  BY <1>1
<1>5. Len(s) + 1 \in 1 .. Len(s) + 1
  BY <1>1
<1>6. Range(Append(s, e)) = Range(s) \cup {e}
  <2>1. ASSUME NEW x \in Range(Append(s, e)) PROVE x \in Range(s) \cup {e}
    BY <1>1, <1>2, <1>3 DEF Range
  <2>2. ASSUME NEW x \in Range(s) PROVE x \in Range(Append(s, e))
    BY <1>1, <1>2, <1>4 DEF Range
  <2>3. e \in Range(Append(s, e))
    BY <1>1, <1>2, <1>5 DEF Range
  <2> QED
    BY <2>1, <2>2, <2>3
<1>7. IsInjective(s) /\ e \notin Range(s) => IsInjective(Append(s, e))
  BY <1>1, <1>2, <1>3 DEF IsInjective, Range
<1> QED
  BY <1>1, <1>6, <1>7

(***************************************************************************)
(* Taking the head of a queue without duplicates removes exactly that      *)
(* element from its range (connections_.front, connections_.pop).          *)
(***************************************************************************)
LEMMA TailOfInjective ==
  ASSUME NEW S, NEW s \in Seq(S), s # << >>
  PROVE  /\ Head(s) \in S /\ Head(s) \in Range(s)
         /\ Tail(s) \in Seq(S)
         /\ Len(s) \in Nat \ {0} /\ Len(Tail(s)) = Len(s) - 1
         /\ Range(Tail(s)) \subseteq Range(s)
         /\ IsInjective(s) => /\ IsInjective(Tail(s))
                              /\ Range(Tail(s)) = Range(s) \ {Head(s)}
<1>1. /\ Head(s) \in S /\ Head(s) = s[1]
      /\ Tail(s) \in Seq(S)
      /\ Len(s) \in Nat \ {0} /\ Len(Tail(s)) = Len(s) - 1
      /\ \A i \in 1 .. Len(s) - 1 : Tail(s)[i] = s[i + 1]
  BY HeadTailProperties, EmptySeq, LenProperties
<1>2. DOMAIN s = 1 .. Len(s) /\ DOMAIN Tail(s) = 1 .. Len(s) - 1
  BY <1>1, LenProperties
<1>3. \A i \in 1 .. Len(s) - 1 : i + 1 \in 1 .. Len(s) /\ i + 1 # 1
  BY <1>1
<1>4. \A i \in 1 .. Len(s) : i = 1 \/ (i - 1 \in 1 .. Len(s) - 1 /\ (i - 1) + 1 = i)
  BY <1>1
<1>5. 1 \in 1 .. Len(s)
  BY <1>1
<1>6. Head(s) \in Range(s) /\ Range(Tail(s)) \subseteq Range(s)
  <2>1. Head(s) \in Range(s)
    BY <1>1, <1>2, <1>5 DEF Range
  <2>2. ASSUME NEW x \in Range(Tail(s)) PROVE x \in Range(s)
    BY <1>1, <1>2, <1>3 DEF Range
  <2> QED
    BY <2>1, <2>2
<1>7. ASSUME IsInjective(s)
      PROVE  IsInjective(Tail(s)) /\ Range(Tail(s)) = Range(s) \ {Head(s)}
  <2>1. \A a, b \in 1 .. Len(s) : s[a] = s[b] => a = b
    BY <1>2, <1>7 DEF IsInjective
  <2>2. IsInjective(Tail(s))
    <3> SUFFICES ASSUME NEW a \in 1 .. Len(s) - 1, NEW b \in 1 .. Len(s) - 1,
                        Tail(s)[a] = Tail(s)[b]
                 PROVE  a = b
      BY <1>2 DEF IsInjective
    <3>1. s[a + 1] = s[b + 1]
      BY <1>1
    <3>2. a + 1 = b + 1
      BY <3>1, <2>1, <1>3
    <3> QED
      BY <3>2
  <2>3. ASSUME NEW x \in Range(Tail(s)) PROVE x # Head(s)
    <3>1. PICK i \in 1 .. Len(s) - 1 : x = s[i + 1]
      BY <1>1, <1>2 DEF Range
    <3> QED
      BY <3>1, <2>1, <1>1, <1>3, <1>5
  <2>4. ASSUME NEW x \in Range(s), x # Head(s) PROVE x \in Range(Tail(s))
    <3>1. PICK i \in 1 .. Len(s) : x = s[i]
      BY <1>2 DEF Range
    <3>2. i - 1 \in 1 .. Len(s) - 1 /\ Tail(s)[i - 1] = x
      BY <3>1, <2>4, <1>1, <1>4
    <3> QED
      BY <3>2, <1>2 DEF Range
  <2> QED
    BY <2>2, <2>3, <2>4, <1>6
<1> QED
  BY <1>1, <1>6, <1>7

(***************************************************************************)
(* An empty queue contains nothing.                                        *)
(***************************************************************************)
LEMMA EmptyRange == Range(<< >>) = {} /\ IsInjective(<< >>) /\ Len(<< >>) = 0
BY DEF Range, IsInjective

-----------------------------------------------------------------------------
(* The inductive invariant.                                                *)

(***************************************************************************)
(* A pool that has just been constructed satisfies the inductive           *)
(* invariant: nothing is created, queued, held or being checked.           *)
(***************************************************************************)
LEMMA InitEstablishes == Init => IInv
<1> SUFFICES ASSUME Init PROVE IInv
  OBVIOUS
<1>1. TypeOK
  <2>1. << >> \in Seq(Conns)
    BY EmptySeq
  <2>2. 0 \in 0 .. PoolSize
    BY PoolAssumption
  <2> QED
    BY <2>1, <2>2 DEF Init, TypeOK, ThreadPc, CheckPc, LinkStatus, NoConn
<1>2. Control
  BY EmptyRange, PoolAssumption
  DEF Init, Control, HoldersHold, LockHolders, BeforeOpen, InitInProgress, Exited,
      CheckerSnapshot, Holding
<1>3. ExclusiveOwner /\ NoneLost
  BY EmptyRange DEF Init, ExclusiveOwner, NoneLost, Created
<1> QED
  BY <1>1, <1>2, <1>3 DEF IInv

(***************************************************************************)
(* Every step of the pool, the checker and the environment keeps the types.*)
(***************************************************************************)
LEMMA TypeStep ==
  ASSUME IInv, [Next]_vars
  PROVE  TypeOK'
<1> USE PoolAssumption DEF ThreadPc, CheckPc, LinkStatus, Holding, Conns, NoConn
<1>1. /\ TypeOK /\ Control
  BY DEF IInv
<1>2. \A t \in Threads : pc[t] \in Holding => held[t] \in Conns
  BY <1>1 DEF TypeOK, Control, HoldersHold
<1>3. /\ connections # << >> => Head(connections) \in Conns /\ Tail(connections) \in Seq(Conns)
      /\ toCheck # << >> => Tail(toCheck) \in Seq(Conns)
  BY <1>1, TailOfInjective DEF TypeOK
<1>4. ASSUME NEW t \in Threads, init(t) PROVE TypeOK'
  <2>1. CASE InitBegin(t)
    BY <1>1, <2>1 DEF InitBegin, TypeOK, Goto, checkVars
  <2>2. CASE InitCreate(t)
    <3>1. slot + 1 \in Conns /\ Append(connections, slot + 1) \in Seq(Conns)
      BY <1>1, <2>2, AppendNew DEF InitCreate, TypeOK
    <3> QED
      BY <1>1, <2>2, <3>1 DEF InitCreate, Connected, TypeOK, checkVars
  <2>3. CASE InitCreateFails(t)
    BY <1>1, <2>3 DEF InitCreateFails, TypeOK, checkVars
  <2>4. CASE InitEnd(t)
    BY <1>1, <2>4 DEF InitEnd, TypeOK, Goto, checkVars
  <2> QED
    BY <1>4, <2>1, <2>2, <2>3, <2>4 DEF init
<1>5. ASSUME NEW t \in Threads, PushAndNotify(t), pc[t] \in Holding PROVE TypeOK'
  <2>1. Append(connections, held[t]) \in Seq(Conns)
    BY <1>1, <1>2, <1>5, AppendNew DEF TypeOK
  <2> QED
    BY <1>1, <1>5, <2>1 DEF PushAndNotify, TypeOK, Goto, checkVars
<1>6. ASSUME NEW t \in Threads, get_connection(t) PROVE TypeOK'
  <2>1. ASSUME TakeOrWait(t),
               UNCHANGED <<initialized, mutex, slot, link, checkVars, serverUp>>
        PROVE  TypeOK'
    <3>1. CASE /\ connections # << >>
               /\ held' = [held EXCEPT ![t] = Head(connections)]
               /\ connections' = Tail(connections)
               /\ Goto(t, "ping")
      <4>1. connections' \in Seq(Conns) /\ held' \in [Threads -> Conns \cup {NoConn}]
        BY <1>1, <1>3, <3>1 DEF TypeOK
      <4> QED
        BY <1>1, <2>1, <3>1, <4>1 DEF TypeOK, Goto, checkVars
    <3>2. CASE Goto(t, "waiting") /\ UNCHANGED <<connections, held>>
      BY <1>1, <2>1, <3>2 DEF TypeOK, Goto, checkVars
    <3> QED
      BY <2>1, <3>1, <3>2 DEF TakeOrWait
  <2>2. CASE Acquire(t) \/ Wake(t)
    BY <2>1, <2>2 DEF Acquire, Wake
  <2>3. CASE SpuriousWake(t)
    BY <1>1, <2>3 DEF SpuriousWake, TypeOK, Goto, poolVars, checkVars
  <2>4. CASE Ping(t)
    BY <1>1, <2>4 DEF Ping, PingOk, PingFails, Connected, TypeOK, Goto, poolVars,
       checkVars
  <2>5. CASE Reconnect(t)
    BY <1>1, <2>5
    DEF Reconnect, Connected, ConnectFailed, TypeOK, Goto, poolVars, checkVars
  <2>6. CASE ReturnOnError(t)
    BY <1>5, <2>6 DEF ReturnOnError
  <2> QED
    BY <1>6, <2>2, <2>3, <2>4, <2>5, <2>6 DEF get_connection
<1>7. ASSUME NEW t \in Threads, deleter(t) PROVE TypeOK'
  <2>1. CASE Release(t)
    BY <1>1, <2>1 DEF Release, TypeOK, Goto, poolVars, checkVars
  <2>2. CASE CleanupReconnect(t)
    BY <1>1, <2>2
    DEF CleanupReconnect, Connected, ConnectFailed, TypeOK, Goto, poolVars, checkVars
  <2>3. CASE ReturnToPool(t)
    BY <1>5, <2>3 DEF ReturnToPool
  <2> QED
    BY <1>7, <2>1, <2>2, <2>3 DEF deleter
<1>8. CASE check_connections
  <2>1. CASE CheckEmpty \/ CheckUnlock
    BY <1>1, <2>1 DEF CheckEmpty, CheckUnlock, TypeOK
  <2>2. CASE CheckSnapshot
    BY <1>1, <2>2 DEF CheckSnapshot, TypeOK, poolVars
  <2>3. CASE CheckPing \/ CheckReconnect
    <3>1. Tail(toCheck) \in Seq(Conns)
      BY <1>1, <1>3, <2>3 DEF CheckPing, CheckReconnect, Control, CheckerSnapshot
    <3> QED
      BY <1>1, <2>3, <3>1
      DEF CheckPing, CheckReconnect, CheckNext, PingOk, PingFails, Connected,
          ConnectFailed, TypeOK, poolVars
  <2> QED
    BY <1>8, <2>1, <2>2, <2>3 DEF check_connections
<1>9. CASE Environment
  <2>1. link' \in [Conns -> LinkStatus]
    BY <1>1, <1>9 DEF Environment, ServerDown, ServerBack, LinkLost, TypeOK
  <2> QED
    BY <1>1, <1>9, <2>1
    DEF Environment, ServerDown, ServerBack, LinkLost, TypeOK, poolVars, checkVars
<1>10. CASE Destroy
  BY <1>1, <1>10, EmptySeq DEF Destroy, TypeOK
<1>11. CASE UNCHANGED vars
  BY <1>1, <1>11 DEF vars, TypeOK
<1> QED
  BY <1>4, <1>6, <1>7, <1>8, <1>9, <1>10, <1>11 DEF Next

(***************************************************************************)
(* Only init creates connection objects and only the destructor destroys   *)
(* them: every other change of a link is between existing statuses.        *)
(***************************************************************************)
LEMMA CreatedStable ==
  ASSUME IInv,
         \/ \E t \in Threads : get_connection(t) \/ deleter(t)
         \/ check_connections
         \/ Environment
  PROVE  Created' = Created
<1> USE PoolAssumption DEF Created, LinkStatus
<1>1. TypeOK /\ NoneLost /\ Control
  BY DEF IInv
<1>2. \A t \in Threads : pc[t] \in Holding => held[t] \in Created
  BY <1>1 DEF Control, HoldersHold, NoneLost
<1>3. toCheck # << >> => Head(toCheck) \in Created
  BY <1>1, TailOfInjective DEF TypeOK, Control, CheckerSnapshot
<1>4. ASSUME NEW c \in Created, Connected(c) \/ ConnectFailed(c)
      PROVE  Created' = Created
  BY <1>1, <1>4 DEF Connected, ConnectFailed, TypeOK
<1>5. ASSUME NEW t \in Threads, get_connection(t) \/ deleter(t)
      PROVE  Created' = Created
  <2>1. CASE UNCHANGED link
    BY <2>1
  <2>2. CASE Ping(t)
    BY <1>2, <1>4, <2>2 DEF Ping, PingOk, PingFails, Holding
  <2>3. CASE Reconnect(t)
    BY <1>2, <1>4, <2>3 DEF Reconnect, Holding
  <2>4. CASE CleanupReconnect(t)
    BY <1>2, <1>4, <2>4 DEF CleanupReconnect, Holding
  <2>5. Ping(t) \/ Reconnect(t) \/ CleanupReconnect(t) \/ UNCHANGED link
    BY <1>5
    DEF get_connection, deleter, Acquire, Wake, SpuriousWake, ReturnOnError, Release,
        ReturnToPool, PushAndNotify
  <2> QED
    BY <2>1, <2>2, <2>3, <2>4, <2>5
<1>6. CASE check_connections
  <2>1. CASE CheckPing \/ CheckReconnect
    BY <1>1, <1>3, <1>4, <2>1
    DEF CheckPing, CheckReconnect, PingOk, PingFails, Control, CheckerSnapshot
  <2>2. CASE CheckEmpty \/ CheckUnlock \/ CheckSnapshot
    BY <2>2 DEF CheckEmpty, CheckUnlock, CheckSnapshot
  <2> QED
    BY <1>6, <2>1, <2>2 DEF check_connections
<1>7. CASE Environment
  <2>1. \A c \in Conns : link'[c] = link[c] \/ (link'[c] = "dead" /\ Alive(c))
    BY <1>1, <1>7 DEF Environment, ServerDown, ServerBack, LinkLost, TypeOK
  <2> QED
    BY <2>1 DEF Alive
<1> QED
  BY <1>5, <1>6, <1>7

(***************************************************************************)
(* Every step keeps program counters, the lock, the phase of init and the  *)
(* checker's snapshot consistent with each other.                          *)
(***************************************************************************)
LEMMA ControlStep ==
  ASSUME IInv, [Next]_vars
  PROVE  Control'
<1> USE PoolAssumption
    DEF Control, HoldersHold, LockHolders, BeforeOpen, InitInProgress, Exited,
        CheckerSnapshot, Holding, NoConn
<1>1. TypeOK /\ Control /\ NoneLost
  BY DEF IInv
<1>2. /\ pc \in [Threads -> ThreadPc] /\ held \in [Threads -> Conns \cup {NoConn}]
      /\ slot \in Nat /\ connections \in Seq(Conns) /\ toCheck \in Seq(Conns)
      /\ Conns = 1 .. PoolSize
  BY <1>1 DEF TypeOK, Conns
<1>3. /\ connections # << >> => /\ Head(connections) \in Conns
                                /\ Range(Tail(connections)) \subseteq Range(connections)
      /\ toCheck # << >> => Range(Tail(toCheck)) \subseteq Range(toCheck)
      /\ Len(toCheck) # 1 /\ toCheck # << >> => Tail(toCheck) # << >>
  <2>1. ASSUME toCheck # << >>, Len(toCheck) # 1 PROVE Tail(toCheck) # << >>
    <3>1. Len(Tail(toCheck)) # 0
      BY <1>2, <2>1, TailOfInjective
    <3> QED
      BY <3>1, EmptyRange
  <2> QED
    BY <1>2, <2>1, TailOfInjective
<1>4. ASSUME NEW t \in Threads, init(t) PROVE Control'
  <2>1. CASE InitBegin(t)
    <3>1. connections = << >> /\ Range(connections) = {}
      BY <1>1, <2>1, EmptyRange DEF InitBegin, Exited
    <3>2. \A u \in Threads : mutex # u
      BY <2>1 DEF InitBegin
    <3> QED
      BY <1>1, <1>2, <2>1, <3>1, <3>2 DEF InitBegin, Goto, checkVars, Created
  <2>2. CASE InitCreate(t)
    <3>1. /\ Range(connections') = Range(connections) \cup {slot + 1}
          /\ slot + 1 \in Conns
      BY <1>1, <1>2, <2>2, AppendNew, SMTT(30) DEF InitCreate, TypeOK
    <3>2. Created \subseteq Created'
      BY <1>1, <2>2 DEF InitCreate, Connected, Created, TypeOK
    <3>3. Range(connections) \subseteq Conns
      BY <1>2, RangeOfSeq
    <3> QED
      BY <1>1, <1>2, <2>2, <3>1, <3>2, <3>3 DEF InitCreate, checkVars
  <2>3. CASE InitCreateFails(t)
    <3>1. Range(connections) \subseteq Conns
      BY <1>2, RangeOfSeq
    <3> QED
      BY <1>1, <1>2, <2>3, <3>1 DEF InitCreateFails, checkVars, Created
  <2>4. CASE InitEnd(t)
    BY <1>1, <1>2, <2>4 DEF InitEnd, Goto, checkVars, Created
  <2> QED
    BY <1>4, <2>1, <2>2, <2>3, <2>4 DEF init
<1>5. ASSUME NEW t \in Threads, PushAndNotify(t), pc[t] \in Holding PROVE Control'
  <2>1. initialized /\ chk # "exited"
    BY <1>1, <1>2, <1>5
  <2>2. Created' = Created
    BY <1>5 DEF PushAndNotify, Created
  <2> QED
    BY <1>1, <1>2, <1>5, <2>1, <2>2 DEF PushAndNotify, Goto, checkVars, Waiting
<1>6. ASSUME NEW t \in Threads, get_connection(t) PROVE Control'
  <2>1. ASSUME TakeOrWait(t), pc[t] = "idle" \/ pc[t] = "woken", initialized,
               UNCHANGED <<initialized, mutex, slot, link, checkVars, serverUp>>
        PROVE  Control'
    <3>1. chk # "exited" /\ mutex \notin Threads /\ pc[t] # "init"
      BY <1>1, <2>1
    <3>2. CASE connections # << >> /\ held' = [held EXCEPT ![t] = Head(connections)]
               /\ Goto(t, "ping")
      <4>1. Head(connections) # NoConn
        BY <1>2, <1>3, <3>2
      <4> QED
        BY <1>1, <1>2, <2>1, <3>1, <3>2, <4>1 DEF Goto, checkVars, Created
    <3>3. CASE Goto(t, "waiting") /\ UNCHANGED held
      BY <1>1, <1>2, <2>1, <3>1, <3>3 DEF Goto, checkVars, Created
    <3> QED
      BY <2>1, <3>2, <3>3 DEF TakeOrWait
  <2>2. CASE Acquire(t)
    BY <2>1, <2>2 DEF Acquire
  <2>3. CASE Wake(t)
    <3>1. initialized
      BY <1>1, <2>3 DEF Wake
    <3> QED
      BY <2>1, <2>3, <3>1 DEF Wake
  <2>4. CASE SpuriousWake(t)
    BY <1>1, <1>2, <2>4 DEF SpuriousWake, Goto, poolVars, checkVars, Created
  <2>5. CASE Ping(t) \/ Reconnect(t)
    <3>1. Created' = Created
      BY <1>6, CreatedStable
    <3> QED
      BY <1>1, <1>2, <2>5, <3>1 DEF Ping, Reconnect, Goto, poolVars, checkVars
  <2>6. CASE ReturnOnError(t)
    BY <1>5, <2>6 DEF ReturnOnError
  <2> QED
    BY <1>6, <2>2, <2>3, <2>4, <2>5, <2>6 DEF get_connection
<1>7. ASSUME NEW t \in Threads, deleter(t) PROVE Control'
  <2>1. CASE Release(t) \/ CleanupReconnect(t)
    <3>1. Created' = Created
      BY <1>7, CreatedStable
    <3> QED
      BY <1>1, <1>2, <2>1, <3>1 DEF Release, CleanupReconnect, Goto, poolVars, checkVars
  <2>2. CASE ReturnToPool(t)
    BY <1>5, <2>2 DEF ReturnToPool
  <2> QED
    BY <1>7, <2>1, <2>2 DEF deleter
<1>8. CASE check_connections
  <2>1. Created' = Created
    BY <1>8, CreatedStable
  <2>2. CASE CheckEmpty \/ CheckUnlock
    BY <1>1, <1>2, <2>1, <2>2 DEF CheckEmpty, CheckUnlock
  <2>3. CASE CheckSnapshot
    BY <1>1, <1>2, <2>1, <2>3 DEF CheckSnapshot, NoneLost, poolVars
  <2>4. CASE CheckPing \/ CheckReconnect
    <3>1. /\ Range(toCheck') \subseteq Created
          /\ chk' \in {"ping", "reconnect"} => toCheck' # << >>
          /\ chk' \notin {"locked", "exited"}
      BY <1>1, <1>2, <1>3, <2>4 DEF CheckPing, CheckReconnect, CheckNext
    <3>2. chk \notin {"locked", "exited"} /\ UNCHANGED <<poolVars, pc, held>>
      BY <2>4 DEF CheckPing, CheckReconnect
    <3> QED
      BY <1>1, <1>2, <2>1, <3>1, <3>2 DEF poolVars
  <2> QED
    BY <1>8, <2>2, <2>3, <2>4 DEF check_connections
<1>9. CASE Environment
  <2>1. Created' = Created
    BY <1>9, CreatedStable
  <2> QED
    BY <1>1, <1>2, <1>9, <2>1
    DEF Environment, ServerDown, ServerBack, LinkLost, poolVars, checkVars
<1>10. CASE Destroy
  BY <1>1, <1>2, <1>10, EmptyRange DEF Destroy
<1>11. CASE UNCHANGED vars
  BY <1>1, <1>11 DEF vars, Created
<1> QED
  BY <1>4, <1>6, <1>7, <1>8, <1>9, <1>10, <1>11 DEF Next

(***************************************************************************)
(* What the steps on the queue do to the sets the ownership invariant      *)
(* speaks of: nobody's connection changes but t's.                         *)
(***************************************************************************)
LEMMA TakeEffect ==
  ASSUME IInv, NEW t \in Threads, Acquire(t) \/ Wake(t)
  PROVE  \/ /\ held' = [held EXCEPT ![t] = Head(connections)]
            /\ Head(connections) \in Range(connections)
            /\ held[t] = NoConn
            /\ initialized /\ chk # "exited"
            /\ Range(connections') = Range(connections) \ {Head(connections)}
            /\ IsInjective(connections')
         \/ UNCHANGED <<held, connections>>
<1>1. TypeOK /\ Control /\ IsInjective(connections)
  BY DEF IInv, ExclusiveOwner
<1>2. connections \in Seq(Conns)
  BY <1>1 DEF TypeOK
<1>3. held[t] = NoConn /\ initialized /\ chk # "exited"
  BY <1>1
  DEF Acquire, Wake, Control, HoldersHold, BeforeOpen, Exited, Holding, TypeOK, NoConn,
     Conns
<1>4. CASE connections # << >>
  <2>1. /\ Head(connections) \in Range(connections)
        /\ IsInjective(Tail(connections))
        /\ Range(Tail(connections)) = Range(connections) \ {Head(connections)}
    BY <1>1, <1>2, <1>4, TailOfInjective
  <2> QED
    BY <1>3, <1>4, <2>1 DEF Acquire, Wake, TakeOrWait
<1>5. CASE connections = << >>
  BY <1>5 DEF Acquire, Wake, TakeOrWait
<1> QED
  BY <1>4, <1>5

(***************************************************************************)
(* What the deleter and the error path do to ownership: the connection the *)
(* thread held is at the end of the queue and in nobody's hands.           *)
(***************************************************************************)
LEMMA PushEffect ==
  ASSUME IInv, NEW t \in Threads, ReturnOnError(t) \/ ReturnToPool(t)
  PROVE  /\ held' = [held EXCEPT ![t] = NoConn]
         /\ held[t] \in Conns /\ held[t] \notin Range(connections)
         /\ initialized /\ chk # "exited"
         /\ Range(connections') = Range(connections) \cup {held[t]}
         /\ IsInjective(connections')
         /\ Len(connections') = Len(connections) + 1
<1>1. TypeOK /\ Control /\ ExclusiveOwner
  BY DEF IInv
<1>2. connections \in Seq(Conns) /\ IsInjective(connections)
  BY <1>1 DEF TypeOK, ExclusiveOwner
<1>3. /\ held[t] \in Conns /\ held[t] \notin Range(connections)
      /\ initialized /\ chk # "exited"
  BY <1>1
  DEF ReturnOnError, ReturnToPool, Control, HoldersHold, BeforeOpen, Exited, Holding,
     TypeOK,
      ExclusiveOwner, NoConn
<1>4. /\ Range(Append(connections, held[t])) = Range(connections) \cup {held[t]}
      /\ IsInjective(Append(connections, held[t]))
      /\ Len(Append(connections, held[t])) = Len(connections) + 1
  BY <1>2, <1>3, AppendNew
<1> QED
  BY <1>3, <1>4 DEF ReturnOnError, ReturnToPool, PushAndNotify

(***************************************************************************)
(* Every step keeps the connections in exactly one place: none in two      *)
(* hands (ExclusiveOwner), none in no place (NoneLost).                    *)
(***************************************************************************)
LEMMA OwnerStep ==
  ASSUME IInv, [Next]_vars
  PROVE  ExclusiveOwner' /\ NoneLost'
<1> USE DEF ExclusiveOwner, NoneLost
<1>1. TypeOK /\ Control /\ ExclusiveOwner /\ NoneLost
  BY DEF IInv
<1>2. held \in [Threads -> Conns \cup {NoConn}] /\ NoConn \notin Conns
  BY <1>1 DEF TypeOK, NoConn, Conns
<1>3. ASSUME UNCHANGED <<connections, held>>, Created' = Created
      PROVE  ExclusiveOwner' /\ NoneLost'
  BY <1>1, <1>3
<1>4. ASSUME NEW t \in Threads, init(t) PROVE ExclusiveOwner' /\ NoneLost'
  <2>1. CASE InitCreate(t)
    <3>1. /\ \A u \in Threads : held[u] = NoConn
          /\ \A c \in Range(connections) : c <= slot
          /\ slot \in Nat /\ slot + 1 \in Conns
      <4>1. pc[t] = "init" /\ slot < PoolSize
        BY <2>1 DEF InitCreate
      <4>2. ~initialized /\ chk # "exited"
        BY <1>1, <4>1 DEF Control, LockHolders, InitInProgress
      <4>3. \A u \in Threads : held[u] = NoConn
        BY <1>1, <4>2 DEF Control, BeforeOpen, HoldersHold, Holding
      <4>4. \A c \in Range(connections) : c <= slot
        BY <1>1, <4>2 DEF Control, BeforeOpen
      <4>5. slot \in Nat /\ slot + 1 \in Conns
        BY <1>1, <4>1, PoolAssumption DEF TypeOK, Conns
      <4> QED
        BY <4>3, <4>4, <4>5
    <3>2. slot + 1 \notin Range(connections)
      BY <3>1
    <3>3. /\ Range(connections') = Range(connections) \cup {slot + 1}
          /\ IsInjective(connections')
      BY <1>1, <2>1, <3>1, <3>2, AppendNew DEF InitCreate, TypeOK
    <3>4. Created' = Created \cup {slot + 1}
      BY <1>1, <2>1, <3>1 DEF InitCreate, Connected, Created, TypeOK
    <3> QED
      BY <1>1, <1>2, <2>1, <3>1, <3>3, <3>4 DEF InitCreate
  <2>2. CASE InitBegin(t) \/ InitCreateFails(t) \/ InitEnd(t)
    BY <1>3, <2>2 DEF InitBegin, InitCreateFails, InitEnd, Created
  <2> QED
    BY <1>4, <2>1, <2>2 DEF init
<1>5. ASSUME NEW t \in Threads, get_connection(t) \/ deleter(t)
      PROVE  ExclusiveOwner' /\ NoneLost'
  <2>1. Created' = Created
    BY <1>5, CreatedStable
  <2>2. CASE Acquire(t) \/ Wake(t)
    <3>1. CASE UNCHANGED <<held, connections>>
      BY <1>3, <2>1, <3>1
    <3>2. CASE /\ held' = [held EXCEPT ![t] = Head(connections)]
               /\ Head(connections) \in Range(connections)
               /\ held[t] = NoConn
               /\ Range(connections') = Range(connections) \ {Head(connections)}
               /\ IsInjective(connections')
      <4>1. Head(connections) # NoConn
        BY <1>1, <1>2, <3>2, RangeOfSeq DEF TypeOK
      <4>2. \A u \in Threads : held'[u] = IF u = t THEN Head(connections) ELSE held[u]
        BY <1>2, <3>2
      <4>3. {held'[u] : u \in Threads} \ {NoConn}
              = ({held[u] : u \in Threads} \ {NoConn}) \cup {Head(connections)}
        BY <3>2, <4>1, <4>2
      <4> QED
        BY <1>1, <1>2, <2>1, <3>2, <4>1, <4>2, <4>3
    <3> QED
      BY <2>2, <3>1, <3>2, TakeEffect
  <2>3. CASE ReturnOnError(t) \/ ReturnToPool(t)
    <3>1. /\ held' = [held EXCEPT ![t] = NoConn]
          /\ held[t] \in Conns /\ held[t] \notin Range(connections)
          /\ Range(connections') = Range(connections) \cup {held[t]}
          /\ IsInjective(connections')
      BY <2>3, PushEffect
    <3>2. \A u \in Threads : held'[u] = IF u = t THEN NoConn ELSE held[u]
      BY <1>2, <3>1
    <3>3. \A u \in Threads : u # t => held[u] # held[t]
      BY <1>1, <1>2, <3>1
    <3>4. {held'[u] : u \in Threads} \ {NoConn}
            = ({held[u] : u \in Threads} \ {NoConn}) \ {held[t]}
      BY <3>2, <3>3
    <3>5. \A u \in Threads : held'[u] \notin Range(connections')
      <4>1. NoConn \notin Range(connections')
        BY <1>1, <1>2, <3>1, RangeOfSeq DEF TypeOK
      <4> QED
        BY <1>1, <3>1, <3>2, <3>3, <4>1
    <3> QED
      BY <1>1, <1>2, <2>1, <3>1, <3>2, <3>4, <3>5
  <2>4. CASE SpuriousWake(t) \/ Ping(t) \/ Reconnect(t) \/ Release(t) \/ CleanupReconnect(t)
    BY <1>3, <2>1, <2>4
    DEF SpuriousWake, Ping, Reconnect, Release, CleanupReconnect, poolVars
  <2> QED
    BY <1>5, <2>2, <2>3, <2>4 DEF get_connection, deleter
<1>6. CASE check_connections \/ Environment
  <2>1. Created' = Created
    BY <1>6, CreatedStable
  <2>2. UNCHANGED <<connections, held>>
    BY <1>6
    DEF check_connections, CheckEmpty, CheckUnlock, CheckSnapshot, CheckPing,
       CheckReconnect,
        Environment, ServerDown, ServerBack, LinkLost, poolVars
  <2> QED
    BY <1>3, <2>1, <2>2
<1>7. CASE Destroy
  <2>1. \A u \in Threads : held'[u] = NoConn
    BY <1>1, <1>7 DEF Destroy, Control, HoldersHold, Holding
  <2>2. Created' = {}
    BY <1>7 DEF Destroy, Created
  <2> QED
    BY <1>7, <2>1, <2>2, EmptyRange DEF Destroy
<1>8. CASE UNCHANGED vars
  BY <1>3, <1>8 DEF vars, Created
<1> QED
  BY <1>4, <1>5, <1>6, <1>7, <1>8 DEF Next

(***************************************************************************)
(* The inductive invariant holds in every reachable state.                 *)
(***************************************************************************)
LEMMA InvariantHolds == Spec => []IInv
<1>1. Init => IInv
  BY InitEstablishes
<1>2. IInv /\ [Next]_vars => IInv'
  BY TypeStep, ControlStep, OwnerStep DEF IInv
<1> QED
  BY <1>1, <1>2, PTL DEF Spec

(***************************************************************************)
(* Every variable keeps its type, in particular init never creates more    *)
(* than pool_size connections and the checker never reads past its copy.   *)
(***************************************************************************)
THEOREM TypeCorrect == Spec => []TypeOK
<1>1. IInv => TypeOK
  BY DEF IInv
<1> QED
  BY <1>1, InvariantHolds, PTL

(***************************************************************************)
(* get_connection, the deleter, the error path and the checker together    *)
(* never put a connection into two hands.                                  *)
(***************************************************************************)
THEOREM OwnershipIsExclusive == Spec => []ExclusiveOwner
<1>1. IInv => ExclusiveOwner
  BY DEF IInv
<1> QED
  BY <1>1, InvariantHolds, PTL

(***************************************************************************)
(* No path through get_connection and the deleter leaks a connection.      *)
(***************************************************************************)
THEOREM NothingLeaks == Spec => []NoneLost
<1>1. IInv => NoneLost
  BY DEF IInv
<1> QED
  BY <1>1, InvariantHolds, PTL

-----------------------------------------------------------------------------
(* No wakeup is lost.                                                      *)

(***************************************************************************)
(* The awake waiters can be counted: the pool has finitely many callers.   *)
(***************************************************************************)
LEMMA WokenIsFinite == IsFiniteSet(Woken) /\ Cardinality(Woken) \in Nat
BY PoolAssumption, FS_Subset, FS_CardinalityType DEF Woken

(***************************************************************************)
(* Every step keeps the balance between idle connections and threads that  *)
(* are awake to take them.  A push adds one connection and, if somebody is *)
(* blocked, one awake thread; a taker removes one of each; a thread that   *)
(* blocks does so next to an empty queue.                                  *)
(***************************************************************************)
LEMMA WakeupStep ==
  ASSUME IInv, NoLostWakeup, [Next]_vars
  PROVE  NoLostWakeup'
<1> USE DEF NoLostWakeup
<1>1. TypeOK /\ Control
  BY DEF IInv
<1>2. /\ pc \in [Threads -> ThreadPc] /\ connections \in Seq(Conns) /\ Len(connections) \in Nat
      /\ IsFiniteSet(Woken) /\ Cardinality(Woken) \in Nat
  BY <1>1, LenProperties, WokenIsFinite DEF TypeOK
<1>3. ASSUME UNCHANGED connections, Waiting' \subseteq Waiting, Woken' = Woken
      PROVE  NoLostWakeup'
  BY <1>3
<1>4. ASSUME NEW t \in Threads, init(t) PROVE NoLostWakeup'
  <2>1. Waiting' = {}
    <3>1. CASE InitCreate(t) \/ InitCreateFails(t) \/ InitEnd(t)
      BY <1>1, <1>2, <3>1
      DEF InitCreate, InitCreateFails, InitEnd, Goto, Waiting, Control, BeforeOpen,
          InitInProgress, LockHolders
    <3>2. CASE InitBegin(t)
      <4>1. chk # "exited"
        BY <1>1, <3>2 DEF InitBegin, Control, Exited
      <4> QED
        BY <1>1, <1>2, <3>2, <4>1 DEF InitBegin, Goto, Waiting, Control, BeforeOpen
    <3> QED
      BY <1>4, <3>1, <3>2 DEF init
  <2> QED
    BY <2>1
<1>5. ASSUME NEW t \in Threads, Acquire(t) \/ Wake(t) PROVE NoLostWakeup'
  <2>1. CASE connections = << >>
    <3>1. Len(connections') = 0
      BY <1>5, <2>1, EmptyRange DEF Acquire, Wake, TakeOrWait
    <3>2. Cardinality(Woken') \in Nat
      BY <1>5, FS_Subset, FS_CardinalityType, PoolAssumption DEF Woken
    <3> QED
      BY <3>1, <3>2
  <2>2. CASE connections # << >>
    <3>1. Len(connections') = Len(connections) - 1 /\ Len(connections) \in Nat \ {0}
      BY <1>2, <1>5, <2>2, TailOfInjective DEF Acquire, Wake, TakeOrWait
    <3>2. pc' = [pc EXCEPT ![t] = "ping"] /\ pc[t] \in {"idle", "woken"}
      BY <1>5, <2>2 DEF Acquire, Wake, TakeOrWait, Goto
    <3>3. Waiting' = Waiting /\ Woken' = Woken \ {t}
      BY <1>2, <3>2 DEF Waiting, Woken
    <3>4. Cardinality(Woken') >= Cardinality(Woken) - 1
      <4>1. Cardinality(Woken \ {t})
              = IF t \in Woken THEN Cardinality(Woken) - 1 ELSE Cardinality(Woken)
        BY <1>2, FS_RemoveElement
      <4> QED
        BY <1>2, <3>3, <4>1
    <3>5. Cardinality(Woken') \in Nat
      BY <1>2, <3>3, FS_RemoveElement, FS_CardinalityType
    <3> QED
      BY <1>2, <3>1, <3>3, <3>4, <3>5
  <2> QED
    BY <2>1, <2>2
<1>6. ASSUME NEW t \in Threads, SpuriousWake(t) PROVE NoLostWakeup'
  <2>1. t \in Waiting /\ t \notin Woken /\ pc' = [pc EXCEPT ![t] = "woken"]
    BY <1>6 DEF SpuriousWake, Waiting, Woken, Goto
  <2>2. Waiting' \subseteq Waiting /\ Woken' = Woken \cup {t}
    BY <1>2, <2>1 DEF Waiting, Woken
  <2>3. Cardinality(Woken') = Cardinality(Woken) + 1
    BY <1>2, <2>1, <2>2, FS_AddElement
  <2> QED
    BY <1>2, <1>6, <2>1, <2>2, <2>3 DEF SpuriousWake, poolVars
<1>7. ASSUME NEW t \in Threads, ReturnOnError(t) \/ ReturnToPool(t) PROVE NoLostWakeup'
  <2>1. Len(connections') = Len(connections) + 1
    BY <1>7, PushEffect
  <2>2. CASE Waiting = {}
    <3>1. pc' = [pc EXCEPT ![t] = "idle"]
      BY <1>7, <2>2 DEF ReturnOnError, ReturnToPool, PushAndNotify, Goto
    <3>2. Waiting' = {}
      BY <1>2, <2>2, <3>1 DEF Waiting
    <3> QED
      BY <3>2
  <2>3. CASE Waiting # {}
    <3>1. PICK w \in Waiting : pc' = [pc EXCEPT ![t] = "idle", ![w] = "woken"]
      BY <1>7, <2>3 DEF ReturnOnError, ReturnToPool, PushAndNotify
    <3>2. t \notin Waiting /\ t \notin Woken /\ w \in Waiting /\ w \notin Woken /\ w # t
      BY <1>7, <3>1 DEF ReturnOnError, ReturnToPool, Waiting, Woken
    <3>3. Woken' = Woken \cup {w}
      BY <1>2, <3>1, <3>2 DEF Waiting, Woken
    <3>4. Cardinality(Woken') = Cardinality(Woken) + 1
      BY <1>2, <3>2, <3>3, FS_AddElement
    <3> QED
      BY <1>2, <2>1, <2>3, <3>4
  <2> QED
    BY <2>2, <2>3
<1>8. ASSUME NEW t \in Threads,
             Ping(t) \/ Reconnect(t) \/ Release(t) \/ CleanupReconnect(t)
      PROVE  NoLostWakeup'
  <2>1. \E l \in Holding : pc' = [pc EXCEPT ![t] = l] /\ pc[t] \in Holding
    BY <1>8 DEF Ping, Reconnect, Release, CleanupReconnect, Goto, Holding
  <2>2. Waiting' = Waiting /\ Woken' = Woken
    BY <1>2, <2>1 DEF Waiting, Woken, Holding
  <2> QED
    BY <1>3, <1>8, <2>2 DEF Ping, Reconnect, Release, CleanupReconnect, poolVars
<1>9. CASE check_connections \/ Environment \/ UNCHANGED vars
  <2>1. UNCHANGED <<connections, pc>>
    BY <1>9
    DEF check_connections, CheckEmpty, CheckUnlock, CheckSnapshot, CheckPing,
       CheckReconnect,
        Environment, ServerDown, ServerBack, LinkLost, poolVars, vars
  <2> QED
    BY <1>3, <2>1 DEF Waiting, Woken
<1>10. CASE Destroy
  BY <1>10 DEF Destroy, Waiting
<1> QED
  BY <1>4, <1>5, <1>6, <1>7, <1>8, <1>9, <1>10 DEF Next, get_connection, deleter

(***************************************************************************)
(* notify_one after every push is enough: with overtaking newcomers and    *)
(* spurious wakeups, no caller sleeps next to a connection nobody awake is *)
(* about to take.                                                          *)
(***************************************************************************)
THEOREM NoWakeupIsLost == Spec => []NoLostWakeup
<1>1. Init => NoLostWakeup
  BY DEF Init, NoLostWakeup, Waiting
<1>2. IInv /\ NoLostWakeup /\ [Next]_vars => NoLostWakeup'
  BY WakeupStep
<1> QED
  BY <1>1, <1>2, InvariantHolds, PTL DEF Spec

-----------------------------------------------------------------------------
(* Refinement.                                                             *)

(***************************************************************************)
(* Every step of the pool is a step of the abstract pool or changes        *)
(* nothing the abstract pool can see.                                      *)
(***************************************************************************)
LEMMA RefinementStep ==
  ASSUME IInv, [Next]_vars
  PROVE  [Abstract!Next]_Abstract!vars
<1> USE DEF Phase
<1>1. TypeOK /\ Control /\ ExclusiveOwner /\ NoneLost
  BY DEF IInv
<1>2. held \in [Threads -> Conns \cup {NoConn}] /\ connections \in Seq(Conns)
  BY <1>1 DEF TypeOK
<1>3. ASSUME UNCHANGED <<connections, initialized, held>>, (chk = "exited") = (chk' = "exited")
      PROVE  UNCHANGED Abstract!vars
  BY <1>3 DEF Abstract!vars
<1>4. ASSUME NEW t \in Threads, init(t) PROVE [Abstract!Next]_Abstract!vars
  <2>1. CASE InitCreate(t)
    <3>1. slot + 1 \in Conns /\ ~initialized /\ chk # "exited"
      BY <1>1, <2>1, PoolAssumption
      DEF InitCreate, TypeOK, Conns, Control, LockHolders, InitInProgress
    <3>2. slot + 1 \notin Range(connections)
      BY <1>1, <3>1 DEF Control, BeforeOpen, TypeOK
    <3>3. Range(connections') = Range(connections) \cup {slot + 1}
      BY <1>2, <2>1, <3>1, AppendNew DEF InitCreate
    <3>4. Abstract!Add(slot + 1)
      BY <2>1, <3>1, <3>2, <3>3 DEF InitCreate, Abstract!Add, checkVars
    <3> QED
      BY <3>1, <3>4 DEF Abstract!Next
  <2>2. CASE InitEnd(t)
    <3>1. ~initialized /\ chk # "exited"
      BY <1>1, <2>2 DEF InitEnd, Control, LockHolders, InitInProgress
    <3>2. Abstract!Open
      BY <2>2, <3>1 DEF InitEnd, Abstract!Open, checkVars
    <3> QED
      BY <3>2 DEF Abstract!Next
  <2>3. CASE InitBegin(t) \/ InitCreateFails(t)
    BY <1>3, <2>3 DEF InitBegin, InitCreateFails, checkVars
  <2> QED
    BY <1>4, <2>1, <2>2, <2>3 DEF init
<1>5. ASSUME NEW t \in Threads, get_connection(t) \/ deleter(t)
      PROVE  [Abstract!Next]_Abstract!vars
  <2>1. CASE Acquire(t) \/ Wake(t)
    <3>1. initialized' = initialized /\ chk' = chk
      BY <2>1 DEF Acquire, Wake, checkVars
    <3>2. CASE UNCHANGED <<held, connections>>
      BY <1>3, <3>1, <3>2
    <3>3. CASE /\ held' = [held EXCEPT ![t] = Head(connections)]
               /\ Head(connections) \in Range(connections)
               /\ held[t] = NoConn
               /\ initialized /\ chk # "exited"
               /\ Range(connections') = Range(connections) \ {Head(connections)}
      <4>1. Abstract!Grant(t, Head(connections))
        BY <3>1, <3>3 DEF Abstract!Grant
      <4>2. Head(connections) \in Conns
        BY <1>2, <3>3, RangeOfSeq
      <4> QED
        BY <4>1, <4>2 DEF Abstract!Next
    <3> QED
      BY <2>1, <3>2, <3>3, TakeEffect
  <2>2. CASE ReturnOnError(t) \/ ReturnToPool(t)
    <3>1. initialized' = initialized /\ chk' = chk
      BY <2>2 DEF ReturnOnError, ReturnToPool, PushAndNotify, checkVars
    <3>2. held[t] # NoConn
      BY <2>2, PushEffect DEF Conns, NoConn
    <3>3. Abstract!GiveBack(t)
      BY <2>2, <3>1, <3>2, PushEffect DEF Abstract!GiveBack
    <3> QED
      BY <3>3 DEF Abstract!Next
  <2>3. CASE SpuriousWake(t) \/ Ping(t) \/ Reconnect(t) \/ Release(t) \/ CleanupReconnect(t)
    BY <1>3, <2>3
    DEF SpuriousWake, Ping, Reconnect, Release, CleanupReconnect, poolVars, checkVars
  <2> QED
    BY <1>5, <2>1, <2>2, <2>3 DEF get_connection, deleter
<1>6. CASE check_connections
  <2>1. (chk = "exited") = (chk' = "exited")
    BY <1>6
    DEF check_connections, CheckEmpty, CheckUnlock, CheckSnapshot, CheckPing,
       CheckReconnect,
        CheckNext
  <2> QED
    BY <1>3, <1>6, <2>1
    DEF check_connections, CheckEmpty, CheckUnlock, CheckSnapshot, CheckPing,
       CheckReconnect,
        poolVars
<1>7. CASE Environment
  BY <1>3, <1>7
  DEF Environment, ServerDown, ServerBack, LinkLost, poolVars, checkVars
<1>8. CASE Destroy
  <2>1. \A u \in Threads : held[u] = NoConn
    BY <1>1, <1>8 DEF Destroy, Control, HoldersHold, Holding
  <2>2. Abstract!Close
    BY <1>8, <2>1, EmptyRange DEF Destroy, Abstract!Close
  <2> QED
    BY <2>2 DEF Abstract!Next
<1>9. CASE UNCHANGED vars
  BY <1>3, <1>9 DEF vars
<1> QED
  BY <1>4, <1>5, <1>6, <1>7, <1>8, <1>9 DEF Next

(***************************************************************************)
(* The queue, the lock, the condition variable, the error path and the     *)
(* health checker implement the abstract pool of exclusively owned         *)
(* resources whose population is fixed once the pool is open.              *)
(***************************************************************************)
THEOREM PoolImplementsResourcePool == Spec => ImplementsResourcePool
<1>1. Init => Abstract!Init
  BY EmptyRange DEF Init, Abstract!Init, Phase
<1>2. IInv /\ [Next]_vars => [Abstract!Next]_Abstract!vars
  BY RefinementStep
<1> QED
  BY <1>1, <1>2, InvariantHolds, PTL DEF Spec, ImplementsResourcePool, Abstract!Spec
=============================================================================
