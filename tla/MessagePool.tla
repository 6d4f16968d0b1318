----------------------------- MODULE MessagePool -----------------------------
(***************************************************************************)
(* The MessagePool of zlog: an array of FreeLists (the buckets), each of   *)
(* which cuts the LogMessages it hands out from one page of memory and     *)
(* keeps those given back in a list.  The list is threaded through the     *)
(* objects themselves: the link to the next one lies where the message     *)
(* was.  Logging composes this module with the loggers that use it.        *)
(*                                                                         *)
(* The critical sections of a FreeList are actions.  A thread that waits   *)
(* on condEmpty_ evaluates its predicate again when it is notified.        *)
(***************************************************************************)
EXTENDS Integers, FiniteSets

CONSTANTS
  Threads,
  Buckets,     (* the indices of messPool_                                 *)
  PageBytes,   (* the bytes of a bucket's page                             *)
  ObjSize,     (* the bytes an object takes                                *)
  Null         (* nullptr                                                  *)

ASSUME PoolAssumption ==
  /\ ObjSize \in Nat \ {0} /\ PageBytes \in Nat /\ PageBytes >= ObjSize
  /\ Null \notin Nat
  /\ IsFiniteSet(Threads) /\ Buckets # {}

VARIABLES
  memory_,      (* of each bucket: where the rest of the page begins ...   *)
  remainBytes_, (* ... and its size                                        *)
  freeList_,    (* of each bucket: the first object of the list            *)
  mem,          (* of each bucket: what lies in the objects of the page    *)
  at,           (* where each thread is                                    *)
  bucket,       (* of each thread: the bucket it uses (threId)             *)
  slot          (* of each thread: the address it got from alloc (msg)     *)

pageVars == <<memory_, remainBytes_, freeList_, mem>>
poolVars == <<pageVars, bucket, slot>>

Addresses == {a \in 0 .. PageBytes - ObjSize : a % ObjSize = 0}

(* What an object holds: nothing yet, a message, or the link of the list.  *)
Blank      == [kind |-> "blank"]
Link(next) == [kind |-> "link", next |-> next]

(* freeList_ has no initializer: a heap that is not fresh leaves an        *)
(* address in it that is none of the page.                                 *)
Wild == PageBytes

PoolInit ==
  /\ memory_ = [b \in Buckets |-> 0]
  /\ remainBytes_ = [b \in Buckets |-> PageBytes]
  /\ freeList_ \in [Buckets -> {Null, Wild}]
  /\ mem = [b \in Buckets |-> [a \in Addresses |-> Blank]]
  /\ bucket \in [Threads -> {CHOOSE b \in Buckets : TRUE}]
  /\ slot = [t \in Threads |-> Null]

(* A new process has a new pool.                                           *)
PoolRestarts ==
  /\ memory_' = [b \in Buckets |-> 0]
  /\ remainBytes_' = [b \in Buckets |-> PageBytes]
  /\ freeList_' \in [Buckets -> {Null, Wild}]
  /\ mem' = [b \in Buckets |-> [a \in Addresses |-> Blank]]
  /\ slot' = [t \in Threads |-> Null]
  /\ UNCHANGED bucket

PoolTypeOK ==
  /\ memory_ \in [Buckets -> 0 .. PageBytes]
  /\ remainBytes_ = [b \in Buckets |-> PageBytes - memory_[b]]
  /\ freeList_ \in [Buckets -> Addresses \cup {Null, Wild}]
  /\ mem = [b \in Buckets |-> [a \in Addresses |-> mem[b][a]]]
  /\ bucket \in [Threads -> Buckets]
  /\ slot \in [Threads -> Addresses \cup {Null}]

-----------------------------------------------------------------------------
(* The predicate of condEmpty_.                                            *)
Available(b) == remainBytes_[b] >= ObjSize \/ freeList_[b] # Null

AllocWaits(t) ==
  /\ at[t] = "alloc" /\ ~Available(bucket[t])
  /\ at' = [at EXCEPT ![t] = "waiting"]
  /\ UNCHANGED poolVars

(* Mutant: the link is not followed.                                       *)
AllocReusesTwice(t) ==
  LET b == bucket[t] IN
  /\ at[t] = "alloc" /\ freeList_[b] \in Addresses
  /\ slot' = [slot EXCEPT ![t] = freeList_[b]]
  /\ at' = [at EXCEPT ![t] = "construct"]
  /\ UNCHANGED <<pageVars, bucket>>

(* The first object of the list, and the list goes on with its link.       *)
AllocReuses(t) ==
  LET b == bucket[t] IN
  /\ at[t] = "alloc" /\ freeList_[b] \in Addresses
  /\ slot' = [slot EXCEPT ![t] = freeList_[b]]
  /\ freeList_' = [freeList_ EXCEPT ![b] = mem[b][freeList_[b]].next]
  /\ at' = [at EXCEPT ![t] = "construct"]
  /\ UNCHANGED <<memory_, remainBytes_, mem, bucket>>

(* Mutant: the page is cut while there is anything left of it.             *)
AllocCutsRest(t) ==
  LET b == bucket[t] IN
  /\ at[t] = "alloc" /\ freeList_[b] = Null /\ remainBytes_[b] > 0
  /\ slot' = [slot EXCEPT ![t] = memory_[b]]
  /\ memory_' = [memory_ EXCEPT ![b] = @ + ObjSize]
  /\ remainBytes_' = [remainBytes_ EXCEPT ![b] = @ - ObjSize]
  /\ at' = [at EXCEPT ![t] = "construct"]
  /\ UNCHANGED <<freeList_, mem, bucket>>

(* An object is cut from the page.                                         *)
AllocCuts(t) ==
  LET b == bucket[t] IN
  /\ at[t] = "alloc" /\ freeList_[b] = Null /\ remainBytes_[b] >= ObjSize
  /\ slot' = [slot EXCEPT ![t] = memory_[b]]
  /\ memory_' = [memory_ EXCEPT ![b] = @ + ObjSize]
  /\ remainBytes_' = [remainBytes_ EXCEPT ![b] = @ - ObjSize]
  /\ at' = [at EXCEPT ![t] = "construct"]
  /\ UNCHANGED <<freeList_, mem, bucket>>

(* The uninitialized list is followed: the program crashes.                *)
AllocCrashes(t) ==
  /\ at[t] = "alloc" /\ freeList_[bucket[t]] = Wild
  /\ at' = [u \in Threads |-> "crashed"]
  /\ UNCHANGED poolVars

AllocObject(t) == AllocWaits(t) \/ AllocReuses(t) \/ AllocCuts(t) \/ AllocCrashes(t)

(* The placement new of MessagePool::alloc, outside of the lock.           *)
Construct(t, message) ==
  /\ at[t] = "construct"
  /\ mem' = [mem EXCEPT ![bucket[t]][slot[t]] = message]
  /\ at' = [at EXCEPT ![t] = "format"]
  /\ UNCHANGED <<memory_, remainBytes_, freeList_, bucket, slot>>

Waiting(b) == {t \in Threads : at[t] = "waiting" /\ bucket[t] = b}

(* Mutant: nobody is notified.                                             *)
NotifyNone(b, after) == at' = after

(* notify_one wakes one of the waiting threads, if there is one.           *)
Notify(b, after) ==
  \/ \E w \in Waiting(b) : at' = [after EXCEPT ![w] = "alloc"]
  \/ Waiting(b) = {} /\ at' = after

(* dealloc: the destructor does nothing, then the object joins the list.   *)
Dealloc(t) ==
  LET b == bucket[t] IN
  /\ at[t] = "dealloc"
  /\ mem' = [mem EXCEPT ![b][slot[t]] = Link(freeList_[b])]
  /\ freeList_' = [freeList_ EXCEPT ![b] = slot[t]]
  /\ slot' = [slot EXCEPT ![t] = Null]
  /\ Notify(b, [at EXCEPT ![t] = "log"])
  /\ UNCHANGED <<memory_, remainBytes_, bucket>>

-----------------------------------------------------------------------------
(* The objects of a bucket that threads hold.                              *)
Held(b) == {slot[t] : t \in {u \in Threads : slot[u] # Null /\ bucket[u] = b}}

(* Where a list goes on behind the object at a, if m is in the memory.     *)
Behind(m, a) == IF a \in Addresses /\ m[a].kind = "link" THEN m[a].next ELSE Null

Holds(S, first, m) ==
  /\ first # Null => first \in S
  /\ \A a \in S : Behind(m, a) # Null => Behind(m, a) \in S

(* What a list that begins with first consists of: the least set that      *)
(* holds first and the object behind each of its own.                      *)
Pointers == Addresses \cup {Wild}
ListOf(first, m) == {a \in Pointers : \A S \in SUBSET Pointers : Holds(S, first, m) => a \in S}

ListFrom(b) == ListOf(freeList_[b], mem[b])

(***************************************************************************)
(* Every object that was cut from a page belongs to exactly one: a thread  *)
(* of that bucket, which nobody shares it with, or the bucket's list,      *)
(* though the list is kept in the objects and a thread writes into its     *)
(* object outside of the lock.  (If freeList_ starts out as garbage, the   *)
(* first alloc of the bucket ends the program.)                            *)
(***************************************************************************)
ObjectsExclusive ==
  \A b \in Buckets : freeList_[b] # Wild =>
    /\ Held(b) \cup ListFrom(b) = {a \in Addresses : a < memory_[b]}
    /\ Held(b) \cap ListFrom(b) = {}
    /\ \A t, u \in Threads :
         bucket[t] = b /\ bucket[u] = b /\ slot[t] # Null /\ slot[t] = slot[u] => t = u

(***************************************************************************)
(* notify_one per object given back is enough: while threads wait in a     *)
(* bucket, there are not more free objects in it than threads on their way *)
(* to take one, whoever else comes to take them first.                     *)
(***************************************************************************)
NoLostWakeup ==
  \A b \in Buckets : Waiting(b) # {} =>
    Cardinality(ListFrom(b)) + remainBytes_[b] \div ObjSize
      <= Cardinality({t \in Threads : at[t] = "alloc" /\ bucket[t] = b})
=============================================================================
