---------------------------- MODULE LoggingProofs ----------------------------
(***************************************************************************)
(* Proofs about Logging and the MessagePool in it, for any threads,        *)
(* buckets, page and object sizes, loggers, patterns and calls.            *)
(***************************************************************************)
EXTENDS Logging, SequenceTheorems, FiniteSetTheorems, WellFoundedInduction, TLAPS

(***************************************************************************)
(* The page is cut into whole objects, and links stay in it.               *)
(***************************************************************************)
LinksStay(m) == \A a \in Addresses : Behind(m, a) \in Pointers \cup {Null}

PagesAreWhole ==
  \A b \in Buckets : memory_[b] % ObjSize = 0 /\ LinksStay(mem[b])

(***************************************************************************)
(* A thread holds an object from alloc to dealloc.                         *)
(***************************************************************************)
SlotsInUse ==
  /\ at \in [Threads -> {"idle", "alloc", "waiting", "construct", "format", "dealloc",
                         "log", "crashed"}]
  /\ \A t \in Threads : /\ at[t] \in {"idle", "alloc", "waiting", "log"} => slot[t] = Null
                        /\ at[t] \in {"construct", "format", "dealloc"} => slot[t] # Null

(* The threads that hold an object of a bucket.                            *)
Holders(b) == {t \in Threads : bucket[t] = b /\ slot[t] # Null}

(***************************************************************************)
(* A list that was not initialized is as it was.                           *)
(***************************************************************************)
WildIsUntouched ==
  \A b \in Buckets : freeList_[b] = Wild =>
    memory_[b] = 0 /\ Holders(b) = {} /\ Waiting(b) = {}

(***************************************************************************)
(* Every object in a list holds a link, and no list comes back to an       *)
(* object that it has passed.                                              *)
(***************************************************************************)
Linked(m, L) == \A a \in L : a \in Addresses /\ m[a].kind = "link"

Acyclic(m, L) == \A a \in L : a \notin ListOf(Behind(m, a), m)

ListsAreStraight ==
  \A b \in Buckets : freeList_[b] # Wild =>
    Linked(mem[b], ListFrom(b)) /\ Acyclic(mem[b], ListFrom(b))

(***************************************************************************)
(* The message that a thread formats is the one that it constructed, and   *)
(* the line that it has made or logged is made of it.                      *)
(***************************************************************************)
MessageOf(t, n, second) ==
  [kind |-> "message", curtime |-> second, payload |-> Calls[t][n].payload, by |-> t]

(* l is a line for call n of thread t, if parsed has the loggers' items and *)
(* formats are the ways in which they write the time.                      *)
IsLineOf(l, parsed, formats, t, n) ==
  LET items == parsed[Calls[t][n].logger]
  IN  \E second \in 0 .. MaxTime : \E time :
        /\ HasTime(items) => \E f \in formats : time = Formatted(f, second)
        /\ l = [i \in DOMAIN items |-> Piece(items[i], MessageOf(t, n, second), time)]

(* e was logged by logger l for a call of the thread that it names.        *)
IsOwn(e, parsed, formats, l) ==
  /\ e.call[1] \in Threads /\ e.call[2] \in DOMAIN Calls[e.call[1]]
  /\ Calls[e.call[1]][e.call[2]].logger = l
  /\ IsLineOf(e.line, parsed, formats, e.call[1], e.call[2])

PatternsInHand ==
  /\ pattern \in Patterns
  /\ items_ = [l \in Loggers |-> parsePattern(pattern[l])]

(* A thread's cache has the second that it is filled for, in one of the    *)
(* loggers' formats.                                                       *)
TimesInHand ==
  /\ last_cached \in [Threads -> (0 .. MaxTime) \cup {Null}]
  /\ cached_time = [t \in Threads |-> cached_time[t]]
  /\ \A t \in Threads : last_cached[t] # Null =>
       \E f \in TimeFormats : cached_time[t] = Formatted(f, last_cached[t])

CallsInHand ==
  /\ now \in 0 .. MaxTime
  /\ made \in [Threads -> Nat]
  /\ \A t \in Threads : /\ made[t] \in 0 .. Len(Calls[t])
                        /\ at[t] \notin {"idle", "crashed"} => made[t] # 0

MessageInHand ==
  \A t \in Threads : at[t] = "format" =>
    \E second \in 0 .. MaxTime : mem[bucket[t]][slot[t]] = MessageOf(t, made[t], second)

LineInHand ==
  /\ line = [t \in Threads |-> line[t]]
  /\ \A t \in Threads : at[t] \in {"dealloc", "log"} =>
       IsLineOf(line[t], items_, TimeFormats, t, made[t])

LogsAreSequences ==
  /\ logged = [l \in Loggers |-> logged[l]]
  /\ \A l \in Loggers : logged[l] \in Seq({logged[l][i] : i \in DOMAIN logged[l]})

LinesAreOwn ==
  \A l \in Loggers : \A i \in DOMAIN logged[l] : IsOwn(logged[l][i], items_, TimeFormats, l)

(***************************************************************************)
(* The files of a sink, and what of them is within maxSize_.               *)
(***************************************************************************)
(* The bytes of a number of lines.                                         *)
SizeOfLines(lines) == Total([k \in DOMAIN lines |-> Bytes(lines[k].line)])

File(W) == [name : (0 .. MaxTime) \X Nat, lines : Seq(W), opened : Nat \ {0}]

NamesDiffer(fs) == \A i, j \in DOMAIN fs : fs[i].name = fs[j].name => i = j

(* A file within maxSize_, or with one line only, which may be longer.     *)
Fits(lines) == SizeOfLines(lines) <= MaxSize \/ Len(lines) <= 1

(* What is in file i, with what the stream still has for it.               *)
Content(fs, o, held, i) == fs[i].lines \o (IF i = o THEN held ELSE << >>)

(* fs are the files of a sink that writes to the o-th of them, whose       *)
(* stream holds some lines, and that has counted size bytes; all lines are *)
(* of W.                                                                   *)
SinkIsRight(W, fs, o, held, size) ==
  /\ fs \in Seq(File(W)) /\ NamesDiffer(fs)
  /\ o \in DOMAIN fs /\ held \in Seq(W) /\ size \in Nat
  /\ \A i \in DOMAIN fs : fs[i].opened = 1 => Fits(Content(fs, o, held, i))
  /\ fs[o].opened = 1 => size = SizeOfLines(Content(fs, o, held, o))

(* What a logger has written.                                              *)
Written(l) == {logged[l][i] : i \in DOMAIN logged[l]}

SinksInHand ==
  /\ files = [l \in Loggers |-> files[l]] /\ open = [l \in Loggers |-> open[l]]
  /\ ofs_ = [l \in Loggers |-> ofs_[l]]
  /\ curSize_ \in [Loggers -> Nat] /\ nameCount_ \in [Loggers -> Nat]
  /\ \A l \in Loggers : SinkIsRight(Written(l), files[l], open[l], ofs_[l], curSize_[l])
  /\ restarts \in 0 .. MaxRestarts

PoolInv ==
  /\ PoolTypeOK
  /\ SlotsInUse
  /\ PagesAreWhole
  /\ WildIsUntouched
  /\ ListsAreStraight
  /\ ObjectsExclusive
  /\ NoLostWakeup

LogInv ==
  /\ PatternsInHand
  /\ TimesInHand
  /\ CallsInHand
  /\ MessageInHand
  /\ LineInHand
  /\ LogsAreSequences
  /\ LinesAreOwn

IInv == PoolInv /\ LogInv /\ SinksInHand

-----------------------------------------------------------------------------
(* Lists threaded through a memory.                                        *)

(***************************************************************************)
(* The addresses, and what is none.                                        *)
(***************************************************************************)
LEMMA AddressFacts ==
  /\ \A a \in Addresses : a \in Nat /\ a <= PageBytes - ObjSize /\ a % ObjSize = 0
  /\ PageBytes \in Nat /\ ObjSize \in Nat \ {0}
  /\ Null \notin Pointers /\ Addresses \subseteq Pointers /\ Wild \in Pointers
  /\ Wild \notin Addresses /\ Pointers \subseteq 0 .. PageBytes
BY PoolAssumption DEF Addresses, Pointers, Wild

(***************************************************************************)
(* A list contains its first object and the objects behind its own.        *)
(***************************************************************************)
LEMMA ListHolds ==
  ASSUME NEW m, LinksStay(m), NEW first \in Pointers \cup {Null}
  PROVE  Holds(ListOf(first, m), first, m) /\ ListOf(first, m) \subseteq Pointers
<1> DEFINE L == ListOf(first, m)
<1>1. L \subseteq Pointers
  BY DEF ListOf
<1>2. first # Null => first \in L
  BY DEF ListOf, Holds
<1>3. ASSUME NEW a \in L, Behind(m, a) # Null
      PROVE  Behind(m, a) \in L
  <2>1. a \in Pointers
    BY <1>1
  <2>2. Behind(m, a) \in Pointers
    BY <1>3, <2>1 DEF LinksStay, Behind
  <2>3. ASSUME NEW S \in SUBSET Pointers, Holds(S, first, m)
        PROVE  Behind(m, a) \in S
    <3>1. a \in S
      BY <2>3 DEF ListOf
    <3> QED
      BY <1>3, <2>3, <3>1 DEF Holds
  <2> QED
    BY <2>2, <2>3 DEF ListOf
<1> QED
  BY <1>1, <1>2, <1>3 DEF Holds

(***************************************************************************)
(* It is the least such set.                                               *)
(***************************************************************************)
LEMMA ListIsLeast ==
  ASSUME NEW m, NEW first, NEW S \in SUBSET Pointers, Holds(S, first, m)
  PROVE  ListOf(first, m) \subseteq S
BY DEF ListOf

(***************************************************************************)
(* An empty list has nothing in it.                                        *)
(***************************************************************************)
LEMMA ListOfNull ==
  ASSUME NEW m
  PROVE  ListOf(Null, m) = {}
<1>1. Holds({}, Null, m)
  BY DEF Holds
<1> QED
  BY <1>1, ListIsLeast

(***************************************************************************)
(* Another list has its first object and the list behind it.               *)
(***************************************************************************)
LEMMA ListUnfolds ==
  ASSUME NEW m, LinksStay(m), NEW first \in Pointers
  PROVE  ListOf(first, m) = {first} \cup ListOf(Behind(m, first), m)
<1> DEFINE next == Behind(m, first)
           L    == ListOf(first, m)
           T    == ListOf(next, m)
<1>1. next \in Pointers \cup {Null} /\ first # Null
  BY AddressFacts DEF LinksStay, Behind
<1>2. Holds(L, first, m) /\ L \subseteq Pointers
  BY ListHolds
<1>3. Holds(T, next, m) /\ T \subseteq Pointers
  BY <1>1, ListHolds
<1>4. Holds(L, next, m)
  BY <1>1, <1>2 DEF Holds
<1>5. T \subseteq L
  BY <1>2, <1>4, ListIsLeast
<1>6. Holds({first} \cup T, first, m)
  BY <1>3 DEF Holds
<1>7. L \subseteq {first} \cup T
  BY <1>3, <1>6, ListIsLeast
<1>8. first \in L
  BY <1>1, <1>2 DEF Holds
<1> QED
  BY <1>5, <1>7, <1>8

(***************************************************************************)
(* What is written outside of a list leaves the list alone.                *)
(***************************************************************************)
LEMMA ListStays ==
  ASSUME NEW m, NEW n, LinksStay(m), LinksStay(n), NEW first \in Pointers \cup {Null},
         NEW s, s \notin ListOf(first, m), \A a \in Addresses \ {s} : n[a] = m[a]
  PROVE  ListOf(first, n) = ListOf(first, m)
<1> DEFINE L == ListOf(first, m)
           K == ListOf(first, n)
<1>1. \A a : a # s => Behind(n, a) = Behind(m, a)
  BY DEF Behind
<1>2. Holds(L, first, m) /\ L \subseteq Pointers /\ Holds(K, first, n) /\ K \subseteq Pointers
  BY ListHolds
<1>3. Holds(L, first, n)
  BY <1>1, <1>2 DEF Holds
<1>4. K \subseteq L
  BY <1>2, <1>3, ListIsLeast
<1>5. Holds(K, first, m)
  BY <1>1, <1>2, <1>4 DEF Holds
<1>6. L \subseteq K
  BY <1>2, <1>5, ListIsLeast
<1> QED
  BY <1>4, <1>6

(***************************************************************************)
(* A list is part of every list that leads to its first object.            *)
(***************************************************************************)
LEMMA ListWithin ==
  ASSUME NEW m, LinksStay(m), NEW first \in Pointers \cup {Null},
         NEW a \in ListOf(first, m)
  PROVE  ListOf(Behind(m, a), m) \subseteq ListOf(first, m)
<1> DEFINE L == ListOf(first, m)
<1>1. Holds(L, first, m) /\ L \subseteq Pointers
  BY ListHolds
<1>2. Holds(L, Behind(m, a), m)
  BY <1>1 DEF Holds
<1> QED
  BY <1>1, <1>2, ListIsLeast

(***************************************************************************)
(* alloc: the first object leaves the list.                                *)
(***************************************************************************)
LEMMA ListPopped ==
  ASSUME NEW m, LinksStay(m), NEW first \in Pointers, Acyclic(m, ListOf(first, m))
  PROVE  /\ ListOf(Behind(m, first), m) = ListOf(first, m) \ {first}
         /\ first \in ListOf(first, m)
         /\ Acyclic(m, ListOf(Behind(m, first), m))
<1>1. ListOf(first, m) = {first} \cup ListOf(Behind(m, first), m)
  BY ListUnfolds
<1>2. first \notin ListOf(Behind(m, first), m)
  BY <1>1 DEF Acyclic
<1> QED
  BY <1>1, <1>2 DEF Acyclic

(***************************************************************************)
(* dealloc: an object becomes the first one.                               *)
(***************************************************************************)
LEMMA ListPushed ==
  ASSUME NEW m, NEW n, LinksStay(m), LinksStay(n), NEW first \in Pointers \cup {Null},
         NEW s \in Addresses, s \notin ListOf(first, m),
         \A a \in Addresses \ {s} : n[a] = m[a], n[s] = Link(first),
         Linked(m, ListOf(first, m)), Acyclic(m, ListOf(first, m))
  PROVE  /\ ListOf(s, n) = ListOf(first, m) \cup {s}
         /\ Linked(n, ListOf(s, n)) /\ Acyclic(n, ListOf(s, n))
<1> DEFINE L == ListOf(first, m)
<1>1. Behind(n, s) = first /\ n[s].kind = "link" /\ s \in Pointers
  BY AddressFacts DEF Behind, Link
<1>2. ListOf(first, n) = L
  BY ListStays
<1>3. ListOf(s, n) = L \cup {s}
  BY <1>1, <1>2, ListUnfolds
<1>4. Linked(n, L \cup {s})
  BY <1>1 DEF Linked
<1>5. ASSUME NEW a \in L
      PROVE  a \notin ListOf(Behind(n, a), n)
  <2>1. a \in Addresses /\ a # s /\ Behind(n, a) = Behind(m, a)
    BY DEF Linked, Behind
  <2>2. s \notin ListOf(Behind(m, a), m)
    BY ListWithin
  <2>3. Behind(m, a) \in Pointers \cup {Null}
    BY <2>1 DEF LinksStay
  <2>4. ListOf(Behind(m, a), n) = ListOf(Behind(m, a), m)
    BY <2>2, <2>3, ListStays
  <2> QED
    BY <2>1, <2>4 DEF Acyclic
<1>6. s \notin ListOf(Behind(n, s), n)
  BY <1>1, <1>2
<1>7. Acyclic(n, L \cup {s})
  BY <1>5, <1>6 DEF Acyclic
<1> QED
  BY <1>3, <1>4, <1>7

(***************************************************************************)
(* The placement new: what is written into an object that is in no list.   *)
(***************************************************************************)
LEMMA WrittenBeside ==
  ASSUME NEW m, NEW n, LinksStay(m), LinksStay(n), NEW first \in Pointers \cup {Null},
         NEW s \in Addresses, s \notin ListOf(first, m),
         \A a \in Addresses \ {s} : n[a] = m[a],
         Linked(m, ListOf(first, m)), Acyclic(m, ListOf(first, m))
  PROVE  /\ ListOf(first, n) = ListOf(first, m)
         /\ Linked(n, ListOf(first, n)) /\ Acyclic(n, ListOf(first, n))
<1> DEFINE L == ListOf(first, m)
<1>1. ListOf(first, n) = L
  BY ListStays
<1>2. Linked(n, L)
  BY DEF Linked
<1>3. ASSUME NEW a \in L
      PROVE  a \notin ListOf(Behind(n, a), n)
  <2>1. a \in Addresses /\ a # s /\ Behind(n, a) = Behind(m, a)
    BY DEF Linked, Behind
  <2>2. s \notin ListOf(Behind(m, a), m)
    BY ListWithin
  <2>3. Behind(m, a) \in Pointers \cup {Null}
    BY <2>1 DEF LinksStay
  <2>4. ListOf(Behind(m, a), n) = ListOf(Behind(m, a), m)
    BY <2>2, <2>3, ListStays
  <2> QED
    BY <2>1, <2>4 DEF Acyclic
<1> QED
  BY <1>1, <1>2, <1>3 DEF Acyclic

(***************************************************************************)
(* The page holds whole objects: what division says of its bytes.          *)
(***************************************************************************)
LEMMA Divided ==
  ASSUME NEW x \in Nat, NEW d \in Nat \ {0}
  PROVE  x = (d * (x \div d)) + (x % d) /\ x % d \in 0 .. d - 1 /\ x \div d \in Nat
OBVIOUS

(***************************************************************************)
(* Multiples of one number are at least that number apart.                 *)
(***************************************************************************)
LEMMA Multiples ==
  ASSUME NEW d \in Nat \ {0}, NEW p \in Int, NEW q \in Int, p < q
  PROVE  d * p + d <= d * q
OBVIOUS

(***************************************************************************)
(* No object begins between one that begins at x and the next one.         *)
(***************************************************************************)
LEMMA NextObject ==
  ASSUME NEW x \in Nat, NEW d \in Nat \ {0}, x % d = 0
  PROVE  /\ (x + d) % d = 0
         /\ \A y \in Nat : y % d = 0 /\ x <= y /\ y < x + d => y = x
<1> DEFINE q == x \div d
           p == (x + d) \div d
           r == (x + d) % d
<1>1. x = d * q /\ q \in Nat
  BY Divided
<1>2. x + d = d * p + r /\ r \in 0 .. d - 1 /\ p \in Nat
  <2>1. x + d \in Nat
    OBVIOUS
  <2> QED
    BY <2>1, Divided
<1> HIDE DEF q, p, r
<1>3. x + d = d * (q + 1)
  BY <1>1
<1>4. ~(p < q + 1) /\ ~(q + 1 < p)
  BY <1>1, <1>2, <1>3, Multiples
<1>5. r = 0
  BY <1>1, <1>2, <1>3, <1>4
<1>6. ASSUME NEW y \in Nat, y % d = 0, x <= y, y < x + d
      PROVE  y = x
  <2> DEFINE s == y \div d
  <2>1. y = d * s /\ s \in Nat
    BY <1>6, Divided
  <2> HIDE DEF s
  <2>2. ~(s < q) /\ ~(q < s)
    BY <1>1, <1>6, <2>1, Multiples
  <2>3. s = q
    BY <1>1, <2>1, <2>2
  <2> QED
    BY <1>1, <2>1, <2>3
<1> QED
  BY <1>5, <1>6 DEF r

(***************************************************************************)
(* Cutting an object from the rest of a page leaves one less to cut.       *)
(***************************************************************************)
LEMMA ObjectsLeft ==
  ASSUME NEW x \in Nat, NEW d \in Nat \ {0}
  PROVE  /\ x >= d => (x - d) \div d = (x \div d) - 1
         /\ x < d => x \div d = 0
OBVIOUS

-----------------------------------------------------------------------------
(* The types of the pool.                                                  *)

Typed == PoolTypeOK /\ SlotsInUse /\ PagesAreWhole

(***************************************************************************)
(* The types, bucket by bucket and thread by thread.                       *)
(***************************************************************************)
LEMMA TypeFacts ==
  ASSUME Typed
  PROVE  /\ \A b \in Buckets :
              /\ memory_[b] \in 0 .. PageBytes /\ remainBytes_[b] = PageBytes - memory_[b]
              /\ memory_[b] % ObjSize = 0
              /\ freeList_[b] \in Addresses \cup {Null, Wild}
              /\ freeList_[b] \in Pointers \cup {Null}
              /\ DOMAIN mem[b] = Addresses /\ LinksStay(mem[b])
         /\ \A t \in Threads : bucket[t] \in Buckets /\ slot[t] \in Addresses \cup {Null}
         /\ DOMAIN mem = Buckets /\ DOMAIN at = Threads /\ DOMAIN slot = Threads
         /\ DOMAIN memory_ = Buckets /\ DOMAIN freeList_ = Buckets /\ DOMAIN remainBytes_ = Buckets
<1>1. /\ \A b \in Buckets : /\ memory_[b] \in 0 .. PageBytes
                            /\ remainBytes_[b] = PageBytes - memory_[b]
                            /\ freeList_[b] \in Addresses \cup {Null, Wild}
      /\ \A t \in Threads : bucket[t] \in Buckets /\ slot[t] \in Addresses \cup {Null}
      /\ DOMAIN slot = Threads /\ DOMAIN memory_ = Buckets /\ DOMAIN freeList_ = Buckets
      /\ DOMAIN remainBytes_ = Buckets
  BY DEF Typed, PoolTypeOK
<1>2. DOMAIN mem = Buckets /\ \A b \in Buckets : DOMAIN mem[b] = Addresses
  <2>1. mem = [b \in Buckets |-> [a \in Addresses |-> mem[b][a]]]
    BY DEF Typed, PoolTypeOK
  <2> DEFINE f == [b \in Buckets |-> [a \in Addresses |-> mem[b][a]]]
  <2>2. DOMAIN f = Buckets /\ \A b \in Buckets : DOMAIN f[b] = Addresses
    OBVIOUS
  <2>3. mem = f
    BY <2>1
  <2> HIDE DEF f
  <2> QED
    BY <2>2, <2>3
<1>3. \A b \in Buckets : memory_[b] % ObjSize = 0 /\ LinksStay(mem[b])
  BY DEF Typed, PagesAreWhole
<1>4. DOMAIN at = Threads
  BY DEF Typed, SlotsInUse
<1> QED
  BY <1>1, <1>2, <1>3, <1>4, AddressFacts

(***************************************************************************)
(* A memory with one object written is still a memory whose links stay.    *)
(***************************************************************************)
LEMMA MemoryWritten ==
  ASSUME Typed, NEW b \in Buckets, NEW s \in Addresses, NEW v,
         mem' = [mem EXCEPT ![b][s] = v],
         v.kind = "link" => v.next \in Pointers \cup {Null}
  PROVE  /\ mem' = [c \in Buckets |-> [a \in Addresses |-> mem'[c][a]]]
         /\ \A c \in Buckets : LinksStay(mem'[c])
         /\ \A c \in Buckets \ {b} : mem'[c] = mem[c]
         /\ \A a \in Addresses \ {s} : mem'[b][a] = mem[b][a]
         /\ mem'[b][s] = v
<1>1. /\ DOMAIN mem = Buckets /\ \A c \in Buckets : DOMAIN mem[c] = Addresses
      /\ \A c \in Buckets : LinksStay(mem[c])
  BY TypeFacts
<1>2. mem = [c \in Buckets |-> [a \in Addresses |-> mem[c][a]]]
  BY DEF Typed, PoolTypeOK
<1>3. mem' = [mem EXCEPT ![b] = [mem[b] EXCEPT ![s] = v]]
  OBVIOUS
<1>4. mem[b] = [a \in Addresses |-> mem[b][a]]
  <2> DEFINE g == [a \in Addresses |-> mem[b][a]]
  <2>1. [c \in Buckets |-> [a \in Addresses |-> mem[c][a]]][b] = g
    OBVIOUS
  <2> HIDE DEF g
  <2>2. mem[b] = g
    BY <1>2, <2>1
  <2> QED
    BY <2>2 DEF g
<1>5. /\ \A c \in Buckets \ {b} : mem'[c] = mem[c]
      /\ mem'[b] = [mem[b] EXCEPT ![s] = v]
      /\ DOMAIN mem' = Buckets
  BY <1>1, <1>3
<1>6. \A a \in Addresses \ {s} : mem'[b][a] = mem[b][a]
  BY <1>1, <1>5
<1>7. mem'[b][s] = v
  BY <1>1, <1>5
<1>8. \A c \in Buckets : LinksStay(mem'[c])
  <2>1. \A a \in Addresses : Behind(mem'[b], a) \in Pointers \cup {Null}
    <3>1. \A a \in Addresses \ {s} : Behind(mem'[b], a) = Behind(mem[b], a)
      BY <1>6 DEF Behind
    <3>2. Behind(mem'[b], s) \in Pointers \cup {Null}
      BY <1>7 DEF Behind
    <3> QED
      BY <1>1, <3>1, <3>2 DEF LinksStay
  <2>2. LinksStay(mem'[b])
    BY <2>1 DEF LinksStay
  <2> QED
    BY <1>1, <1>5, <2>2
<1>9. mem' = [c \in Buckets |-> [a \in Addresses |-> mem'[c][a]]]
  <2>1. \A c \in Buckets : mem[c] = [a \in Addresses |-> mem[c][a]]
    <3> TAKE c \in Buckets
    <3> DEFINE g == [a \in Addresses |-> mem[c][a]]
    <3>1. [d \in Buckets |-> [a \in Addresses |-> mem[d][a]]][c] = g
      OBVIOUS
    <3> HIDE DEF g
    <3>2. mem[c] = g
      BY <1>2, <3>1
    <3> QED
      BY <3>2 DEF g
  <2>2. \A c \in Buckets \ {b} : mem'[c] = [a \in Addresses |-> mem'[c][a]]
    BY <1>5, <2>1
  <2>3. mem'[b] = [a \in Addresses |-> mem'[b][a]]
    <3>1. mem'[b] = [a \in Addresses |-> IF a = s THEN v ELSE mem[b][a]]
      BY <1>4, <1>5
    <3> QED
      BY <3>1
  <2>4. mem' = [c \in Buckets |-> mem'[c]]
    BY <1>3, <1>2
  <2>5. \A c \in Buckets : mem'[c] = [a \in Addresses |-> mem'[c][a]]
    BY <2>2, <2>3
  <2> QED
    BY <2>4, <2>5
<1> QED
  BY <1>5, <1>6, <1>7, <1>8, <1>9

(***************************************************************************)
(* The first object of a list that has one holds a link.                   *)
(***************************************************************************)
LEMMA FirstOfList ==
  ASSUME Typed, ListsAreStraight, NEW b \in Buckets, freeList_[b] \in Addresses
  PROVE  /\ freeList_[b] \in ListFrom(b) /\ mem[b][freeList_[b]].kind = "link"
         /\ mem[b][freeList_[b]].next = Behind(mem[b], freeList_[b])
         /\ ListFrom(b) \subseteq Addresses
         /\ Behind(mem[b], freeList_[b]) \in Addresses \cup {Null}
<1>1. freeList_[b] # Wild /\ freeList_[b] # Null /\ freeList_[b] \in Pointers
  BY AddressFacts
<1>2. Linked(mem[b], ListFrom(b))
  BY <1>1 DEF ListsAreStraight
<1>3. Holds(ListFrom(b), freeList_[b], mem[b])
  BY <1>1, TypeFacts, ListHolds DEF ListFrom
<1>4. freeList_[b] \in ListFrom(b)
  BY <1>1, <1>3 DEF Holds
<1>5. ListFrom(b) \subseteq Addresses /\ mem[b][freeList_[b]].kind = "link"
  BY <1>2, <1>4 DEF Linked
<1>6. mem[b][freeList_[b]].next = Behind(mem[b], freeList_[b])
  BY <1>5 DEF Behind
<1>7. Behind(mem[b], freeList_[b]) \in ListFrom(b) \cup {Null}
  BY <1>3, <1>4 DEF Holds
<1> QED
  BY <1>4, <1>5, <1>6, <1>7

(***************************************************************************)
(* What alloc cuts from the page is an object of it.                       *)
(***************************************************************************)
LEMMA FirstOfPage ==
  ASSUME Typed, NEW b \in Buckets, remainBytes_[b] >= ObjSize
  PROVE  memory_[b] \in Addresses /\ memory_[b] + ObjSize \in 0 .. PageBytes
<1>1. /\ memory_[b] \in 0 .. PageBytes /\ remainBytes_[b] = PageBytes - memory_[b]
      /\ memory_[b] % ObjSize = 0
  BY TypeFacts
<1>2. memory_[b] \in 0 .. PageBytes - ObjSize /\ memory_[b] + ObjSize \in 0 .. PageBytes
  BY <1>1, AddressFacts
<1> QED
  BY <1>1, <1>2 DEF Addresses

(***************************************************************************)
(* A step that leaves the pages alone keeps the types, if the threads'     *)
(* places stay as they should.                                             *)
(***************************************************************************)
LEMMA TypesWithoutPages ==
  ASSUME Typed, UNCHANGED <<pageVars, slot>>, bucket' \in [Threads -> Buckets], SlotsInUse'
  PROVE  Typed'
<1>1. UNCHANGED <<memory_, remainBytes_, freeList_, mem, slot>>
  BY DEF pageVars
<1>2. PoolTypeOK'
  BY <1>1 DEF Typed, PoolTypeOK
<1>3. PagesAreWhole'
  BY <1>1 DEF Typed, PagesAreWhole
<1> QED
  BY <1>2, <1>3 DEF Typed

(***************************************************************************)
(* A thread goes on to another place where its slot may be as it is.       *)
(***************************************************************************)
LEMMA PlaceChanged ==
  ASSUME SlotsInUse, NEW t \in Threads,
         NEW x \in {"idle", "alloc", "waiting", "construct", "format", "dealloc", "log"},
         at' = [at EXCEPT ![t] = x],
         \A u \in Threads \ {t} : slot'[u] = slot[u],
         slot'[t] = Null <=> x \in {"idle", "alloc", "waiting", "log"}
  PROVE  SlotsInUse'
BY DEF SlotsInUse

(***************************************************************************)
(* Every operation of the pool keeps the types.                            *)
(***************************************************************************)
LEMMA PoolTypes ==
  ASSUME Typed, ListsAreStraight, NEW t \in Threads
  PROVE  /\ AllocObject(t) => Typed'
         /\ \A message : message.kind = "message" /\ Construct(t, message) => Typed'
         /\ Dealloc(t) => Typed'
<1> DEFINE b == bucket[t]
<1>1. b \in Buckets /\ SlotsInUse /\ bucket \in [Threads -> Buckets]
      /\ slot \in [Threads -> Addresses \cup {Null}] /\ DOMAIN at = Threads
      /\ memory_ \in [Buckets -> 0 .. PageBytes]
      /\ remainBytes_ = [c \in Buckets |-> PageBytes - memory_[c]]
      /\ freeList_ \in [Buckets -> Addresses \cup {Null, Wild}]
      /\ mem = [c \in Buckets |-> [a \in Addresses |-> mem[c][a]]]
  BY TypeFacts DEF Typed, PoolTypeOK
<1>2. Null \notin Addresses /\ \A a \in Addresses : a # Null
  BY AddressFacts
<1> HIDE DEF b
<1>3. CASE AllocWaits(t)
  <2>1. UNCHANGED poolVars /\ at[t] = "alloc" /\ at' = [at EXCEPT ![t] = "waiting"]
    BY <1>3 DEF AllocWaits
  <2>2. UNCHANGED <<pageVars, slot, bucket>> /\ slot[t] = Null
    BY <1>1, <2>1 DEF poolVars, SlotsInUse
  <2>3. SlotsInUse'
    BY <1>1, <2>1, <2>2, PlaceChanged
  <2> QED
    BY <1>1, <2>2, <2>3, TypesWithoutPages
<1>4. CASE AllocCrashes(t)
  <2>1. UNCHANGED <<pageVars, slot, bucket>> /\ at' = [u \in Threads |-> "crashed"]
    BY <1>4 DEF AllocCrashes, poolVars
  <2>2. SlotsInUse'
    BY <2>1 DEF SlotsInUse
  <2> QED
    BY <1>1, <2>1, <2>2, TypesWithoutPages
<1>5. CASE AllocReuses(t)
  <2>1. /\ freeList_[b] \in Addresses /\ at' = [at EXCEPT ![t] = "construct"]
        /\ slot' = [slot EXCEPT ![t] = freeList_[b]]
        /\ freeList_' = [freeList_ EXCEPT ![b] = mem[b][freeList_[b]].next]
        /\ UNCHANGED <<memory_, remainBytes_, mem, bucket>>
    BY <1>5 DEF AllocReuses, b
  <2>2. mem[b][freeList_[b]].next \in Addresses \cup {Null}
    BY <1>1, <2>1, FirstOfList
  <2>3. slot'[t] = freeList_[b] /\ \A u \in Threads \ {t} : slot'[u] = slot[u]
    BY <1>1, <2>1
  <2>4. SlotsInUse'
    BY <1>1, <1>2, <2>1, <2>3, PlaceChanged
  <2>5. /\ freeList_' \in [Buckets -> Addresses \cup {Null, Wild}]
        /\ slot' \in [Threads -> Addresses \cup {Null}]
    BY <1>1, <2>1, <2>2
  <2>6. PoolTypeOK'
    BY <1>1, <2>1, <2>5 DEF PoolTypeOK
  <2>7. PagesAreWhole'
    BY <2>1 DEF Typed, PagesAreWhole
  <2> QED
    BY <2>4, <2>6, <2>7 DEF Typed
<1>6. CASE AllocCuts(t)
  <2>1. /\ remainBytes_[b] >= ObjSize /\ at' = [at EXCEPT ![t] = "construct"]
        /\ slot' = [slot EXCEPT ![t] = memory_[b]]
        /\ memory_' = [memory_ EXCEPT ![b] = @ + ObjSize]
        /\ remainBytes_' = [remainBytes_ EXCEPT ![b] = @ - ObjSize]
        /\ UNCHANGED <<freeList_, mem, bucket>>
    BY <1>6 DEF AllocCuts, b
  <2>2. /\ memory_[b] \in Addresses /\ memory_[b] + ObjSize \in 0 .. PageBytes
        /\ memory_[b] \in Nat /\ memory_[b] % ObjSize = 0 /\ ObjSize \in Nat \ {0}
        /\ PageBytes \in Nat
    BY <1>1, <2>1, FirstOfPage, TypeFacts, AddressFacts
  <2>3. slot'[t] = memory_[b] /\ \A u \in Threads \ {t} : slot'[u] = slot[u]
    BY <1>1, <2>1
  <2>4. SlotsInUse'
    BY <1>1, <1>2, <2>1, <2>2, <2>3, PlaceChanged
  <2>5. /\ memory_' \in [Buckets -> 0 .. PageBytes]
        /\ slot' \in [Threads -> Addresses \cup {Null}]
    BY <1>1, <2>1, <2>2
  <2>6. remainBytes_' = [c \in Buckets |-> PageBytes - memory_'[c]]
    <3>1. \A c \in Buckets : remainBytes_'[c] = PageBytes - memory_'[c]
      <4>1. /\ remainBytes_'[b] = (PageBytes - memory_[b]) - ObjSize
            /\ memory_'[b] = memory_[b] + ObjSize
        BY <1>1, <2>1
      <4>2. remainBytes_'[b] = PageBytes - memory_'[b]
        BY <2>2, <4>1
      <4>3. \A c \in Buckets \ {b} : remainBytes_'[c] = PageBytes - memory_'[c]
        BY <1>1, <2>1
      <4> QED
        BY <4>2, <4>3
    <3>2. remainBytes_' = [c \in Buckets |-> remainBytes_'[c]]
      BY <1>1, <2>1
    <3> QED
      BY <3>1, <3>2
  <2>7. PoolTypeOK'
    BY <1>1, <2>1, <2>5, <2>6 DEF PoolTypeOK
  <2>8. \A c \in Buckets : memory_'[c] % ObjSize = 0 /\ LinksStay(mem'[c])
    <3>1. memory_'[b] % ObjSize = 0
      BY <1>1, <2>1, <2>2, NextObject
    <3>2. \A c \in Buckets \ {b} : memory_'[c] = memory_[c]
      BY <1>1, <2>1
    <3> QED
      BY <2>1, <3>1, <3>2, TypeFacts
  <2> QED
    BY <2>4, <2>7, <2>8 DEF Typed, PagesAreWhole
<1>7. ASSUME NEW message, message.kind = "message", Construct(t, message)
      PROVE  Typed'
  <2>1. /\ at[t] = "construct" /\ mem' = [mem EXCEPT ![b][slot[t]] = message]
        /\ at' = [at EXCEPT ![t] = "format"]
        /\ UNCHANGED <<memory_, remainBytes_, freeList_, bucket, slot>>
    BY <1>7 DEF Construct, b
  <2>2. slot[t] # Null /\ slot[t] \in Addresses
    BY <1>1, <2>1 DEF SlotsInUse
  <2>3. SlotsInUse'
    BY <1>1, <2>1, <2>2, PlaceChanged
  <2>4. message.kind # "link"
    BY <1>7
  <2>5. /\ mem' = [c \in Buckets |-> [a \in Addresses |-> mem'[c][a]]]
        /\ \A c \in Buckets : LinksStay(mem'[c])
    BY <1>1, <2>1, <2>2, <2>4, MemoryWritten
  <2>6. PoolTypeOK'
    BY <1>1, <2>1, <2>5 DEF PoolTypeOK
  <2>7. PagesAreWhole'
    BY <2>1, <2>5, TypeFacts DEF PagesAreWhole
  <2> QED
    BY <2>3, <2>6, <2>7 DEF Typed
<1>8. CASE Dealloc(t)
  <2>1. /\ at[t] = "dealloc" /\ mem' = [mem EXCEPT ![b][slot[t]] = Link(freeList_[b])]
        /\ freeList_' = [freeList_ EXCEPT ![b] = slot[t]]
        /\ slot' = [slot EXCEPT ![t] = Null]
        /\ Notify(b, [at EXCEPT ![t] = "log"])
        /\ UNCHANGED <<memory_, remainBytes_, bucket>>
    BY <1>8 DEF Dealloc, b
  <2>2. slot[t] # Null /\ slot[t] \in Addresses
    BY <1>1, <2>1 DEF SlotsInUse
  <2>3. slot'[t] = Null /\ \A u \in Threads \ {t} : slot'[u] = slot[u]
    BY <1>1, <2>1
  <2>4. SlotsInUse'
    <3>1. CASE at' = [at EXCEPT ![t] = "log"]
      BY <1>1, <2>3, <3>1, PlaceChanged
    <3>2. ASSUME NEW w \in Waiting(b), at' = [[at EXCEPT ![t] = "log"] EXCEPT ![w] = "alloc"]
          PROVE  SlotsInUse'
      <4>1. w \in Threads /\ at[w] = "waiting" /\ w # t /\ slot'[w] = Null
        BY <1>1, <2>1, <2>3 DEF Waiting, SlotsInUse
      <4>2. /\ at'[t] = "log" /\ at'[w] = "alloc" /\ \A u \in Threads \ {t, w} : at'[u] = at[u]
            /\ at' \in [Threads -> {"idle", "alloc", "waiting", "construct", "format",
                                    "dealloc", "log", "crashed"}]
        BY <1>1, <3>2, <4>1 DEF SlotsInUse
      <4> QED
        BY <1>1, <2>3, <4>1, <4>2 DEF SlotsInUse
    <3> QED
      BY <2>1, <3>1, <3>2 DEF Notify
  <2>5. Link(freeList_[b]).next \in Pointers \cup {Null}
    BY <1>1, TypeFacts DEF Link
  <2>6. /\ mem' = [c \in Buckets |-> [a \in Addresses |-> mem'[c][a]]]
        /\ \A c \in Buckets : LinksStay(mem'[c])
    BY <1>1, <2>1, <2>2, <2>5, MemoryWritten
  <2>7. /\ freeList_' \in [Buckets -> Addresses \cup {Null, Wild}]
        /\ slot' \in [Threads -> Addresses \cup {Null}]
    BY <1>1, <2>1, <2>2
  <2>8. PoolTypeOK'
    BY <1>1, <2>1, <2>6, <2>7 DEF PoolTypeOK
  <2>9. PagesAreWhole'
    BY <2>1, <2>6, TypeFacts DEF PagesAreWhole
  <2> QED
    BY <2>4, <2>8, <2>9 DEF Typed
<1> QED
  BY <1>3, <1>4, <1>5, <1>6, <1>7, <1>8 DEF AllocObject

-----------------------------------------------------------------------------
(* Who has which object, bucket by bucket.                                 *)

(* The invariants of one bucket.                                           *)
BucketInv(b) ==
  freeList_[b] # Wild =>
    /\ Linked(mem[b], ListFrom(b)) /\ Acyclic(mem[b], ListFrom(b))
    /\ Held(b) \cup ListFrom(b) = {a \in Addresses : a < memory_[b]}
    /\ Held(b) \cap ListFrom(b) = {}
    /\ \A t, u \in Holders(b) : slot[t] = slot[u] => t = u

(***************************************************************************)
(* The invariants are about each bucket by itself.                         *)
(***************************************************************************)
LEMMA ByBucket ==
  /\ ListsAreStraight /\ ObjectsExclusive <=> \A b \in Buckets : BucketInv(b)
  /\ ListsAreStraight' /\ ObjectsExclusive' <=> \A b \in Buckets : BucketInv(b)'
  /\ \A b \in Buckets : Held(b) = {slot[t] : t \in Holders(b)}
  /\ \A b \in Buckets : Held(b)' = {slot'[t] : t \in Holders(b)'}
BY DEF ListsAreStraight, ObjectsExclusive, BucketInv, Holders, Held

(***************************************************************************)
(* A step that leaves a bucket and its holders alone.                      *)
(***************************************************************************)
LEMMA BucketStays ==
  ASSUME NEW b \in Buckets, BucketInv(b),
         memory_'[b] = memory_[b], freeList_'[b] = freeList_[b], mem'[b] = mem[b],
         Holders(b)' = Holders(b), \A t \in Holders(b) : slot'[t] = slot[t]
  PROVE  BucketInv(b)' /\ ListFrom(b)' = ListFrom(b)
<1>1. ListFrom(b)' = ListFrom(b)
  BY DEF ListFrom
<1>2. Held(b)' = Held(b)
  <2>1. Held(b)' = {slot'[t] : t \in Holders(b)'} /\ Held(b) = {slot[t] : t \in Holders(b)}
    BY ByBucket
  <2> QED
    BY <2>1
<1> QED
  BY <1>1, <1>2 DEF BucketInv

(***************************************************************************)
(* A thread that gets an object.                                           *)
(***************************************************************************)
LEMMA HolderCame ==
  ASSUME NEW t \in Threads, NEW b, b = bucket[t], UNCHANGED bucket, DOMAIN slot = Threads,
         slot[t] = Null, NEW s \in Addresses, slot' = [slot EXCEPT ![t] = s]
  PROVE  /\ Holders(b)' = Holders(b) \cup {t} /\ t \notin Holders(b)
         /\ \A u \in Holders(b) : slot'[u] = slot[u]
         /\ slot'[t] = s /\ Held(b)' = Held(b) \cup {s}
<1>1. slot'[t] = s /\ s # Null /\ \A u \in Threads \ {t} : slot'[u] = slot[u]
  BY AddressFacts
<1>2. Holders(b)' = Holders(b) \cup {t} /\ t \notin Holders(b)
  BY <1>1 DEF Holders
<1>3. \A u \in Holders(b) : slot'[u] = slot[u]
  BY <1>1, <1>2 DEF Holders
<1>4. Held(b)' = {slot'[u] : u \in Holders(b)'} /\ Held(b) = {slot[u] : u \in Holders(b)}
  BY DEF Held, Holders
<1> QED
  BY <1>1, <1>2, <1>3, <1>4

(***************************************************************************)
(* alloc takes the first object of the list.                               *)
(***************************************************************************)
LEMMA BucketReuses ==
  ASSUME Typed, NEW t \in Threads, AllocReuses(t), NEW b \in Buckets, b = bucket[t], BucketInv(b)
  PROVE  BucketInv(b)' /\ ListFrom(b)' = ListFrom(b) \ {freeList_[b]}
         /\ freeList_[b] \in ListFrom(b)
<1> DEFINE first == freeList_[b]
           next  == Behind(mem[b], first)
<1>1. /\ at[t] = "alloc" /\ first \in Addresses
      /\ slot' = [slot EXCEPT ![t] = first]
      /\ freeList_' = [freeList_ EXCEPT ![b] = mem[b][first].next]
      /\ UNCHANGED <<memory_, remainBytes_, mem, bucket>>
  BY DEF AllocReuses
<1>2. slot[t] = Null /\ DOMAIN slot = Threads
  BY <1>1, TypeFacts DEF Typed, SlotsInUse
<1>3. first # Wild /\ first # Null /\ first \in Pointers
  BY <1>1, AddressFacts
<1>4. /\ ListFrom(b) = ListOf(first, mem[b]) /\ LinksStay(mem[b])
      /\ Linked(mem[b], ListFrom(b)) /\ Acyclic(mem[b], ListFrom(b))
  BY <1>3, TypeFacts DEF BucketInv, ListFrom
<1>5. /\ ListOf(next, mem[b]) = ListFrom(b) \ {first}
      /\ first \in ListFrom(b) /\ Acyclic(mem[b], ListOf(next, mem[b]))
  BY <1>3, <1>4, ListPopped
<1>6. mem[b][first].next = next
  BY <1>4, <1>5 DEF Linked, Behind
<1>7. freeList_'[b] = next
  BY <1>1, <1>6, TypeFacts
<1>8. ListFrom(b)' = ListFrom(b) \ {first}
  BY <1>1, <1>5, <1>7 DEF ListFrom
<1>9. /\ Holders(b)' = Holders(b) \cup {t} /\ t \notin Holders(b)
      /\ \A u \in Holders(b) : slot'[u] = slot[u]
      /\ slot'[t] = first /\ Held(b)' = Held(b) \cup {first}
  BY <1>1, <1>2, HolderCame
<1>10. /\ Held(b) \cup ListFrom(b) = {a \in Addresses : a < memory_[b]}
       /\ Held(b) \cap ListFrom(b) = {}
       /\ \A v, u \in Holders(b) : slot[v] = slot[u] => v = u
  BY <1>3 DEF BucketInv
<1>11. \A u \in Holders(b) : slot[u] # first
  BY <1>5, <1>10, ByBucket
<1>12. \A v, u \in Holders(b)' : slot'[v] = slot'[u] => v = u
  BY <1>9, <1>10, <1>11
<1>13. /\ Held(b)' \cup ListFrom(b)' = {a \in Addresses : a < memory_'[b]}
       /\ Held(b)' \cap ListFrom(b)' = {}
  BY <1>1, <1>5, <1>8, <1>9, <1>10
<1>14. Linked(mem'[b], ListFrom(b)') /\ Acyclic(mem'[b], ListFrom(b)')
  BY <1>1, <1>4, <1>5, <1>8 DEF Linked
<1> QED
  BY <1>5, <1>8, <1>12, <1>13, <1>14 DEF BucketInv

(***************************************************************************)
(* alloc cuts an object from the page.                                     *)
(***************************************************************************)
LEMMA BucketCuts ==
  ASSUME Typed, NEW t \in Threads, AllocCuts(t), NEW b \in Buckets, b = bucket[t], BucketInv(b)
  PROVE  BucketInv(b)' /\ ListFrom(b)' = ListFrom(b)
<1> DEFINE s == memory_[b]
<1>1. /\ at[t] = "alloc" /\ freeList_[b] = Null /\ remainBytes_[b] >= ObjSize
      /\ slot' = [slot EXCEPT ![t] = s]
      /\ memory_' = [memory_ EXCEPT ![b] = @ + ObjSize]
      /\ UNCHANGED <<freeList_, mem, bucket>>
  BY DEF AllocCuts
<1>2. slot[t] = Null /\ DOMAIN slot = Threads
  BY <1>1, TypeFacts DEF Typed, SlotsInUse
<1>3. s \in Addresses /\ memory_'[b] = s + ObjSize
  BY <1>1, FirstOfPage, TypeFacts
<1>4. ListFrom(b)' = ListFrom(b) /\ ListFrom(b) = {}
  BY <1>1, ListOfNull DEF ListFrom
<1>5. /\ Holders(b)' = Holders(b) \cup {t} /\ t \notin Holders(b)
      /\ \A u \in Holders(b) : slot'[u] = slot[u]
      /\ slot'[t] = s /\ Held(b)' = Held(b) \cup {s}
  BY <1>1, <1>2, <1>3, HolderCame
<1>6. freeList_[b] # Wild
  BY <1>1, AddressFacts
<1>7. /\ Held(b) = {a \in Addresses : a < s}
      /\ \A v, u \in Holders(b) : slot[v] = slot[u] => v = u
  BY <1>4, <1>6 DEF BucketInv
<1> HIDE DEF s
<1>8. /\ s \in Nat /\ s % ObjSize = 0 /\ ObjSize \in Nat \ {0}
      /\ \A a \in Addresses : a \in Nat /\ a % ObjSize = 0
  BY <1>3, AddressFacts
<1>9. {a \in Addresses : a < s + ObjSize} = {a \in Addresses : a < s} \cup {s}
  <2>1. \A a \in Addresses : a < s + ObjSize => a < s \/ a = s
    BY <1>8, NextObject
  <2>2. \A a \in Addresses : a < s => a < s + ObjSize
    BY <1>8
  <2>3. s < s + ObjSize
    BY <1>8
  <2> QED
    BY <1>3, <2>1, <2>2, <2>3
<1>10. \A u \in Holders(b) : slot[u] # s
  <2>1. \A u \in Holders(b) : slot[u] < s
    BY <1>7, ByBucket
  <2> QED
    BY <1>8, <2>1
<1>11. \A v, u \in Holders(b)' : slot'[v] = slot'[u] => v = u
  BY <1>5, <1>7, <1>10
<1>12. /\ Held(b)' \cup ListFrom(b)' = {a \in Addresses : a < memory_'[b]}
       /\ Held(b)' \cap ListFrom(b)' = {}
  BY <1>3, <1>4, <1>5, <1>7, <1>9
<1>13. Linked(mem'[b], ListFrom(b)') /\ Acyclic(mem'[b], ListFrom(b)')
  BY <1>4 DEF Linked, Acyclic
<1> QED
  BY <1>4, <1>11, <1>12, <1>13 DEF BucketInv

(***************************************************************************)
(* The placement new writes into an object that is in no list.             *)
(***************************************************************************)
LEMMA BucketConstructs ==
  ASSUME Typed, Typed', NEW t \in Threads, NEW message, Construct(t, message),
         NEW b \in Buckets, b = bucket[t], BucketInv(b), message.kind = "message"
  PROVE  BucketInv(b)' /\ (freeList_[b] # Wild => ListFrom(b)' = ListFrom(b))
<1> DEFINE s == slot[t]
<1>1. /\ at[t] = "construct" /\ mem' = [mem EXCEPT ![b][s] = message]
      /\ UNCHANGED <<memory_, remainBytes_, freeList_, bucket, slot>>
  BY DEF Construct
<1>2. s # Null /\ s \in Addresses /\ message.kind # "link"
  BY <1>1, TypeFacts DEF Typed, SlotsInUse
<1>3. \A a \in Addresses \ {s} : mem'[b][a] = mem[b][a]
  BY <1>1, <1>2, MemoryWritten
<1>4. ASSUME freeList_[b] # Wild
      PROVE  BucketInv(b)' /\ ListFrom(b)' = ListFrom(b)
  <2>1. t \in Holders(b) /\ Holders(b)' = Holders(b) /\ Held(b)' = Held(b)
    BY <1>1, <1>2 DEF Holders, Held
  <2>2. s \notin ListFrom(b)
    BY <1>4, <2>1, ByBucket DEF BucketInv
  <2>3. /\ LinksStay(mem[b]) /\ freeList_[b] \in Pointers \cup {Null}
        /\ Linked(mem[b], ListFrom(b)) /\ Acyclic(mem[b], ListFrom(b))
    BY <1>4, TypeFacts DEF BucketInv
  <2>4. LinksStay(mem'[b])
    BY DEF Typed, PagesAreWhole
  <2>5. /\ ListOf(freeList_[b], mem'[b]) = ListFrom(b)
        /\ Linked(mem'[b], ListFrom(b)) /\ Acyclic(mem'[b], ListFrom(b))
    BY <1>2, <1>3, <2>2, <2>3, <2>4, WrittenBeside DEF ListFrom
  <2>6. ListFrom(b)' = ListFrom(b)
    BY <1>1, <2>5 DEF ListFrom
  <2> QED
    BY <1>1, <2>1, <2>5, <2>6 DEF BucketInv
<1> QED
  BY <1>1, <1>4 DEF BucketInv

(***************************************************************************)
(* dealloc puts the thread's object at the front of the list.              *)
(***************************************************************************)
LEMMA BucketTakesBack ==
  ASSUME Typed, Typed', NEW t \in Threads, Dealloc(t), NEW b \in Buckets, b = bucket[t],
         BucketInv(b), freeList_[b] # Wild
  PROVE  BucketInv(b)' /\ ListFrom(b)' = ListFrom(b) \cup {slot[t]} /\ slot[t] \notin ListFrom(b)
<1> DEFINE s == slot[t]
<1>1. /\ at[t] = "dealloc" /\ mem' = [mem EXCEPT ![b][s] = Link(freeList_[b])]
      /\ freeList_' = [freeList_ EXCEPT ![b] = s]
      /\ slot' = [slot EXCEPT ![t] = Null]
      /\ UNCHANGED <<memory_, remainBytes_, bucket>>
  BY DEF Dealloc
<1>2. s # Null /\ s \in Addresses /\ DOMAIN slot = Threads
  BY <1>1, TypeFacts DEF Typed, SlotsInUse
<1>3. Link(freeList_[b]).next \in Pointers \cup {Null}
  BY TypeFacts DEF Link
<1>4. (\A a \in Addresses \ {s} : mem'[b][a] = mem[b][a]) /\ mem'[b][s] = Link(freeList_[b])
  <2> DEFINE v == Link(freeList_[b])
  <2>1. v.next \in Pointers \cup {Null} /\ mem' = [mem EXCEPT ![b][s] = v]
    BY <1>1, <1>3
  <2> HIDE DEF v, s
  <2>2. \A a \in Addresses \ {s} : mem'[b][a] = mem[b][a]
    BY <1>2, <2>1, MemoryWritten
  <2>3. mem'[b][s] = v
    BY <1>2, <2>1, TypeFacts
  <2> QED
    BY <2>2, <2>3 DEF v
<1>5. t \in Holders(b) /\ slot'[t] = Null /\ \A u \in Threads \ {t} : slot'[u] = slot[u]
  BY <1>1, <1>2 DEF Holders
<1>6. Holders(b)' = Holders(b) \ {t}
  BY <1>1, <1>5 DEF Holders
<1>7. /\ Held(b) \cup ListFrom(b) = {a \in Addresses : a < memory_[b]}
      /\ Held(b) \cap ListFrom(b) = {}
      /\ \A v, u \in Holders(b) : slot[v] = slot[u] => v = u
  BY DEF BucketInv
<1>8. Held(b) = {slot[u] : u \in Holders(b)} /\ Held(b)' = {slot'[u] : u \in Holders(b)'}
  BY ByBucket
<1>9. s \in Held(b) /\ Held(b)' = Held(b) \ {s}
  <2>1. s \in Held(b)
    BY <1>5, <1>8
  <2>2. \A u \in Holders(b)' : u \in Holders(b) /\ slot'[u] = slot[u] /\ slot[u] # s
    BY <1>5, <1>6, <1>7 DEF Holders
  <2>3. \A u \in Holders(b) : slot[u] # s => u \in Holders(b)' /\ slot'[u] = slot[u]
    BY <1>5, <1>6 DEF Holders
  <2> QED
    BY <1>8, <2>1, <2>2, <2>3
<1>10. s \notin ListFrom(b)
  BY <1>7, <1>9
<1>11. /\ LinksStay(mem[b]) /\ freeList_[b] \in Pointers \cup {Null}
       /\ Linked(mem[b], ListFrom(b)) /\ Acyclic(mem[b], ListFrom(b))
       /\ LinksStay(mem'[b]) /\ freeList_'[b] = s
  BY <1>1, TypeFacts DEF BucketInv, Typed, PagesAreWhole
<1>12. /\ ListOf(s, mem'[b]) = ListFrom(b) \cup {s}
       /\ Linked(mem'[b], ListOf(s, mem'[b])) /\ Acyclic(mem'[b], ListOf(s, mem'[b]))
  BY <1>2, <1>4, <1>10, <1>11, ListPushed DEF ListFrom
<1>13. ListFrom(b)' = ListFrom(b) \cup {s} /\ ListFrom(b)' = ListOf(s, mem'[b])
  BY <1>11, <1>12 DEF ListFrom
<1>14. \A v, u \in Holders(b)' : slot'[v] = slot'[u] => v = u
  BY <1>5, <1>6, <1>7 DEF Holders
<1>15. /\ Held(b)' \cup ListFrom(b)' = {a \in Addresses : a < memory_'[b]}
       /\ Held(b)' \cap ListFrom(b)' = {}
  BY <1>1, <1>7, <1>9, <1>10, <1>13
<1> QED
  BY <1>10, <1>12, <1>13, <1>14, <1>15 DEF BucketInv

-----------------------------------------------------------------------------
(* Who is woken, bucket by bucket.                                         *)

(* The threads on their way to take an object.                             *)
Takers(b) == {t \in Threads : at[t] = "alloc" /\ bucket[t] = b}

WakeInv(b) ==
  Waiting(b) # {} =>
    Cardinality(ListFrom(b)) + (remainBytes_[b] \div ObjSize) <= Cardinality(Takers(b))

(***************************************************************************)
(* The sets that are counted are finite.                                   *)
(***************************************************************************)
LEMMA Counted ==
  ASSUME Typed, NEW b \in Buckets
  PROVE  /\ IsFiniteSet(ListFrom(b)) /\ Cardinality(ListFrom(b)) \in Nat
         /\ IsFiniteSet(Takers(b)) /\ Cardinality(Takers(b)) \in Nat
         /\ remainBytes_[b] \in Nat /\ ObjSize \in Nat \ {0}
         /\ remainBytes_[b] \div ObjSize \in Nat
<1>1. ListFrom(b) \subseteq 0 .. PageBytes
  BY AddressFacts DEF ListFrom, ListOf
<1>2. IsFiniteSet(0 .. PageBytes)
  BY FS_Interval, AddressFacts
<1>3. IsFiniteSet(ListFrom(b)) /\ Cardinality(ListFrom(b)) \in Nat
  BY <1>1, <1>2, FS_Subset, FS_CardinalityType
<1>4. IsFiniteSet(Takers(b)) /\ Cardinality(Takers(b)) \in Nat
  BY FS_Subset, FS_CardinalityType, PoolAssumption DEF Takers
<1>5. remainBytes_[b] \in Nat /\ ObjSize \in Nat \ {0}
  BY TypeFacts, AddressFacts
<1> QED
  BY <1>3, <1>4, <1>5, Divided

(***************************************************************************)
(* A step that takes no object away from a taker, and adds none.           *)
(***************************************************************************)
LEMMA WakeStays ==
  ASSUME Typed, Typed', NEW b \in Buckets, WakeInv(b),
         Waiting(b) # {} => ListFrom(b)' = ListFrom(b), remainBytes_'[b] = remainBytes_[b],
         Waiting(b)' \subseteq Waiting(b), Takers(b) \subseteq Takers(b)'
  PROVE  WakeInv(b)'
<1> SUFFICES ASSUME Waiting(b)' # {}
             PROVE  Cardinality(ListFrom(b)') + (remainBytes_'[b] \div ObjSize)
                      <= Cardinality(Takers(b)')
  BY DEF WakeInv
<1>1. Waiting(b) # {}
  OBVIOUS
<1>2. IsFiniteSet(Takers(b)') /\ Cardinality(Takers(b)') \in Nat
  BY FS_Subset, FS_CardinalityType, PoolAssumption DEF Takers
<1>3. Cardinality(Takers(b)) <= Cardinality(Takers(b)')
  BY <1>2, FS_Subset
<1>4. Cardinality(ListFrom(b)) + (remainBytes_[b] \div ObjSize) <= Cardinality(Takers(b))
  BY <1>1 DEF WakeInv
<1>5. ListFrom(b)' = ListFrom(b)
  BY <1>1
<1> QED
  BY <1>2, <1>3, <1>4, <1>5, Counted

(***************************************************************************)
(* A thread that moves to another place than alloc and waiting.            *)
(***************************************************************************)
LEMMA PlacesMove ==
  ASSUME Typed, NEW t \in Threads, UNCHANGED bucket, NEW b, b = bucket[t],
         NEW x, at' = [at EXCEPT ![t] = x]
  PROVE  /\ \A c \in Buckets \ {b} : Waiting(c)' = Waiting(c) /\ Takers(c)' = Takers(c)
         /\ x \in {"construct", "format", "dealloc", "log"} =>
              Waiting(b)' = Waiting(b) \ {t} /\ Takers(b)' = Takers(b) \ {t}
         /\ t \in Takers(b) <=> at[t] = "alloc"
         /\ t \in Waiting(b) <=> at[t] = "waiting"
<1>1. at'[t] = x /\ \A u \in Threads \ {t} : at'[u] = at[u]
  BY TypeFacts
<1>2. \A c \in Buckets \ {b} : Waiting(c)' = Waiting(c) /\ Takers(c)' = Takers(c)
  BY <1>1 DEF Waiting, Takers
<1>3. ASSUME x \in {"construct", "format", "dealloc", "log"}
      PROVE  Waiting(b)' = Waiting(b) \ {t} /\ Takers(b)' = Takers(b) \ {t}
  BY <1>1, <1>3 DEF Waiting, Takers
<1> QED
  BY <1>2, <1>3 DEF Waiting, Takers

(***************************************************************************)
(* alloc: as many objects go as takers.                                    *)
(***************************************************************************)
LEMMA WakeReuses ==
  ASSUME Typed, NEW t \in Threads, AllocReuses(t), NEW b \in Buckets, b = bucket[t],
         BucketInv(b), WakeInv(b)
  PROVE  WakeInv(b)'
<1>1. /\ at[t] = "alloc" /\ at' = [at EXCEPT ![t] = "construct"]
      /\ UNCHANGED <<remainBytes_, bucket>>
  BY DEF AllocReuses
<1>2. ListFrom(b)' = ListFrom(b) \ {freeList_[b]} /\ freeList_[b] \in ListFrom(b)
  BY BucketReuses
<1>3. t \in Takers(b) /\ t \notin Waiting(b)
  BY <1>1, PlacesMove
<1>4. Waiting(b)' = Waiting(b) /\ Takers(b)' = Takers(b) \ {t}
  <2> DEFINE x == "construct"
  <2>1. x \in {"construct", "format", "dealloc", "log"} /\ at' = [at EXCEPT ![t] = x]
    BY <1>1
  <2> HIDE DEF x
  <2>2. Waiting(b)' = Waiting(b) \ {t} /\ Takers(b)' = Takers(b) \ {t}
    BY <1>1, <2>1, PlacesMove
  <2> QED
    BY <1>3, <2>2
<1>5. Cardinality(ListFrom(b)') = Cardinality(ListFrom(b)) - 1
  BY <1>2, Counted, FS_RemoveElement, ZenonT(40)
<1>6. Cardinality(Takers(b)') = Cardinality(Takers(b)) - 1
  BY <1>3, <1>4, Counted, FS_RemoveElement, ZenonT(40)
<1> QED
  BY <1>1, <1>4, <1>5, <1>6, Counted DEF WakeInv

(***************************************************************************)
(* An object cut from the page goes to a thread that was on its way.       *)
(***************************************************************************)
LEMMA WakeCuts ==
  ASSUME Typed, NEW t \in Threads, AllocCuts(t), NEW b \in Buckets, b = bucket[t],
         BucketInv(b), WakeInv(b)
  PROVE  WakeInv(b)'
<1>1. /\ at[t] = "alloc" /\ at' = [at EXCEPT ![t] = "construct"]
      /\ remainBytes_[b] >= ObjSize /\ UNCHANGED bucket
      /\ remainBytes_' = [remainBytes_ EXCEPT ![b] = @ - ObjSize]
  BY DEF AllocCuts
<1>2. ListFrom(b)' = ListFrom(b)
  BY BucketCuts
<1>3. t \in Takers(b) /\ t \notin Waiting(b)
  BY <1>1, PlacesMove
<1>4. Waiting(b)' = Waiting(b) /\ Takers(b)' = Takers(b) \ {t}
  <2> DEFINE x == "construct"
  <2>1. x \in {"construct", "format", "dealloc", "log"} /\ at' = [at EXCEPT ![t] = x]
    BY <1>1
  <2> HIDE DEF x
  <2>2. Waiting(b)' = Waiting(b) \ {t} /\ Takers(b)' = Takers(b) \ {t}
    BY <1>1, <2>1, PlacesMove
  <2> QED
    BY <1>3, <2>2
<1>5. Cardinality(Takers(b)') = Cardinality(Takers(b)) - 1
  BY <1>3, <1>4, Counted, FS_RemoveElement, ZenonT(40)
<1>6. remainBytes_'[b] \div ObjSize = (remainBytes_[b] \div ObjSize) - 1
  <2>1. remainBytes_'[b] = remainBytes_[b] - ObjSize
    BY <1>1, TypeFacts
  <2> QED
    BY <1>1, <2>1, Counted, ObjectsLeft
<1> QED
  BY <1>2, <1>4, <1>5, <1>6, Counted DEF WakeInv

(***************************************************************************)
(* alloc waits only where nothing is left.                                 *)
(***************************************************************************)
LEMMA WakeWaits ==
  ASSUME Typed, Typed', NEW t \in Threads, AllocWaits(t), NEW b \in Buckets, b = bucket[t]
  PROVE  WakeInv(b)'
<1>1. freeList_[b] = Null /\ remainBytes_[b] < ObjSize /\ UNCHANGED <<freeList_, mem, remainBytes_>>
  BY Counted DEF AllocWaits, Available, poolVars, pageVars
<1>2. ListFrom(b)' = {}
  BY <1>1, ListOfNull DEF ListFrom
<1>3. remainBytes_'[b] \div ObjSize = 0
  BY <1>1, Counted, ObjectsLeft
<1>4. Cardinality(Takers(b)') \in Nat
  BY FS_Subset, FS_CardinalityType, PoolAssumption DEF Takers
<1> QED
  BY <1>2, <1>3, <1>4, FS_EmptySet DEF WakeInv

(***************************************************************************)
(* dealloc: one more object, and one more taker if any thread waits.       *)
(***************************************************************************)
LEMMA WakeTakesBack ==
  ASSUME Typed, Typed', NEW t \in Threads, Dealloc(t), NEW b \in Buckets, b = bucket[t],
         BucketInv(b), WakeInv(b), freeList_[b] # Wild
  PROVE  WakeInv(b)' /\ \A c \in Buckets \ {b} : Waiting(c)' = Waiting(c) /\ Takers(c)' = Takers(c)
<1>1. /\ at[t] = "dealloc" /\ UNCHANGED <<remainBytes_, bucket>>
      /\ Notify(b, [at EXCEPT ![t] = "log"])
  BY DEF Dealloc
<1>2. ListFrom(b)' = ListFrom(b) \cup {slot[t]} /\ slot[t] \notin ListFrom(b)
  BY BucketTakesBack
<1>3. Cardinality(ListFrom(b)') = Cardinality(ListFrom(b)) + 1
  BY <1>2, Counted, FS_AddElement
<1>4. CASE Waiting(b) = {} /\ at' = [at EXCEPT ![t] = "log"]
  <2>1. at'[t] = "log" /\ \A u \in Threads \ {t} : at'[u] = at[u]
    BY <1>4, TypeFacts
  <2>2. Waiting(b)' = {}
    BY <1>1, <1>4, <2>1 DEF Waiting
  <2>3. \A c \in Buckets \ {b} : Waiting(c)' = Waiting(c) /\ Takers(c)' = Takers(c)
    BY <1>1, <2>1 DEF Waiting, Takers
  <2> QED
    BY <2>2, <2>3 DEF WakeInv
<1>5. ASSUME NEW w \in Waiting(b), at' = [[at EXCEPT ![t] = "log"] EXCEPT ![w] = "alloc"]
      PROVE  WakeInv(b)' /\ \A c \in Buckets \ {b} :
               Waiting(c)' = Waiting(c) /\ Takers(c)' = Takers(c)
  <2>1. w \in Threads /\ at[w] = "waiting" /\ bucket[w] = b /\ w # t
    BY <1>1 DEF Waiting
  <2>2. at'[t] = "log" /\ at'[w] = "alloc" /\ \A u \in Threads \ {t, w} : at'[u] = at[u]
    BY <1>5, <2>1, TypeFacts
  <2>3. Takers(b)' = Takers(b) \cup {w} /\ w \notin Takers(b)
    BY <1>1, <2>1, <2>2 DEF Takers
  <2>4. Waiting(b)' \subseteq Waiting(b)
    BY <1>1, <2>1, <2>2 DEF Waiting
  <2>5. \A c \in Buckets \ {b} : Waiting(c)' = Waiting(c) /\ Takers(c)' = Takers(c)
    BY <1>1, <2>1, <2>2 DEF Waiting, Takers
  <2>6. Cardinality(Takers(b)') = Cardinality(Takers(b)) + 1
    BY <2>3, Counted, FS_AddElement
  <2>7. WakeInv(b)'
    BY <1>1, <1>3, <1>5, <2>6, Counted DEF WakeInv
  <2> QED
    BY <2>5, <2>7
<1> QED
  BY <1>1, <1>4, <1>5 DEF Notify

-----------------------------------------------------------------------------
(* The pool as a whole.                                                    *)

WildInv(b) == freeList_[b] = Wild => memory_[b] = 0 /\ Holders(b) = {} /\ Waiting(b) = {}

(***************************************************************************)
(* The invariants of the pool are those of its buckets.                    *)
(***************************************************************************)
LEMMA PoolByBucket ==
  /\ PoolInv => Typed /\ ListsAreStraight
                  /\ \A b \in Buckets : BucketInv(b) /\ WakeInv(b) /\ WildInv(b)
  /\ Typed' /\ (\A b \in Buckets : BucketInv(b)' /\ WakeInv(b)' /\ WildInv(b)') => PoolInv'
<1>1. PoolInv => Typed /\ ListsAreStraight
                  /\ \A b \in Buckets : BucketInv(b) /\ WakeInv(b) /\ WildInv(b)
  BY ByBucket DEF PoolInv, Typed, NoLostWakeup, WakeInv, Takers, WildIsUntouched, WildInv
<1>2. ASSUME Typed', \A b \in Buckets : BucketInv(b)' /\ WakeInv(b)' /\ WildInv(b)'
      PROVE  PoolInv'
  <2>1. ListsAreStraight' /\ ObjectsExclusive'
    BY <1>2, ByBucket
  <2>2. NoLostWakeup'
    BY <1>2 DEF NoLostWakeup, WakeInv, Takers
  <2>3. WildIsUntouched'
    BY <1>2 DEF WildIsUntouched, WildInv
  <2> QED
    BY <1>2, <2>1, <2>2, <2>3 DEF PoolInv, Typed
<1> QED
  BY <1>1, <1>2

(***************************************************************************)
(* A step outside of the pool's critical sections, or one that waits.      *)
(***************************************************************************)
LEMMA PoolAtRest ==
  ASSUME PoolInv, Typed', UNCHANGED <<pageVars, slot>>,
         \A b \in Buckets :
           /\ Holders(b)' = Holders(b)
           /\ \/ Waiting(b)' = {}
              \/ Waiting(b)' \subseteq Waiting(b) /\ Takers(b) \subseteq Takers(b)'
  PROVE  PoolInv'
<1>1. UNCHANGED <<memory_, remainBytes_, freeList_, mem, slot>>
  BY DEF pageVars
<1>2. ASSUME NEW b \in Buckets
      PROVE  BucketInv(b)' /\ WakeInv(b)' /\ WildInv(b)'
  <2>1. Typed /\ BucketInv(b) /\ WakeInv(b) /\ WildInv(b) /\ Holders(b)' = Holders(b)
    BY PoolByBucket
  <2>2. BucketInv(b)' /\ ListFrom(b)' = ListFrom(b)
    BY <1>1, <2>1, BucketStays
  <2>3. WakeInv(b)'
    <3>1. CASE Waiting(b)' = {}
      BY <3>1 DEF WakeInv
    <3>2. CASE Waiting(b)' \subseteq Waiting(b) /\ Takers(b) \subseteq Takers(b)'
      BY <1>1, <2>1, <2>2, <3>2, WakeStays
    <3> QED
      BY <3>1, <3>2
  <2>4. WildInv(b)'
    BY <1>1, <2>1 DEF WildInv
  <2> QED
    BY <2>2, <2>3, <2>4
<1> QED
  BY <1>2, PoolByBucket

(***************************************************************************)
(* Every operation of the pool keeps its invariants.                       *)
(***************************************************************************)
LEMMA PoolOperations ==
  ASSUME PoolInv, NEW t \in Threads, NEW b \in Buckets, b = bucket[t]
  PROVE  /\ AllocObject(t) => PoolInv'
         /\ \A message : message.kind = "message" /\ Construct(t, message) => PoolInv'
         /\ Dealloc(t) => PoolInv'
<1>1. /\ Typed /\ ListsAreStraight
      /\ \A c \in Buckets : BucketInv(c) /\ WakeInv(c) /\ WildInv(c)
  BY PoolByBucket
<1>2. /\ DOMAIN at = Threads /\ DOMAIN slot = Threads /\ DOMAIN memory_ = Buckets
      /\ DOMAIN remainBytes_ = Buckets /\ DOMAIN freeList_ = Buckets
  BY <1>1, TypeFacts
<1>3. ASSUME Typed', UNCHANGED bucket, \A u \in Threads \ {t} : slot'[u] = slot[u],
             \A c \in Buckets \ {b} :
               /\ memory_'[c] = memory_[c] /\ remainBytes_'[c] = remainBytes_[c]
               /\ freeList_'[c] = freeList_[c] /\ mem'[c] = mem[c]
               /\ Waiting(c)' = Waiting(c) /\ Takers(c)' = Takers(c),
             BucketInv(b)', WakeInv(b)', WildInv(b)'
      PROVE  PoolInv'
  <2>1. ASSUME NEW c \in Buckets \ {b}
        PROVE  BucketInv(c)' /\ WakeInv(c)' /\ WildInv(c)'
    <3>1. Holders(c)' = Holders(c) /\ \A u \in Holders(c) : slot'[u] = slot[u]
      BY <1>3, <2>1 DEF Holders
    <3>2. BucketInv(c)' /\ ListFrom(c)' = ListFrom(c)
      BY <1>1, <1>3, <2>1, <3>1, BucketStays
    <3>3. WakeInv(c)'
      BY <1>1, <1>3, <2>1, <3>2, WakeStays
    <3>4. WildInv(c)'
      BY <1>1, <1>3, <2>1, <3>1 DEF WildInv
    <3> QED
      BY <3>2, <3>3, <3>4
  <2>2. \A c \in Buckets : BucketInv(c)' /\ WakeInv(c)' /\ WildInv(c)'
    BY <1>3, <2>1
  <2> QED
    BY <1>3, <2>2, PoolByBucket
<1>4. Null # Wild /\ \A a \in Addresses : a # Wild
  BY AddressFacts
<1>5. CASE AllocWaits(t)
  <2>1. /\ at[t] = "alloc" /\ at' = [at EXCEPT ![t] = "waiting"]
        /\ UNCHANGED <<pageVars, bucket, slot>> /\ freeList_[b] = Null
    BY <1>5 DEF AllocWaits, Available, poolVars
  <2>2. UNCHANGED <<memory_, remainBytes_, freeList_, mem>>
    BY <2>1 DEF pageVars
  <2>3. Typed'
    BY <1>1, <1>5, PoolTypes DEF AllocObject
  <2>4. \A c \in Buckets \ {b} : Waiting(c)' = Waiting(c) /\ Takers(c)' = Takers(c)
    BY <1>1, <2>1, PlacesMove
  <2>5. BucketInv(b)'
    <3>1. Holders(b)' = Holders(b)
      BY <2>1 DEF Holders
    <3> QED
      BY <1>1, <2>1, <2>2, <3>1, BucketStays
  <2>6. WakeInv(b)'
    BY <1>1, <1>5, <2>3, WakeWaits
  <2>7. WildInv(b)'
    BY <1>4, <2>1, <2>2 DEF WildInv
  <2> QED
    BY <1>3, <2>1, <2>2, <2>3, <2>4, <2>5, <2>6, <2>7
<1>6. CASE AllocCrashes(t)
  <2>1. UNCHANGED <<pageVars, bucket, slot>> /\ at' = [u \in Threads |-> "crashed"]
    BY <1>6 DEF AllocCrashes, poolVars
  <2>2. Typed'
    BY <1>1, <1>6, PoolTypes DEF AllocObject
  <2>3. \A c \in Buckets : Holders(c)' = Holders(c) /\ Waiting(c)' = {}
    BY <2>1 DEF Holders, Waiting
  <2> QED
    BY <2>1, <2>2, <2>3, PoolAtRest
<1>7. CASE AllocReuses(t)
  <2>1. /\ at' = [at EXCEPT ![t] = "construct"]
        /\ freeList_[b] \in Addresses
        /\ slot' = [slot EXCEPT ![t] = freeList_[b]]
        /\ freeList_' = [freeList_ EXCEPT ![b] = mem[b][freeList_[b]].next]
        /\ UNCHANGED <<memory_, remainBytes_, mem, bucket>>
    BY <1>7 DEF AllocReuses
  <2>2. Typed'
    BY <1>1, <1>7, PoolTypes DEF AllocObject
  <2>3. \A c \in Buckets \ {b} : Waiting(c)' = Waiting(c) /\ Takers(c)' = Takers(c)
    BY <1>1, <2>1, PlacesMove
  <2>4. BucketInv(b)' /\ WakeInv(b)'
    BY <1>1, <1>7, BucketReuses, WakeReuses
  <2>5. WildInv(b)'
    <3>1. freeList_'[b] \in Addresses \cup {Null}
      BY <1>1, <1>2, <2>1, FirstOfList
    <3> QED
      BY <1>4, <3>1 DEF WildInv
  <2> QED
    BY <1>2, <1>3, <2>1, <2>2, <2>3, <2>4, <2>5
<1>8. CASE AllocCuts(t)
  <2>1. /\ at' = [at EXCEPT ![t] = "construct"]
        /\ freeList_[b] = Null
        /\ slot' = [slot EXCEPT ![t] = memory_[b]]
        /\ memory_' = [memory_ EXCEPT ![b] = @ + ObjSize]
        /\ remainBytes_' = [remainBytes_ EXCEPT ![b] = @ - ObjSize]
        /\ UNCHANGED <<freeList_, mem, bucket>>
    BY <1>8 DEF AllocCuts
  <2>2. Typed'
    BY <1>1, <1>8, PoolTypes DEF AllocObject
  <2>3. \A c \in Buckets \ {b} : Waiting(c)' = Waiting(c) /\ Takers(c)' = Takers(c)
    BY <1>1, <2>1, PlacesMove
  <2>4. BucketInv(b)' /\ WakeInv(b)'
    BY <1>1, <1>8, BucketCuts, WakeCuts
  <2>5. WildInv(b)'
    BY <1>4, <2>1 DEF WildInv
  <2> QED
    BY <1>2, <1>3, <2>1, <2>2, <2>3, <2>4, <2>5
<1>9. ASSUME NEW message, message.kind = "message", Construct(t, message)
       PROVE  PoolInv'
  <2>1. /\ at[t] = "construct" /\ at' = [at EXCEPT ![t] = "format"]
        /\ mem' = [mem EXCEPT ![b][slot[t]] = message]
        /\ UNCHANGED <<memory_, remainBytes_, freeList_, bucket, slot>>
    BY <1>9 DEF Construct
  <2>2. Typed'
    BY <1>1, <1>9, PoolTypes
  <2>3. \A c \in Buckets \ {b} : Waiting(c)' = Waiting(c) /\ Takers(c)' = Takers(c)
    BY <1>1, <2>1, PlacesMove
  <2>4. BucketInv(b)' /\ (freeList_[b] # Wild => ListFrom(b)' = ListFrom(b))
    BY <1>1, <1>9, <2>2, BucketConstructs
  <2>5. Waiting(b)' = Waiting(b) /\ Takers(b)' = Takers(b) /\ Holders(b)' = Holders(b)
    BY <1>2, <2>1 DEF Waiting, Takers, Holders
  <2>6. WakeInv(b)'
    <3>1. Waiting(b) # {} => freeList_[b] # Wild
      BY <1>1, <1>5 DEF WildInv
    <3> QED
      BY <1>1, <2>1, <2>2, <2>4, <2>5, <3>1, WakeStays
  <2>7. WildInv(b)'
    BY <1>1, <2>1, <2>5 DEF WildInv
  <2>8. \A c \in Buckets \ {b} : mem'[c] = mem[c]
    BY <2>1
  <2> QED
    BY <1>3, <2>1, <2>2, <2>3, <2>4, <2>6, <2>7, <2>8
<1>10. CASE Dealloc(t)
  <2>1. /\ at[t] = "dealloc" /\ mem' = [mem EXCEPT ![b][slot[t]] = Link(freeList_[b])]
        /\ freeList_' = [freeList_ EXCEPT ![b] = slot[t]]
        /\ slot' = [slot EXCEPT ![t] = Null]
        /\ UNCHANGED <<memory_, remainBytes_, bucket>>
    BY <1>10 DEF Dealloc
  <2>2. Typed'
    BY <1>1, <1>10, PoolTypes
  <2>3. slot[t] # Null /\ slot[t] \in Addresses
    BY <1>1, <2>1, TypeFacts DEF Typed, SlotsInUse
  <2>4. freeList_[b] # Wild
    BY <1>1, <2>3 DEF WildInv, Holders
  <2>5. BucketInv(b)'
    BY <1>1, <1>10, <2>2, <2>4, BucketTakesBack
  <2>6. WakeInv(b)' /\ \A c \in Buckets \ {b} : Waiting(c)' = Waiting(c) /\ Takers(c)' = Takers(c)
    BY <1>1, <1>10, <2>2, <2>4, WakeTakesBack
  <2>7. WildInv(b)'
    BY <1>2, <1>4, <2>1, <2>3 DEF WildInv
  <2>8. \A c \in Buckets \ {b} : mem'[c] = mem[c] /\ freeList_'[c] = freeList_[c]
    BY <2>1
  <2> QED
    BY <1>2, <1>3, <2>1, <2>2, <2>5, <2>6, <2>7, <2>8
<1> QED
  BY <1>5, <1>6, <1>7, <1>8, <1>9, <1>10 DEF AllocObject

(***************************************************************************)
(* The pool of a process that has just been started.                       *)
(***************************************************************************)
FreshPool ==
  /\ memory_ = [b \in Buckets |-> 0]
  /\ remainBytes_ = [b \in Buckets |-> PageBytes]
  /\ freeList_ \in [Buckets -> {Null, Wild}]
  /\ mem = [b \in Buckets |-> [a \in Addresses |-> Blank]]
  /\ bucket \in [Threads -> Buckets]
  /\ slot = [t \in Threads |-> Null]
  /\ at = [t \in Threads |-> "idle"]

(***************************************************************************)
(* The pool is right when the process starts ...                           *)
(***************************************************************************)
LEMMA FreshPoolIsRight == FreshPool => PoolInv
<1> SUFFICES ASSUME FreshPool PROVE PoolInv
  OBVIOUS
<1>1. /\ \A t \in Threads : slot[t] = Null /\ at[t] = "idle"
      /\ \A b \in Buckets : /\ Holders(b) = {} /\ Waiting(b) = {} /\ Held(b) = {}
                            /\ memory_[b] = 0 /\ mem[b] = [a \in Addresses |-> Blank]
                            /\ freeList_[b] \in {Null, Wild}
  BY DEF FreshPool, Holders, Waiting, Held
<1>2. SlotsInUse
  BY <1>1 DEF FreshPool, SlotsInUse
<1>3. \A b \in Buckets : \A a \in Addresses : Behind(mem[b], a) = Null
  BY <1>1 DEF Behind, Blank
<1>4. PagesAreWhole
  <2>1. 0 % ObjSize = 0
    BY AddressFacts
  <2> QED
    BY <1>1, <1>3, <2>1 DEF PagesAreWhole, LinksStay
<1>5. PoolTypeOK
  <2>1. memory_ \in [Buckets -> 0 .. PageBytes]
    BY AddressFacts DEF FreshPool
  <2>2. remainBytes_ = [b \in Buckets |-> PageBytes - memory_[b]]
    BY AddressFacts DEF FreshPool
  <2>3. mem = [b \in Buckets |-> [a \in Addresses |-> mem[b][a]]]
    BY DEF FreshPool
  <2>4. /\ freeList_ \in [Buckets -> Addresses \cup {Null, Wild}]
        /\ bucket \in [Threads -> Buckets] /\ slot \in [Threads -> Addresses \cup {Null}]
    BY DEF FreshPool
  <2> QED
    BY <2>1, <2>2, <2>3, <2>4 DEF PoolTypeOK
<1>6. ASSUME NEW b \in Buckets, freeList_[b] # Wild
      PROVE  ListFrom(b) = {}
  BY <1>1, <1>6, ListOfNull DEF ListFrom
<1>7. ListsAreStraight
  BY <1>6 DEF ListsAreStraight, Linked, Acyclic
<1>8. ObjectsExclusive
  <2>1. \A a \in Addresses : ~(a < 0)
    BY AddressFacts
  <2> QED
    BY <1>1, <1>6, <2>1 DEF ObjectsExclusive
<1> QED
  BY <1>1, <1>2, <1>4, <1>5, <1>7, <1>8 DEF PoolInv, WildIsUntouched, NoLostWakeup

(***************************************************************************)
(* ... and when it is started again.                                       *)
(***************************************************************************)
LEMMA FreshPoolNext == FreshPool' => PoolInv'
BY FreshPoolIsRight, PTL

(***************************************************************************)
(* The pool is right after every step of the loggers.                      *)
(***************************************************************************)
LEMMA PoolStep ==
  ASSUME PoolInv, [Next]_vars
  PROVE  PoolInv'
<1>1. /\ Typed /\ SlotsInUse /\ bucket \in [Threads -> Buckets] /\ DOMAIN at = Threads
      /\ \A t \in Threads : bucket[t] \in Buckets
  BY PoolByBucket, TypeFacts DEF Typed, PoolTypeOK
<1>2. ASSUME NEW t \in Threads, LogImpl(t)
      PROVE  PoolInv'
  <2>1. PICK b \in Buckets : bucket' = [bucket EXCEPT ![t] = b]
    BY <1>2 DEF LogImpl
  <2>2. at[t] = "idle" /\ at' = [at EXCEPT ![t] = "alloc"] /\ UNCHANGED <<pageVars, slot>>
    BY <1>2 DEF LogImpl
  <2>3. slot[t] = Null /\ bucket' \in [Threads -> Buckets]
    BY <1>1, <2>1, <2>2 DEF SlotsInUse
  <2>4. SlotsInUse'
    BY <1>1, <2>2, <2>3, PlaceChanged
  <2>5. Typed'
    BY <1>1, <2>2, <2>3, <2>4, TypesWithoutPages
  <2>6. /\ at'[t] = "alloc" /\ \A u \in Threads \ {t} : at'[u] = at[u] /\ bucket'[u] = bucket[u]
    BY <1>1, <2>1, <2>2
  <2>7. ASSUME NEW c \in Buckets
        PROVE  /\ Holders(c)' = Holders(c)
               /\ Waiting(c)' \subseteq Waiting(c) /\ Takers(c) \subseteq Takers(c)'
    BY <2>2, <2>3, <2>6 DEF Holders, Waiting, Takers
  <2> QED
    BY <2>2, <2>5, <2>7, PoolAtRest
<1>3. ASSUME NEW t \in Threads, AllocMessage(t)
      PROVE  PoolInv'
  BY <1>1, <1>3, PoolOperations DEF AllocMessage
<1>4. ASSUME NEW t \in Threads, ConstructMessage(t)
      PROVE  PoolInv'
  <2>1. Message(t, Call(t).payload).kind = "message"
    BY DEF Message
  <2> QED
    BY <1>1, <1>4, <2>1, PoolOperations DEF ConstructMessage
<1>5. ASSUME NEW t \in Threads, DeallocMessage(t)
      PROVE  PoolInv'
  BY <1>1, <1>5, PoolOperations DEF DeallocMessage
<1>6. ASSUME NEW t \in Threads, Format(t) \/ Log(t)
      PROVE  PoolInv'
  <2>1. /\ UNCHANGED <<pageVars, slot, bucket>>
        /\ \/ at[t] = "format" /\ at' = [at EXCEPT ![t] = "dealloc"]
           \/ at[t] = "log" /\ at' = [at EXCEPT ![t] = "idle"]
    BY <1>6 DEF Format, Log, poolVars
  <2>2. at'[t] \in {"dealloc", "idle"} /\ at[t] \in {"format", "log"}
        /\ \A u \in Threads \ {t} : at'[u] = at[u]
    BY <1>1, <2>1
  <2>3. SlotsInUse'
    <3>1. CASE at[t] = "format" /\ at' = [at EXCEPT ![t] = "dealloc"]
      <4>1. slot'[t] # Null /\ \A u \in Threads : slot'[u] = slot[u]
        BY <1>1, <2>1, <3>1 DEF SlotsInUse
      <4> QED
        BY <1>1, <3>1, <4>1, PlaceChanged
    <3>2. CASE at[t] = "log" /\ at' = [at EXCEPT ![t] = "idle"]
      <4>1. slot'[t] = Null /\ \A u \in Threads : slot'[u] = slot[u]
        BY <1>1, <2>1, <3>2 DEF SlotsInUse
      <4> QED
        BY <1>1, <3>2, <4>1, PlaceChanged
    <3> QED
      BY <2>1, <3>1, <3>2
  <2>4. Typed'
    BY <1>1, <2>1, <2>3, TypesWithoutPages
  <2>5. ASSUME NEW c \in Buckets
        PROVE  /\ Holders(c)' = Holders(c)
               /\ Waiting(c)' \subseteq Waiting(c) /\ Takers(c) \subseteq Takers(c)'
    BY <2>1, <2>2 DEF Holders, Waiting, Takers
  <2> QED
    BY <2>1, <2>4, <2>5, PoolAtRest
<1>7. ASSUME UNCHANGED <<poolVars, at>>
      PROVE  PoolInv'
  <2>1. UNCHANGED <<pageVars, slot, bucket, at>>
    BY <1>7 DEF poolVars
  <2>2. SlotsInUse'
    BY <1>1, <2>1 DEF SlotsInUse
  <2>3. Typed'
    BY <1>1, <2>1, <2>2, TypesWithoutPages
  <2>4. ASSUME NEW c \in Buckets
        PROVE  /\ Holders(c)' = Holders(c)
               /\ Waiting(c)' \subseteq Waiting(c) /\ Takers(c) \subseteq Takers(c)'
    BY <2>1 DEF Holders, Waiting, Takers
  <2> QED
    BY <2>1, <2>3, <2>4, PoolAtRest
<1>8. CASE Tick
  BY <1>7, <1>8 DEF Tick
<1>9. CASE Restart
  <2>1. FreshPool'
    BY <1>1, <1>9 DEF Restart, PoolRestarts, FreshPool
  <2> QED
    BY <2>1, FreshPoolNext
<1>10. CASE UNCHANGED vars
  BY <1>7, <1>10 DEF vars
<1> QED
  BY <1>2, <1>3, <1>4, <1>5, <1>6, <1>8, <1>9, <1>10 DEF Next, InCall

-----------------------------------------------------------------------------
(* Recursion over the elements of a sequence.                              *)

(***************************************************************************)
(* What holds at the beginning and passes from each number to the next     *)
(* holds up to the end.                                                    *)
(***************************************************************************)
LEMMA UpTo ==
  ASSUME NEW N \in Nat, NEW T, 0 \in T, \A n \in 1 .. N : n - 1 \in T => n \in T
  PROVE  0 .. N \subseteq T
<1> DEFINE F == (0 .. N) \ T
<1>1. SUFFICES ASSUME F # {} PROVE FALSE
  OBVIOUS
<1>2. F \subseteq Nat
  OBVIOUS
<1> HIDE DEF F
<1>3. \E x \in F : \A y \in F : ~(<<y, x>> \in OpToRel(<, Nat))
  BY <1>1, <1>2, NatLessThanWellFounded, WFMin
<1>4. PICK x \in F : \A y \in F : ~(y < x)
  BY <1>2, <1>3 DEF OpToRel
<1>5. x # 0 /\ x \in 0 .. N /\ x \notin T
  BY DEF F
<1>6. x \in 1 .. N /\ x - 1 \in 0 .. N /\ x - 1 < x
  BY <1>5
<1>7. x - 1 \in T
  BY <1>4, <1>6 DEF F
<1> QED
  BY <1>5, <1>6, <1>7

(***************************************************************************)
(* A function can be defined by its first value and the step to each next  *)
(* one.                                                                    *)
(***************************************************************************)
Recurs(f, N, a, step) == f[0] = a /\ \A n \in 1 .. N : f[n] = step[n][f[n - 1]]

LEMMA RecursionExists ==
  ASSUME NEW N \in Nat, NEW S, NEW a \in S, NEW step \in [1 .. N -> [S -> S]]
  PROVE  \E f \in [0 .. N -> S] : Recurs(f, N, a, step)
<1> DEFINE Good(f, k) == Recurs(f, k, a, step)
           T == {k \in 0 .. N : \E f \in [0 .. N -> S] : Good(f, k)}
<1>1. 0 \in T
  <2> DEFINE f == [n \in 0 .. N |-> a]
  <2>1. f \in [0 .. N -> S] /\ f[0] = a /\ 0 \in 0 .. N /\ 1 .. 0 = {}
    OBVIOUS
  <2> HIDE DEF f
  <2>2. Good(f, 0)
    BY <2>1 DEF Recurs
  <2> QED
    BY <2>1, <2>2
<1>2. ASSUME NEW k \in 1 .. N, k - 1 \in T
      PROVE  k \in T
  <2>1. PICK f \in [0 .. N -> S] : f[0] = a /\ \A n \in 1 .. k - 1 : f[n] = step[n][f[n - 1]]
    BY <1>2 DEF Recurs
  <2> DEFINE g == [f EXCEPT ![k] = step[k][f[k - 1]]]
  <2>2. k - 1 \in 0 .. N /\ k \in 0 .. N /\ k # k - 1 /\ k # 0 /\ 0 \in 0 .. N
    OBVIOUS
  <2>3. step[k] \in [S -> S] /\ step[k][f[k - 1]] \in S
    BY <2>2
  <2>4. /\ g \in [0 .. N -> S] /\ g[k] = step[k][f[k - 1]]
        /\ \A n \in 0 .. N : n # k => g[n] = f[n]
    BY <2>2, <2>3
  <2> HIDE DEF g
  <2>5. g[0] = a
    BY <2>1, <2>2, <2>4
  <2>6. ASSUME NEW n \in 1 .. k
        PROVE  g[n] = step[n][g[n - 1]]
    <3>1. n \in 0 .. N /\ n - 1 \in 0 .. N /\ n - 1 # k /\ (n = k \/ (n # k /\ n \in 1 .. k - 1))
      OBVIOUS
    <3>2. g[n - 1] = f[n - 1]
      BY <2>4, <3>1
    <3>3. CASE n = k
      BY <2>4, <3>2, <3>3
    <3>4. CASE n # k /\ n \in 1 .. k - 1
      BY <2>1, <2>4, <3>1, <3>2, <3>4
    <3> QED
      BY <3>1, <3>3, <3>4
  <2>7. Good(g, k)
    BY <2>5, <2>6 DEF Recurs
  <2> QED
    BY <2>2, <2>4, <2>7
<1> HIDE DEF T
<1>3. N \in T
  <2>1. 0 .. N \subseteq T
    BY <1>1, <1>2, UpTo
  <2> QED
    BY <2>1
<1> QED
  BY <1>3 DEF T

-----------------------------------------------------------------------------
(* The sum of sizes.                                                       *)

Sums(sizes) ==
  CHOOSE f : f = [n \in 0 .. Len(sizes) |-> IF n = 0 THEN 0 ELSE f[n - 1] + sizes[n]]

LEMMA TotalIs ==
  ASSUME NEW s
  PROVE  Total(s) = Sums(s)[Len(s)]
BY Zenon DEF Total, Sums

LEMMA SumsUnfold ==
  ASSUME NEW s \in Seq(Nat)
  PROVE  /\ Sums(s)[0] = 0
         /\ \A n \in 0 .. Len(s) : Sums(s)[n] \in Nat
         /\ \A n \in 1 .. Len(s) : Sums(s)[n] = Sums(s)[n - 1] + s[n]
<1> DEFINE N == Len(s)
           step == [n \in 1 .. N |-> [x \in Nat |-> x + s[n]]]
<1>1. N \in Nat /\ \A n \in 1 .. N : s[n] \in Nat
  BY LenProperties, ElementOfSeq
<1> HIDE DEF N
<1>2. step \in [1 .. N -> [Nat -> Nat]]
  BY <1>1
<1>3. \A n \in 1 .. N, x \in Nat : step[n][x] = x + s[n]
  OBVIOUS
<1> HIDE DEF step
<1>4. PICK f \in [0 .. N -> Nat] : Recurs(f, N, 0, step)
  <2>1. 0 \in Nat
    OBVIOUS
  <2> QED
    BY <1>1, <1>2, <2>1, RecursionExists, Zenon
<1> DEFINE Body(g) == [n \in 0 .. N |-> IF n = 0 THEN 0 ELSE g[n - 1] + s[n]]
           g == Sums(s)
<1>5. f = Body(f)
  <2>1. \A n \in 0 .. N : f[n] = IF n = 0 THEN 0 ELSE f[n - 1] + s[n]
    <3>1. \A n \in 1 .. N : n - 1 \in 0 .. N /\ f[n - 1] \in Nat
      BY <1>1
    <3>2. \A n \in 1 .. N : f[n] = f[n - 1] + s[n]
      BY <1>3, <1>4, <3>1 DEF Recurs
    <3> QED
      BY <1>1, <1>4, <3>2 DEF Recurs
  <2> QED
    BY <1>4, <2>1
<1>6. g = Body(g)
  <2>1. g = CHOOSE h : h = Body(h)
    BY DEF Sums, N
  <2> HIDE DEF g, Body
  <2> QED
    BY <1>5, <2>1
<1>7. /\ g[0] = 0
      /\ \A n \in 1 .. N : g[n] = g[n - 1] + s[n]
  <2> HIDE DEF g
  <2>1. \A n \in 0 .. N : g[n] = IF n = 0 THEN 0 ELSE g[n - 1] + s[n]
    BY <1>6
  <2> QED
    BY <1>1, <2>1
<1> DEFINE T == {n \in 0 .. N : g[n] \in Nat}
<1> HIDE DEF g
<1>8. 0 \in T /\ \A n \in 1 .. N : n - 1 \in T => n \in T
  <2>1. 0 \in T
    BY <1>1, <1>7
  <2>2. ASSUME NEW n \in 1 .. N, n - 1 \in T
        PROVE  n \in T
    <3>1. g[n - 1] \in Nat /\ n \in 0 .. N /\ s[n] \in Nat /\ g[n] = g[n - 1] + s[n]
      BY <1>1, <1>7, <2>2
    <3>2. g[n] \in Nat
      BY <3>1
    <3> QED
      BY <3>1, <3>2
  <2> QED
    BY <2>1, <2>2
<1> HIDE DEF T
<1>9. 0 .. N \subseteq T
  BY <1>1, <1>8, UpTo
<1> QED
  BY <1>7, <1>9 DEF T, g, N

(***************************************************************************)
(* Sequences that begin alike have the same sums so far.                   *)
(***************************************************************************)
LEMMA SumsAgree ==
  ASSUME NEW s \in Seq(Nat), NEW r \in Seq(Nat), NEW k \in Nat, k <= Len(s), k <= Len(r),
         \A i \in 1 .. k : r[i] = s[i]
  PROVE  Sums(r)[k] = Sums(s)[k]
<1>1. /\ Len(s) \in Nat /\ Len(r) \in Nat
      /\ Sums(s)[0] = 0 /\ \A n \in 1 .. Len(s) : Sums(s)[n] = Sums(s)[n - 1] + s[n]
      /\ Sums(r)[0] = 0 /\ \A n \in 1 .. Len(r) : Sums(r)[n] = Sums(r)[n - 1] + r[n]
  BY SumsUnfold, LenProperties
<1> DEFINE T == {n \in 0 .. k : Sums(r)[n] = Sums(s)[n]}
<1>2. 0 \in T /\ \A n \in 1 .. k : n - 1 \in T => n \in T
  <2>1. \A n \in 1 .. k : n \in 1 .. Len(s) /\ n \in 1 .. Len(r) /\ n \in 0 .. k
    BY <1>1
  <2> QED
    BY <1>1, <2>1
<1> HIDE DEF T
<1>3. 0 .. k \subseteq T
  BY <1>2, UpTo
<1> QED
  BY <1>3 DEF T

(***************************************************************************)
(* No sum so far exceeds the total.                                        *)
(***************************************************************************)
LEMMA SumsGrow ==
  ASSUME NEW s \in Seq(Nat), NEW k \in 0 .. Len(s)
  PROVE  Sums(s)[k] <= Sums(s)[Len(s)]
<1> DEFINE N == Len(s)
           g == Sums(s)
<1>1. /\ N \in Nat /\ \A n \in 0 .. N : g[n] \in Nat
      /\ \A n \in 1 .. N : g[n] = g[n - 1] + s[n] /\ s[n] \in Nat
  BY SumsUnfold, LenProperties, ElementOfSeq
<1> HIDE DEF N, g
<1> DEFINE T == {n \in 0 .. N : \A m \in 0 .. n : g[m] <= g[n]}
<1>2. 0 \in T
  <2>1. 0 \in 0 .. N /\ g[0] \in Nat /\ \A m \in 0 .. 0 : m = 0
    BY <1>1
  <2> QED
    BY <2>1
<1>3. ASSUME NEW n \in 1 .. N, n - 1 \in T
      PROVE  n \in T
  <2>1. /\ n \in 0 .. N /\ n - 1 \in 0 .. N
        /\ g[n - 1] \in Nat /\ s[n] \in Nat /\ g[n] = g[n - 1] + s[n]
    BY <1>1
  <2>2. g[n - 1] <= g[n] /\ g[n] \in Nat
    BY <2>1
  <2>3. ASSUME NEW m \in 0 .. n
        PROVE  g[m] <= g[n]
    <3>1. CASE m = n
      BY <2>2, <3>1
    <3>2. CASE m # n
      <4>1. m \in 0 .. n - 1 /\ m \in 0 .. N
        BY <1>1, <3>2
      <4>2. g[m] <= g[n - 1] /\ g[m] \in Nat
        BY <1>1, <1>3, <4>1
      <4> QED
        BY <2>1, <2>2, <4>2
    <3> QED
      BY <3>1, <3>2
  <2> QED
    BY <2>1, <2>3
<1> HIDE DEF T
<1>4. 0 .. N \subseteq T
  BY <1>1, <1>2, <1>3, UpTo
<1>5. N \in T /\ k \in 0 .. N
  BY <1>1, <1>4 DEF N
<1> QED
  BY <1>5 DEF T, N, g

(***************************************************************************)
(* The total of no sizes, of one more, and of a part.                      *)
(***************************************************************************)
LEMMA TotalFacts ==
  ASSUME NEW s \in Seq(Nat)
  PROVE  /\ Total(s) \in Nat
         /\ Len(s) = 0 => Total(s) = 0
         /\ \A r \in Seq(Nat) :
              Len(r) = Len(s) + 1 /\ (\A i \in 1 .. Len(s) : r[i] = s[i]) =>
                Total(r) = Total(s) + r[Len(s) + 1]
         /\ \A r \in Seq(Nat) :
              Len(r) <= Len(s) /\ (\A i \in 1 .. Len(r) : r[i] = s[i]) => Total(r) <= Total(s)
<1>1. /\ Len(s) \in Nat /\ Total(s) = Sums(s)[Len(s)]
      /\ Sums(s)[0] = 0 /\ \A n \in 0 .. Len(s) : Sums(s)[n] \in Nat
  BY TotalIs, SumsUnfold, LenProperties
<1>2. ASSUME NEW r \in Seq(Nat), Len(r) = Len(s) + 1, \A i \in 1 .. Len(s) : r[i] = s[i]
      PROVE  Total(r) = Total(s) + r[Len(s) + 1]
  <2>1. Sums(r)[Len(s)] = Sums(s)[Len(s)]
    <3>1. Len(s) \in Nat /\ Len(s) <= Len(s) /\ Len(s) <= Len(r)
      BY <1>1, <1>2
    <3> QED
      BY <1>2, <3>1, SumsAgree
  <2>2. \A n \in 1 .. Len(r) : Sums(r)[n] = Sums(r)[n - 1] + r[n]
    BY SumsUnfold
  <2>3. Len(r) \in 1 .. Len(r) /\ Len(r) - 1 = Len(s)
    BY <1>1, <1>2
  <2>4. Sums(r)[Len(r)] = Sums(r)[Len(s)] + r[Len(r)]
    BY <2>2, <2>3
  <2> QED
    BY <1>1, <1>2, <2>1, <2>4, TotalIs
<1>3. ASSUME NEW r \in Seq(Nat), Len(r) <= Len(s), \A i \in 1 .. Len(r) : r[i] = s[i]
      PROVE  Total(r) <= Total(s)
  <2>1. Len(r) \in Nat /\ Len(r) \in 0 .. Len(s)
    BY <1>1, <1>3, LenProperties
  <2>2. Sums(r)[Len(r)] = Sums(s)[Len(r)]
    BY <1>3, <2>1, SumsAgree
  <2>3. Sums(s)[Len(r)] <= Sums(s)[Len(s)]
    BY <2>1, SumsGrow
  <2> QED
    BY <1>1, <2>2, <2>3, TotalIs
<1>4. Len(s) \in 0 .. Len(s)
  BY <1>1
<1> QED
  BY <1>1, <1>2, <1>3, <1>4

(***************************************************************************)
(* The bytes of a number of lines.                                         *)
(***************************************************************************)
LEMMA SizeFacts ==
  ASSUME NEW W, \A e \in W : Bytes(e.line) \in Nat, NEW s \in Seq(W)
  PROVE  /\ SizeOfLines(s) \in Nat
         /\ Len(s) = 0 => SizeOfLines(s) = 0
         /\ Len(s) = 1 => SizeOfLines(s) = Bytes(s[1].line)
         /\ \A e \in W : SizeOfLines(Append(s, e)) = SizeOfLines(s) + Bytes(e.line)
         /\ \A r \in Seq(W) : Len(r) <= Len(s) /\ (\A i \in 1 .. Len(r) : r[i] = s[i]) =>
              SizeOfLines(r) <= SizeOfLines(s)
<1> DEFINE Sizes(r) == [k \in DOMAIN r |-> Bytes(r[k].line)]
<1>1. ASSUME NEW r \in Seq(W)
      PROVE  /\ Len(r) \in Nat /\ Sizes(r) \in Seq(Nat) /\ Len(Sizes(r)) = Len(r)
             /\ \A k \in 1 .. Len(r) : Sizes(r)[k] = Bytes(r[k].line) /\ r[k] \in W
             /\ Total(Sizes(r)) = SizeOfLines(r)
  <2>1. Len(r) \in Nat /\ DOMAIN r = 1 .. Len(r) /\ \A k \in 1 .. Len(r) : r[k] \in W
    BY LenProperties, ElementOfSeq
  <2>2. Sizes(r) \in [1 .. Len(r) -> Nat]
    BY <2>1
  <2>3. Sizes(r) \in Seq(Nat) /\ Len(Sizes(r)) = Len(r)
    BY <2>1, <2>2
  <2> QED
    BY <2>1, <2>3 DEF SizeOfLines
<1> HIDE DEF Sizes
<1>2. SizeOfLines(s) \in Nat /\ (Len(s) = 0 => SizeOfLines(s) = 0)
  BY <1>1, TotalFacts
<1>3. Len(s) = 1 => SizeOfLines(s) = Bytes(s[1].line)
  <2> SUFFICES ASSUME Len(s) = 1 PROVE SizeOfLines(s) = Bytes(s[1].line)
    OBVIOUS
  <2>1. << >> \in Seq(Nat) /\ Len(<< >>) = 0 /\ Total(<< >>) = 0
    <3> DEFINE o == << >>
    <3>1. o \in Seq(Nat) /\ Len(o) = 0
      OBVIOUS
    <3> HIDE DEF o
    <3>2. Total(o) = 0
      BY <3>1, TotalFacts
    <3> QED
      BY <3>1, <3>2 DEF o
  <2>2. Sizes(s) \in Seq(Nat) /\ Len(Sizes(s)) = 1 /\ Sizes(s)[1] = Bytes(s[1].line)
        /\ Bytes(s[1].line) \in Nat
    BY <1>1
  <2>3. Total(Sizes(s)) = Total(<< >>) + Sizes(s)[Len(<< >>) + 1]
    <3>1. Len(Sizes(s)) = Len(<< >>) + 1 /\ \A i \in 1 .. Len(<< >>) : Sizes(s)[i] = << >>[i]
      BY <2>1, <2>2
    <3> QED
      BY <2>1, <2>2, <3>1, TotalFacts
  <2> QED
    BY <1>1, <2>1, <2>2, <2>3
<1>4. ASSUME NEW e \in W
      PROVE  SizeOfLines(Append(s, e)) = SizeOfLines(s) + Bytes(e.line)
  <2> DEFINE r == Append(s, e)
  <2>1. /\ r \in Seq(W) /\ Len(r) = Len(s) + 1 /\ r[Len(s) + 1] = e
        /\ \A i \in 1 .. Len(s) : r[i] = s[i]
    BY AppendProperties
  <2> HIDE DEF r
  <2>2. /\ Sizes(s) \in Seq(Nat) /\ Sizes(r) \in Seq(Nat)
        /\ Len(Sizes(r)) = Len(Sizes(s)) + 1 /\ Sizes(r)[Len(Sizes(s)) + 1] = Bytes(e.line)
        /\ \A i \in 1 .. Len(Sizes(s)) : Sizes(r)[i] = Sizes(s)[i]
    <3>1. Len(s) \in Nat /\ Len(s) + 1 \in 1 .. Len(r) /\ \A i \in 1 .. Len(s) : i \in 1 .. Len(r)
      BY <1>1, <2>1
    <3> QED
      BY <1>1, <2>1, <3>1
  <2>3. Total(Sizes(r)) = Total(Sizes(s)) + Bytes(e.line)
    BY <2>2, TotalFacts
  <2> QED
    BY <1>1, <2>1, <2>3 DEF r
<1>5. ASSUME NEW r \in Seq(W), Len(r) <= Len(s), \A i \in 1 .. Len(r) : r[i] = s[i]
      PROVE  SizeOfLines(r) <= SizeOfLines(s)
  <2>1. /\ Sizes(s) \in Seq(Nat) /\ Sizes(r) \in Seq(Nat) /\ Len(Sizes(r)) <= Len(Sizes(s))
        /\ \A i \in 1 .. Len(Sizes(r)) : Sizes(r)[i] = Sizes(s)[i]
    <3>1. \A i \in 1 .. Len(r) : i \in 1 .. Len(s)
      BY <1>1, <1>5
    <3> QED
      BY <1>1, <1>5, <3>1
  <2>2. Total(Sizes(r)) <= Total(Sizes(s))
    BY <2>1, TotalFacts
  <2> QED
    BY <1>1, <2>2
<1> QED
  BY <1>2, <1>3, <1>4, <1>5

-----------------------------------------------------------------------------
(* What a pattern is parsed into.                                          *)

ParseOf(p) ==
  CHOOSE f : f = [n \in 0 .. Len(p) |-> IF n = 0 THEN [val |-> << >>, items |-> << >>]
                                                 ELSE ParseToken(f[n - 1], p[n])]

LEMMA ParsedIs ==
  ASSUME NEW p
  PROVE  Parsed(p) = ParseOf(p)
BY Zenon DEF Parsed, ParseOf

(***************************************************************************)
(* One round of the loop, on tokens of S.                                  *)
(***************************************************************************)
Parses(S) == [val : Seq(S), items : Seq(S)]

LEMMA Round ==
  ASSUME NEW S, NEW x \in Parses(S), NEW token \in S
  PROVE  /\ ParseToken(x, token) \in Parses(S)
         /\ ParseToken(x, token).items \o ParseToken(x, token).val = (x.items \o x.val) \o <<token>>
         /\ token.kind # "text" => ParseToken(x, token).val = << >>
<1>1. x.val \in Seq(S) /\ x.items \in Seq(S) /\ <<token>> \in Seq(S)
  BY DEF Parses
<1>2. CASE token.kind = "text"
  <2>1. ParseToken(x, token) = [val |-> Append(x.val, token), items |-> x.items]
    BY <1>2 DEF ParseToken, Parses
  <2>2. Append(x.val, token) \in Seq(S) /\ Append(x.val, token) = x.val \o <<token>>
    BY <1>1, AppendIsConcat
  <2>3. x.items \o (x.val \o <<token>>) = (x.items \o x.val) \o <<token>>
    <3> DEFINE a == x.items
               b == x.val
               c == <<token>>
    <3>1. a \in Seq(S) /\ b \in Seq(S) /\ c \in Seq(S)
      BY <1>1
    <3> HIDE DEF a, b, c
    <3>2. a \o (b \o c) = (a \o b) \o c
      BY <3>1, ConcatAssociative, SMTT(30)
    <3> QED
      BY <3>2 DEF a, b, c
  <2> QED
    BY <1>1, <1>2, <2>1, <2>2, <2>3 DEF Parses
<1>3. CASE token.kind # "text"
  <2> DEFINE r == (x.items \o x.val) \o <<token>>
  <2>1. ParseToken(x, token) = [val |-> << >>, items |-> r]
    BY <1>3 DEF ParseToken
  <2>2. r \in Seq(S) /\ r \o << >> = r /\ << >> \in Seq(S)
    <3>1. x.items \o x.val \in Seq(S)
      BY <1>1, ConcatProperties
    <3>2. r \in Seq(S)
      BY <1>1, <3>1, ConcatProperties
    <3> QED
      BY <3>2, ConcatEmptySeq
  <2> HIDE DEF r
  <2>3. ParseToken(x, token).items = r /\ ParseToken(x, token).val = << >>
    BY <2>1
  <2>4. ParseToken(x, token) \in Parses(S)
    BY <2>1, <2>2 DEF Parses
  <2>5. r \o << >> = (x.items \o x.val) \o <<token>>
    BY <2>2 DEF r
  <2> QED
    BY <2>3, <2>4, <2>5
<1> QED
  BY <1>2, <1>3

(***************************************************************************)
(* The loop of parsePattern: after each round the items and the gathered   *)
(* text are the tokens up to there, and behind a conversion no text is     *)
(* gathered.                                                               *)
(***************************************************************************)
ParsedUpTo(x, S, p, n) ==
  /\ x \in Parses(S)
  /\ Len(x.items \o x.val) = n /\ \A i \in 1 .. n : (x.items \o x.val)[i] = p[i]
  /\ n > 0 /\ p[n].kind # "text" => x.val = << >>

LEMMA RoundKeeps ==
  ASSUME NEW S, NEW p \in Seq(S), NEW n \in 1 .. Len(p), NEW x, ParsedUpTo(x, S, p, n - 1)
  PROVE  ParsedUpTo(ParseToken(x, p[n]), S, p, n)
<1> DEFINE y == ParseToken(x, p[n])
           a == x.items \o x.val
           b == <<p[n]>>
           c == y.items \o y.val
<1>1. n \in Nat /\ n - 1 \in Nat /\ p[n] \in S
  BY LenProperties, ElementOfSeq
<1>2. x \in Parses(S) /\ Len(a) = n - 1 /\ \A i \in 1 .. n - 1 : a[i] = p[i]
  BY DEF ParsedUpTo
<1>3. y \in Parses(S) /\ c = a \o b /\ (p[n].kind # "text" => y.val = << >>)
  BY <1>1, <1>2, Round
<1>4. a \in Seq(S) /\ b \in Seq(S) /\ Len(b) = 1 /\ b[1] = p[n]
  <2>1. x.items \in Seq(S) /\ x.val \in Seq(S)
    BY <1>2 DEF Parses
  <2> QED
    BY <1>1, <2>1, ConcatProperties
<1> HIDE DEF y, a, b, c
<1>5. /\ Len(c) = Len(a) + Len(b)
      /\ \A i \in 1 .. Len(a) + Len(b) : c[i] = IF i <= Len(a) THEN a[i] ELSE b[i - Len(a)]
  BY <1>3, <1>4, ConcatProperties
<1>6. Len(c) = n /\ \A i \in 1 .. n : c[i] = IF i <= n - 1 THEN a[i] ELSE b[i - (n - 1)]
  BY <1>1, <1>2, <1>4, <1>5
<1>7. \A i \in 1 .. n : c[i] = p[i]
  <2> SUFFICES ASSUME NEW i \in 1 .. n PROVE c[i] = p[i]
    OBVIOUS
  <2>1. CASE i <= n - 1
    BY <1>1, <1>2, <1>6, <2>1
  <2>2. CASE i = n
    <3>1. ~(n <= n - 1) /\ n - (n - 1) = 1 /\ n \in 1 .. n
      BY <1>1
    <3> QED
      BY <1>4, <1>6, <2>2, <3>1
  <2> QED
    BY <1>1, <2>1, <2>2
<1> QED
  BY <1>3, <1>6, <1>7 DEF ParsedUpTo, c, y

LEMMA ParseExists ==
  ASSUME NEW S, NEW p \in Seq(S)
  PROVE  /\ ParseOf(p)[0] = [val |-> << >>, items |-> << >>]
         /\ \A n \in 1 .. Len(p) : ParseOf(p)[n] = ParseToken(ParseOf(p)[n - 1], p[n])
<1> DEFINE N == Len(p)
           P == Parses(S)
           a == [val |-> << >>, items |-> << >>]
           step == [n \in 1 .. N |-> [x \in P |-> ParseToken(x, p[n])]]
           Body(g) == [n \in 0 .. N |-> IF n = 0 THEN a ELSE ParseToken(g[n - 1], p[n])]
           g == ParseOf(p)
<1>1. N \in Nat /\ \A n \in 1 .. N : p[n] \in S
  BY LenProperties, ElementOfSeq
<1>2. a \in P
  BY DEF Parses
<1>3. \A n \in 1 .. N, x \in P : ParseToken(x, p[n]) \in P
  <2> SUFFICES ASSUME NEW n \in 1 .. N, NEW x \in P PROVE ParseToken(x, p[n]) \in P
    OBVIOUS
  <2>1. p[n] \in S
    BY <1>1
  <2> QED
    BY <2>1, Round
<1> HIDE DEF N, P, a
<1>4. step \in [1 .. N -> [P -> P]]
  BY <1>3
<1>5. \A n \in 1 .. N, x \in P : step[n][x] = ParseToken(x, p[n])
  OBVIOUS
<1> HIDE DEF step
<1>6. PICK f \in [0 .. N -> P] : Recurs(f, N, a, step)
  BY <1>1, <1>2, <1>4, RecursionExists, Zenon
<1>7. f = Body(f)
  <2>1. \A n \in 1 .. N : n - 1 \in 0 .. N
    BY <1>1
  <2>2. \A n \in 1 .. N : f[n] = ParseToken(f[n - 1], p[n])
    BY <1>5, <1>6, <2>1 DEF Recurs
  <2>3. \A n \in 0 .. N : f[n] = IF n = 0 THEN a ELSE ParseToken(f[n - 1], p[n])
    BY <1>1, <1>6, <2>2 DEF Recurs
  <2> QED
    BY <1>6, <2>3
<1>8. g = Body(g)
  <2>1. g = CHOOSE h : h = Body(h)
    BY Zenon DEF ParseOf, N, a
  <2> HIDE DEF g, Body
  <2> QED
    BY <1>7, <2>1
<1>9. \A n \in 0 .. N : g[n] = IF n = 0 THEN a ELSE ParseToken(g[n - 1], p[n])
  <2> HIDE DEF g
  <2> QED
    BY <1>8
<1>10. g[0] = a /\ \A n \in 1 .. N : g[n] = ParseToken(g[n - 1], p[n])
  <2> HIDE DEF g
  <2> QED
    BY <1>1, <1>9
<1> QED
  BY <1>10 DEF a, g, N

LEMMA ParseFacts ==
  ASSUME NEW S, NEW p \in Seq(S)
  PROVE  ParsedUpTo(Parsed(p)[Len(p)], S, p, Len(p))
<1> DEFINE g == ParseOf(p)
           N == Len(p)
           T == {n \in 0 .. N : ParsedUpTo(g[n], S, p, n)}
<1>1. N \in Nat /\ g[0] = [val |-> << >>, items |-> << >>]
      /\ \A n \in 1 .. N : g[n] = ParseToken(g[n - 1], p[n])
  BY LenProperties, ParseExists
<1> HIDE DEF g
<1>2. 0 \in T
  <2>1. g[0] \in Parses(S) /\ g[0].items \o g[0].val = << >>
    BY <1>1 DEF Parses
  <2>2. ParsedUpTo(g[0], S, p, 0)
    BY <2>1 DEF ParsedUpTo
  <2> QED
    BY <1>1, <2>2
<1>3. ASSUME NEW n \in 1 .. N, n - 1 \in T
      PROVE  n \in T
  <2>1. ParsedUpTo(g[n - 1], S, p, n - 1) /\ g[n] = ParseToken(g[n - 1], p[n])
    BY <1>1, <1>3
  <2>2. ParsedUpTo(g[n], S, p, n)
    BY <2>1, RoundKeeps
  <2> QED
    BY <1>1, <2>2
<1> HIDE DEF T
<1>4. 0 .. N \subseteq T
  BY <1>1, <1>2, <1>3, UpTo
<1>5. N \in T
  BY <1>1, <1>4
<1> QED
  BY <1>5, ParsedIs DEF T, g

(***************************************************************************)
(* The items are tokens of the pattern, and all of them if it is one that  *)
(* is accepted and ends in a conversion.                                   *)
(***************************************************************************)
LEMMA PatternFacts ==
  ASSUME NEW S, NEW p \in Seq(S)
  PROVE  /\ parsePattern(p) \in Seq(S)
         /\ EndsInConversion(p) => parsePattern(p) = p
<1> DEFINE x == Parsed(p)[Len(p)]
<1>1. /\ x \in Parses(S)
      /\ Len(x.items \o x.val) = Len(p) /\ \A i \in 1 .. Len(p) : (x.items \o x.val)[i] = p[i]
      /\ Len(p) > 0 /\ p[Len(p)].kind # "text" => x.val = << >>
  BY ParseFacts DEF ParsedUpTo
<1>2. parsePattern(p) = IF Contains(p, Broken) THEN << >> ELSE x.items
  BY DEF parsePattern
<1> HIDE DEF x
<1>3. x.items \in Seq(S) /\ x.val \in Seq(S)
  BY <1>1 DEF Parses
<1>4. parsePattern(p) \in Seq(S)
  BY <1>2, <1>3
<1>5. ASSUME EndsInConversion(p)
      PROVE  parsePattern(p) = p
  <2>1. parsePattern(p) = x.items /\ p[Len(p)].kind = "conv"
    BY <1>2, <1>5 DEF EndsInConversion, Last
  <2>2. Len(p) \in Nat
    BY LenProperties
  <2>3. x.items \o x.val = p
    <3>1. x.items \o x.val \in Seq(S)
      BY <1>3, ConcatProperties
    <3> QED
      BY <1>1, <3>1, SeqEqual
  <2>4. CASE Len(p) > 0
    <3>1. x.val = << >>
      BY <1>1, <2>1, <2>4
    <3> QED
      BY <1>3, <2>1, <2>3, <3>1, ConcatEmptySeq
  <2>5. CASE Len(p) = 0
    <3>1. p = << >>
      BY <2>5, EmptySeq
    <3>2. x.items = << >>
      BY <1>3, <2>3, <3>1, ConcatEqualIffEmpty
    <3> QED
      BY <2>1, <3>1, <3>2
  <2> QED
    BY <2>2, <2>4, <2>5
<1> QED
  BY <1>4, <1>5

-----------------------------------------------------------------------------
(* The loggers.                                                            *)

(***************************************************************************)
(* A step that begins, formats and logs nothing.                           *)
(***************************************************************************)
LEMMA LoggersAtRest ==
  ASSUME LogInv, UNCHANGED <<items_, made, line, logged>>, now' \in 0 .. MaxTime,
         TimeFormats' = TimeFormats, PatternsInHand', TimesInHand',
         \A u \in Threads :
           /\ at'[u] \in {"dealloc", "log"} => at[u] \in {"dealloc", "log"}
           /\ at'[u] = "format" =>
                at[u] = "format" /\ mem'[bucket'[u]][slot'[u]] = mem[bucket[u]][slot[u]]
           /\ at'[u] \notin {"idle", "crashed"} => at[u] \notin {"idle", "crashed"}
  PROVE  LogInv'
<1>1. CallsInHand'
  BY DEF LogInv, CallsInHand
<1>2. MessageInHand'
  BY DEF LogInv, MessageInHand, MessageOf
<1>3. LineInHand'
  BY DEF LogInv, LineInHand
<1>4. LogsAreSequences'
  BY DEF LogInv, LogsAreSequences
<1>5. LinesAreOwn'
  BY DEF LogInv, LinesAreOwn
<1> QED
  BY <1>1, <1>2, <1>3, <1>4, <1>5 DEF LogInv

(***************************************************************************)
(* What one thread writes into its object is not in another one's.         *)
(***************************************************************************)
LEMMA OthersUntouched ==
  ASSUME PoolInv, NEW t \in Threads, slot[t] # Null, NEW v,
         v.kind = "link" => v.next \in Pointers \cup {Null},
         mem' = [mem EXCEPT ![bucket[t]][slot[t]] = v],
         NEW u \in Threads \ {t}, slot[u] # Null
  PROVE  mem'[bucket[u]][slot[u]] = mem[bucket[u]][slot[u]]
<1>1. /\ Typed /\ bucket[t] \in Buckets /\ slot[t] \in Addresses
      /\ bucket[u] \in Buckets /\ slot[u] \in Addresses
  BY PoolByBucket, TypeFacts
<1>2. CASE bucket[u] = bucket[t]
  <2>1. freeList_[bucket[t]] # Wild
    BY <1>1, PoolByBucket DEF WildInv, Holders
  <2>2. slot[u] # slot[t]
    BY <1>1, <1>2, <2>1 DEF PoolInv, ObjectsExclusive
  <2> QED
    BY <1>1, <1>2, <2>2, MemoryWritten
<1>3. CASE bucket[u] # bucket[t]
  BY <1>1, <1>3, MemoryWritten
<1> QED
  BY <1>2, <1>3

(***************************************************************************)
(* One more entry in a logger's history.                                   *)
(***************************************************************************)
LEMMA OneMoreEntry ==
  ASSUME NEW s, s \in Seq({s[i] : i \in DOMAIN s}), NEW e, NEW r, r = Append(s, e)
  PROVE  /\ r \in Seq({r[i] : i \in DOMAIN r})
         /\ \A i \in DOMAIN r : (i \in DOMAIN s /\ r[i] = s[i]) \/ r[i] = e
<1> DEFINE S == {s[i] : i \in DOMAIN s} \cup {e}
<1>1. s \in Seq(S) /\ e \in S
  OBVIOUS
<1>2. /\ r \in Seq(S) /\ DOMAIN s = 1 .. Len(s) /\ Len(s) \in Nat /\ Len(r) = Len(s) + 1
      /\ DOMAIN r = 1 .. Len(r) /\ r[Len(s) + 1] = e
      /\ \A i \in 1 .. Len(s) : r[i] = s[i]
  BY <1>1, AppendProperties, LenProperties
<1>3. \A i \in DOMAIN r : (i \in DOMAIN s /\ r[i] = s[i]) \/ r[i] = e
  BY <1>2
<1>4. r \in Seq({r[i] : i \in DOMAIN r})
  <2> DEFINE T == {r[i] : i \in DOMAIN r}
  <2>1. r \in Seq(S)
    BY <1>2
  <2> HIDE DEF S
  <2>2. PICK n \in Nat : r \in [1 .. n -> S]
    <3>1. r \in UNION {[1 .. n -> S] : n \in Nat}
      BY <2>1, SeqDef, Zenon
    <3> QED
      BY <3>1
  <2>3. 1 .. n = DOMAIN r /\ r = [i \in 1 .. n |-> r[i]]
    BY <2>2
  <2>4. r \in [1 .. n -> T]
    BY <2>3
  <2> HIDE DEF T
  <2>5. r \in Seq(T)
    <3>1. r \in UNION {[1 .. m -> T] : m \in Nat}
      BY <2>2, <2>4
    <3> QED
      BY <3>1, SeqDef, Zenon
  <2> QED
    BY <2>5 DEF T
<1> QED
  BY <1>3, <1>4

(***************************************************************************)
(* The call that a thread is in.                                           *)
(***************************************************************************)
LEMMA CallFacts ==
  ASSUME CallsInHand, NEW t \in Threads
  PROVE  /\ Len(Calls[t]) \in Nat /\ made[t] \in 0 .. Len(Calls[t])
         /\ at[t] \notin {"idle", "crashed"} =>
              made[t] \in DOMAIN Calls[t] /\ Calls[t][made[t]].logger \in Loggers
<1>1. Len(Calls[t]) \in Nat /\ DOMAIN Calls[t] = 1 .. Len(Calls[t])
  BY LoggingAssumption, LenProperties
<1>2. made[t] \in 0 .. Len(Calls[t]) /\ (at[t] \notin {"idle", "crashed"} => made[t] # 0)
  BY DEF CallsInHand
<1>3. \A i \in DOMAIN Calls[t] : Calls[t][i].logger \in Loggers
  BY LoggingAssumption
<1>4. at[t] \notin {"idle", "crashed"} => made[t] \in DOMAIN Calls[t]
  BY <1>1, <1>2
<1> QED
  BY <1>1, <1>2, <1>3, <1>4

(***************************************************************************)
(* Nothing changes a formatter.                                            *)
(***************************************************************************)
LEMMA FormattersStay ==
  ASSUME [Next]_vars
  PROVE  /\ UNCHANGED formatters /\ items_' = items_ /\ pattern' = pattern
         /\ TimeFormats' = TimeFormats
         /\ PatternsInHand => PatternsInHand'
<1>1. UNCHANGED formatters
  BY DEF Next, InCall, LogImpl, AllocMessage, ConstructMessage, Format, DeallocMessage, Log,
         Tick, Restart, vars
<1> QED
  BY <1>1 DEF formatters, TimeFormats, PatternsInHand

(***************************************************************************)
(* A logger's items are tokens of its pattern.                             *)
(***************************************************************************)
LEMMA ItemsFacts ==
  ASSUME PatternsInHand, NEW l \in Loggers
  PROVE  /\ items_[l] = parsePattern(pattern[l])
         /\ items_[l] \in Seq(ToSet(pattern[l])) /\ pattern[l] \in Seq(ToSet(pattern[l]))
         /\ Len(items_[l]) \in Nat /\ DOMAIN items_[l] = 1 .. Len(items_[l])
         /\ \A i \in DOMAIN items_[l] : IsTime(items_[l][i]) =>
              TimeFormatOf(items_[l][i]) \in TimeFormats
<1> DEFINE S == ToSet(pattern[l])
<1>1. pattern[l] \in Seq(S) /\ items_[l] = parsePattern(pattern[l])
  BY LoggingAssumption DEF PatternsInHand, ToSet
<1>2. items_[l] \in Seq(S)
  BY <1>1, PatternFacts
<1>3. Len(items_[l]) \in Nat /\ DOMAIN items_[l] = 1 .. Len(items_[l])
      /\ \A i \in 1 .. Len(items_[l]) : items_[l][i] \in S
  BY <1>2, LenProperties, ElementOfSeq
<1>4. \A x \in S : IsTime(x) => TimeFormatOf(x) \in TimeFormats
  BY DEF TimeFormats
<1> QED
  BY <1>1, <1>2, <1>3, <1>4

(***************************************************************************)
(* The first of the time items is one.                                     *)
(***************************************************************************)
LEMMA FirstTimeIs ==
  ASSUME NEW items, DOMAIN items \subseteq Nat, HasTime(items)
  PROVE  FirstTime(items) \in DOMAIN items /\ IsTime(items[FirstTime(items)])
<1> DEFINE E == {i \in DOMAIN items : IsTime(items[i])}
<1>1. E # {} /\ E \subseteq Nat
  BY DEF HasTime
<1> HIDE DEF E
<1>2. \E i \in E : \A j \in E : ~(<<j, i>> \in OpToRel(<, Nat))
  BY <1>1, NatLessThanWellFounded, WFMin
<1>3. \E i \in E : \A j \in E : ~(j < i)
  BY <1>1, <1>2 DEF OpToRel
<1>4. \E i \in DOMAIN items :
        IsTime(items[i]) /\ \A j \in DOMAIN items : j < i => ~IsTime(items[j])
  BY <1>3 DEF E
<1> QED
  BY <1>4, Zenon DEF FirstTime

(***************************************************************************)
(* What TimeFormatItem finds in the cache, or puts there, is the second of *)
(* the message, in a format of some logger.                                *)
(***************************************************************************)
LEMMA CacheFacts ==
  ASSUME PatternsInHand, TimesInHand, NEW t \in Threads, NEW l \in Loggers, NEW message,
         message.curtime \in 0 .. MaxTime
  PROVE  LET cache == TimeCached(t, items_[l], message)
         IN  /\ cache.last \in (0 .. MaxTime) \cup {Null}
             /\ cache.last # Null => \E f \in TimeFormats : cache.text = Formatted(f, cache.last)
             /\ HasTime(items_[l]) =>
                  \E f \in TimeFormats : cache.text = Formatted(f, message.curtime)
<1> DEFINE items == items_[l]
           cache == TimeCached(t, items, message)
           second == message.curtime
<1>1. second # Null
  BY PoolAssumption
<1>2. /\ last_cached[t] \in (0 .. MaxTime) \cup {Null}
      /\ last_cached[t] # Null => \E f \in TimeFormats : cached_time[t] = Formatted(f, last_cached[t])
  BY DEF TimesInHand
<1>3. CASE HasTime(items) /\ last_cached[t] # second
  <2> DEFINE format == TimeFormatOf(items[FirstTime(items)])
  <2>1. cache.last = second /\ cache.text = Formatted(format, second)
    BY <1>3 DEF TimeCached
  <2>2. format \in TimeFormats
    <3>1. DOMAIN items \subseteq Nat
      BY ItemsFacts
    <3>2. FirstTime(items) \in DOMAIN items /\ IsTime(items[FirstTime(items)])
      BY <1>3, <3>1, FirstTimeIs
    <3> QED
      BY <3>2, ItemsFacts
  <2> HIDE DEF cache, format
  <2> QED
    BY <2>1, <2>2 DEF cache
<1>4. CASE ~(HasTime(items) /\ last_cached[t] # second)
  <2>1. cache.last = last_cached[t] /\ cache.text = cached_time[t]
    BY <1>4 DEF TimeCached
  <2>2. HasTime(items) => last_cached[t] = second
    BY <1>4
  <2> HIDE DEF cache
  <2> QED
    BY <1>1, <1>2, <2>1, <2>2 DEF cache
<1> QED
  BY <1>3, <1>4

(***************************************************************************)
(* Every step keeps the caches right.                                      *)
(***************************************************************************)
LEMMA TimesStep ==
  ASSUME LogInv, [Next]_vars
  PROVE  TimesInHand'
<1>1. TimesInHand /\ PatternsInHand /\ TimeFormats' = TimeFormats
  BY FormattersStay DEF LogInv
<1>2. CASE UNCHANGED <<last_cached, cached_time>>
  BY <1>1, <1>2 DEF TimesInHand
<1>3. ASSUME NEW t \in Threads, Format(t)
      PROVE  TimesInHand'
  <2> DEFINE message == mem[bucket[t]][slot[t]]
             cache   == TimeCached(t, items_[Call(t).logger], message)
  <2>1. /\ at[t] = "format"
        /\ last_cached' = [last_cached EXCEPT ![t] = cache.last]
        /\ cached_time' = [cached_time EXCEPT ![t] = cache.text]
    BY <1>3 DEF Format
  <2>2. message.curtime \in 0 .. MaxTime
    <3>1. PICK second \in 0 .. MaxTime : message = MessageOf(t, made[t], second)
      BY <2>1 DEF LogInv, MessageInHand
    <3> HIDE DEF message
    <3> QED
      BY <3>1 DEF MessageOf
  <2>3. Call(t).logger \in Loggers
    BY <2>1, CallFacts DEF LogInv, Call
  <2> HIDE DEF message
  <2>4. /\ cache.last \in (0 .. MaxTime) \cup {Null}
        /\ cache.last # Null => \E f \in TimeFormats : cache.text = Formatted(f, cache.last)
    BY <1>1, <2>2, <2>3, CacheFacts
  <2> HIDE DEF cache
  <2>5. /\ last_cached' \in [Threads -> (0 .. MaxTime) \cup {Null}]
        /\ cached_time' = [u \in Threads |-> cached_time'[u]]
        /\ last_cached'[t] = cache.last /\ cached_time'[t] = cache.text
        /\ \A u \in Threads \ {t} : last_cached'[u] = last_cached[u] /\ cached_time'[u] = cached_time[u]
    BY <1>1, <2>1, <2>4 DEF TimesInHand
  <2> QED
    BY <1>1, <2>4, <2>5 DEF TimesInHand
<1>4. CASE Restart
  <2>1. last_cached' = [t \in Threads |-> Null] /\ cached_time' = [t \in Threads |-> Null]
    BY <1>4 DEF Restart
  <2> QED
    BY <2>1 DEF TimesInHand
<1>5. CASE UNCHANGED vars
  BY <1>2, <1>5 DEF vars, threadVars
<1>6. ASSUME NEW t \in Threads,
             LogImpl(t) \/ AllocMessage(t) \/ ConstructMessage(t) \/ DeallocMessage(t) \/ Log(t)
      PROVE  TimesInHand'
  BY <1>2, <1>6 DEF LogImpl, AllocMessage, ConstructMessage, DeallocMessage, Log, threadVars
<1>7. CASE Tick
  BY <1>2, <1>7 DEF Tick, threadVars
<1> QED
  BY <1>3, <1>4, <1>5, <1>6, <1>7 DEF Next, InCall

(***************************************************************************)
(* Every step keeps the loggers' invariant.                                *)
(***************************************************************************)
LEMMA LogStep ==
  ASSUME PoolInv, LogInv, [Next]_vars
  PROVE  LogInv'
<1>1. /\ Typed /\ SlotsInUse /\ bucket \in [Threads -> Buckets] /\ DOMAIN at = Threads
      /\ DOMAIN slot = Threads
      /\ \A t \in Threads : bucket[t] \in Buckets
      /\ now \in 0 .. MaxTime /\ CallsInHand /\ MessageInHand /\ LineInHand
      /\ LogsAreSequences /\ LinesAreOwn /\ PatternsInHand /\ TimesInHand
      /\ items_' = items_ /\ TimeFormats' = TimeFormats /\ PatternsInHand' /\ TimesInHand'
  BY PoolByBucket, TypeFacts, FormattersStay, TimesStep DEF Typed, PoolTypeOK, LogInv, CallsInHand
<1>2. ASSUME NEW t \in Threads, LogImpl(t)
      PROVE  LogInv'
  <2>1. /\ at[t] = "idle" /\ made[t] < Len(Calls[t]) /\ made' = [made EXCEPT ![t] = @ + 1]
        /\ at' = [at EXCEPT ![t] = "alloc"]
        /\ \E b \in Buckets : bucket' = [bucket EXCEPT ![t] = b]
        /\ UNCHANGED <<mem, slot, items_, line, now, logged>>
    BY <1>2 DEF LogImpl, pageVars, formatters, sinkVars
  <2>2. /\ at'[t] = "alloc"
        /\ \A u \in Threads \ {t} : at'[u] = at[u] /\ made'[u] = made[u] /\ bucket'[u] = bucket[u]
    BY <1>1, <2>1 DEF CallsInHand
  <2>3. CallsInHand'
    <3>1. made' \in [Threads -> Nat] /\ made'[t] = made[t] + 1 /\ made[t] \in Nat
      BY <1>1, <2>1 DEF CallsInHand
    <3>2. made'[t] \in 0 .. Len(Calls[t]) /\ made'[t] # 0
      BY <1>1, <2>1, <3>1, CallFacts
    <3> QED
      BY <1>1, <2>1, <2>2, <3>1, <3>2 DEF CallsInHand
  <2>4. MessageInHand'
    BY <1>1, <2>1, <2>2 DEF MessageInHand
  <2>5. LineInHand'
    BY <1>1, <2>1, <2>2 DEF LineInHand
  <2>6. LogsAreSequences' /\ LinesAreOwn'
    BY <1>1, <2>1 DEF LogsAreSequences, LinesAreOwn
  <2> QED
    BY <1>1, <2>3, <2>4, <2>5, <2>6 DEF LogInv
<1>3. ASSUME NEW t \in Threads, AllocMessage(t)
      PROVE  LogInv'
  <2>1. UNCHANGED <<items_, made, line, now, logged, mem, bucket>>
    BY <1>3 DEF AllocMessage, formatters, threadVars, sinkVars, AllocObject, AllocWaits,
                AllocReuses, AllocCuts, AllocCrashes, poolVars, pageVars
  <2>2. \/ at[t] = "alloc" /\ at' = [at EXCEPT ![t] = "waiting"] /\ slot' = slot
        \/ /\ at[t] = "alloc" /\ at' = [at EXCEPT ![t] = "construct"]
           /\ \A u \in Threads \ {t} : slot'[u] = slot[u]
        \/ at' = [u \in Threads |-> "crashed"]
    BY <1>1, <1>3 DEF AllocMessage, AllocObject, AllocWaits, AllocReuses, AllocCuts,
                      AllocCrashes, poolVars
  <2>3. \A u \in Threads :
          /\ at'[u] \in {"dealloc", "log"} => at[u] \in {"dealloc", "log"}
          /\ at'[u] = "format" => at[u] = "format" /\ slot'[u] = slot[u]
          /\ at'[u] \notin {"idle", "crashed"} => at[u] \notin {"idle", "crashed"}
    BY <1>1, <2>2
  <2> QED
    BY <1>1, <2>1, <2>3, LoggersAtRest
<1>4. ASSUME NEW t \in Threads, ConstructMessage(t)
      PROVE  LogInv'
  <2> DEFINE message == Message(t, Call(t).payload)
  <2>1. /\ at[t] = "construct" /\ mem' = [mem EXCEPT ![bucket[t]][slot[t]] = message]
        /\ at' = [at EXCEPT ![t] = "format"]
        /\ UNCHANGED <<bucket, slot, items_, made, line, now, logged>>
    BY <1>4 DEF ConstructMessage, Construct, formatters, threadVars, sinkVars
  <2>2. message = MessageOf(t, made[t], now) /\ message.kind = "message"
    BY DEF Message, MessageOf, Call
  <2> HIDE DEF message
  <2>3. slot[t] # Null /\ slot[t] \in Addresses
    BY <1>1, <2>1, TypeFacts DEF SlotsInUse
  <2>4. /\ at'[t] = "format" /\ \A u \in Threads \ {t} : at'[u] = at[u]
    BY <1>1, <2>1
  <2>5. CallsInHand'
    BY <1>1, <2>1, <2>4 DEF CallsInHand
  <2>6. MessageInHand'
    <3>1. mem'[bucket[t]][slot[t]] = MessageOf(t, made[t], now)
      BY <1>1, <2>1, <2>2, <2>3, TypeFacts
    <3>2. ASSUME NEW u \in Threads \ {t}, at'[u] = "format"
          PROVE  mem'[bucket[u]][slot[u]] = mem[bucket[u]][slot[u]] /\ at[u] = "format"
      <4>1. at[u] = "format" /\ slot[u] # Null
        BY <1>1, <2>4, <3>2 DEF SlotsInUse
      <4>2. message.kind # "link"
        BY <2>2
      <4> QED
        BY <2>1, <2>3, <4>1, <4>2, OthersUntouched
    <3> QED
      BY <1>1, <2>1, <2>4, <3>1, <3>2 DEF MessageInHand
  <2>7. LineInHand'
    BY <1>1, <2>1, <2>4 DEF LineInHand
  <2>8. LogsAreSequences' /\ LinesAreOwn'
    BY <1>1, <2>1 DEF LogsAreSequences, LinesAreOwn
  <2> QED
    BY <1>1, <2>5, <2>6, <2>7, <2>8 DEF LogInv
<1>5. ASSUME NEW t \in Threads, Format(t)
      PROVE  LogInv'
  <2> DEFINE message == mem[bucket[t]][slot[t]]
             items   == items_[Call(t).logger]
             time    == TimeCached(t, items, message).text
  <2>1. /\ at[t] = "format" /\ at' = [at EXCEPT ![t] = "dealloc"]
        /\ line' = [line EXCEPT ![t] = [i \in DOMAIN items |-> Piece(items[i], message, time)]]
        /\ UNCHANGED <<mem, bucket, slot, items_, made, now, logged>>
    BY <1>5 DEF Format, formatters, poolVars, pageVars, sinkVars
  <2>2. PICK second \in 0 .. MaxTime : message = MessageOf(t, made[t], second)
    BY <1>1, <2>1 DEF MessageInHand
  <2> HIDE DEF message
  <2>3. HasTime(items) => \E f \in TimeFormats : time = Formatted(f, second)
    <3>1. message.curtime = second
      BY <2>2 DEF MessageOf
    <3>2. Call(t).logger \in Loggers
      BY <1>1, <2>1, CallFacts DEF Call
    <3> QED
      BY <1>1, <3>1, <3>2, CacheFacts
  <2> HIDE DEF time
  <2>4. /\ at'[t] = "dealloc" /\ \A u \in Threads \ {t} : at'[u] = at[u]
    BY <1>1, <2>1
  <2>5. line' = [u \in Threads |-> line'[u]] /\ \A u \in Threads \ {t} : line'[u] = line[u]
    BY <1>1, <2>1 DEF LineInHand
  <2>6. IsLineOf(line'[t], items_, TimeFormats, t, made[t])
    <3>1. line'[t] = [i \in DOMAIN items |-> Piece(items[i], message, time)]
      BY <1>1, <2>1 DEF LineInHand
    <3> QED
      BY <2>2, <2>3, <3>1 DEF IsLineOf, Call
  <2>7. CallsInHand'
    BY <1>1, <2>1, <2>4 DEF CallsInHand
  <2>8. MessageInHand'
    BY <1>1, <2>1, <2>4 DEF MessageInHand
  <2>9. LineInHand'
    BY <1>1, <2>1, <2>4, <2>5, <2>6 DEF LineInHand
  <2>10. LogsAreSequences' /\ LinesAreOwn'
    BY <1>1, <2>1 DEF LogsAreSequences, LinesAreOwn
  <2> QED
    BY <1>1, <2>7, <2>8, <2>9, <2>10 DEF LogInv
<1>6. ASSUME NEW t \in Threads, DeallocMessage(t)
      PROVE  LogInv'
  <2> DEFINE v == Link(freeList_[bucket[t]])
  <2>1. /\ at[t] = "dealloc" /\ mem' = [mem EXCEPT ![bucket[t]][slot[t]] = v]
        /\ slot' = [slot EXCEPT ![t] = Null]
        /\ Notify(bucket[t], [at EXCEPT ![t] = "log"])
        /\ UNCHANGED <<bucket, items_, made, line, now, logged>>
    BY <1>6 DEF DeallocMessage, Dealloc, formatters, threadVars, sinkVars
  <2>2. v.next \in Pointers \cup {Null}
    BY <1>1, TypeFacts DEF Link
  <2> HIDE DEF v
  <2>3. slot[t] # Null /\ \A u \in Threads \ {t} : slot'[u] = slot[u]
    BY <1>1, <2>1 DEF SlotsInUse
  <2>4. /\ at'[t] = "log"
        /\ \A u \in Threads \ {t} : at'[u] = at[u] \/ (at[u] = "waiting" /\ at'[u] = "alloc")
    <3>1. CASE at' = [at EXCEPT ![t] = "log"]
      BY <1>1, <3>1
    <3>2. ASSUME NEW w \in Waiting(bucket[t]), at' = [[at EXCEPT ![t] = "log"] EXCEPT ![w] = "alloc"]
          PROVE  /\ at'[t] = "log"
                 /\ \A u \in Threads \ {t} : at'[u] = at[u] \/ (at[u] = "waiting" /\ at'[u] = "alloc")
      <4>1. w \in Threads /\ at[w] = "waiting" /\ w # t
        BY <2>1 DEF Waiting
      <4> QED
        BY <1>1, <3>2, <4>1
    <3> QED
      BY <2>1, <3>1, <3>2 DEF Notify
  <2>5. ASSUME NEW u \in Threads, at'[u] = "format"
        PROVE  at[u] = "format" /\ mem'[bucket'[u]][slot'[u]] = mem[bucket[u]][slot[u]]
    <3>1. u # t /\ at[u] = "format" /\ slot'[u] = slot[u] /\ slot[u] # Null
      BY <1>1, <2>3, <2>4, <2>5 DEF SlotsInUse
    <3> QED
      BY <2>1, <2>2, <2>3, <3>1, OthersUntouched
  <2>6. \A u \in Threads :
          /\ at'[u] \in {"dealloc", "log"} => at[u] \in {"dealloc", "log"}
          /\ at'[u] \notin {"idle", "crashed"} => at[u] \notin {"idle", "crashed"}
    BY <2>1, <2>4
  <2> QED
    BY <1>1, <2>1, <2>5, <2>6, LoggersAtRest
<1>7. ASSUME NEW t \in Threads, Log(t)
      PROVE  LogInv'
  <2> DEFINE l == Calls[t][made[t]].logger
  <2>1. /\ at[t] = "log" /\ at' = [at EXCEPT ![t] = "idle"]
        /\ \E junk : logged' = [logged EXCEPT ![l] =
               Append(@, [call |-> <<t, made[t]>>, line |-> line[t], junk |-> junk])]
        /\ UNCHANGED <<mem, bucket, slot, items_, made, line, now>>
    BY <1>7 DEF Log, SinkLog, Call, poolVars, pageVars, formatters, threadVars
  <2>2. PICK junk : logged' = [logged EXCEPT ![l] =
               Append(@, [call |-> <<t, made[t]>>, line |-> line[t], junk |-> junk])]
    BY <2>1
  <2> DEFINE e == [call |-> <<t, made[t]>>, line |-> line[t], junk |-> junk]
  <2>3. /\ at'[t] = "idle" /\ \A u \in Threads \ {t} : at'[u] = at[u]
    BY <1>1, <2>1
  <2>4. made[t] \in DOMAIN Calls[t] /\ l \in Loggers
    BY <1>1, <2>1, CallFacts
  <2>5. IsOwn(e, items_, TimeFormats, l)
    <3>1. IsLineOf(line[t], items_, TimeFormats, t, made[t])
      BY <1>1, <2>1 DEF LineInHand
    <3> QED
      BY <2>4, <3>1 DEF IsOwn
  <2> HIDE DEF e, l
  <2>6. /\ logged' = [k \in Loggers |-> logged'[k]] /\ logged'[l] = Append(logged[l], e)
        /\ \A k \in Loggers \ {l} : logged'[k] = logged[k]
    BY <1>1, <2>2, <2>4 DEF LogsAreSequences, e, l
  <2>7. /\ logged'[l] \in Seq({logged'[l][i] : i \in DOMAIN logged'[l]})
        /\ \A i \in DOMAIN logged'[l] :
             (i \in DOMAIN logged[l] /\ logged'[l][i] = logged[l][i]) \/ logged'[l][i] = e
    <3> DEFINE old == logged[l]
               new == logged'[l]
    <3>1. old \in Seq({old[i] : i \in DOMAIN old}) /\ new = Append(old, e)
      BY <1>1, <2>4, <2>6 DEF LogsAreSequences
    <3> HIDE DEF old, new
    <3>2. /\ new \in Seq({new[i] : i \in DOMAIN new})
          /\ \A i \in DOMAIN new : (i \in DOMAIN old /\ new[i] = old[i]) \/ new[i] = e
      BY <3>1, OneMoreEntry
    <3> QED
      BY <3>2 DEF old, new
  <2>8. LogsAreSequences'
    BY <1>1, <2>6, <2>7 DEF LogsAreSequences
  <2>9. LinesAreOwn'
    <3>1. items_' = items_ /\ TimeFormats' = TimeFormats
      BY <1>1
    <3>2. ASSUME NEW k \in Loggers, NEW i \in DOMAIN logged'[k]
          PROVE  IsOwn(logged'[k][i], items_, TimeFormats, k)
      <4>1. CASE k # l
        BY <1>1, <2>6, <3>2, <4>1 DEF LinesAreOwn
      <4>2. CASE k = l
        BY <1>1, <2>5, <2>7, <3>2, <4>2 DEF LinesAreOwn
      <4> QED
        BY <4>1, <4>2
    <3> QED
      BY <3>1, <3>2 DEF LinesAreOwn
  <2>10. CallsInHand'
    BY <1>1, <2>1, <2>3 DEF CallsInHand
  <2>11. MessageInHand' /\ LineInHand'
    BY <1>1, <2>1, <2>3 DEF MessageInHand, LineInHand
  <2> QED
    BY <1>1, <2>8, <2>9, <2>10, <2>11 DEF LogInv
<1>8. CASE Tick
  <2>1. /\ UNCHANGED <<at, mem, bucket, slot, items_, made, line, logged>>
        /\ now' = now + 1 /\ now < MaxTime
    BY <1>8 DEF Tick, poolVars, pageVars, formatters, threadVars, sinkVars
  <2>2. now' \in 0 .. MaxTime
    BY <1>1, <2>1, LoggingAssumption
  <2> QED
    BY <1>1, <2>1, <2>2, LoggersAtRest
<1>9. CASE Restart
  <2>1. /\ UNCHANGED <<items_, made, now, logged>> /\ at' = [t \in Threads |-> "idle"]
        /\ line' = [t \in Threads |-> << >>]
    BY <1>9 DEF Restart, formatters
  <2>2. \A t \in Threads : at'[t] = "idle"
    BY <2>1
  <2>3. CallsInHand'
    BY <1>1, <2>1, <2>2 DEF CallsInHand
  <2>4. MessageInHand' /\ LineInHand'
    BY <2>1, <2>2 DEF MessageInHand, LineInHand
  <2>5. LogsAreSequences' /\ LinesAreOwn'
    BY <1>1, <2>1 DEF LogsAreSequences, LinesAreOwn
  <2> QED
    BY <1>1, <2>3, <2>4, <2>5 DEF LogInv
<1>10. CASE UNCHANGED vars
  <2>1. UNCHANGED <<at, mem, bucket, slot, items_, made, line, logged, now>>
    BY <1>10 DEF vars, poolVars, pageVars, formatters, threadVars, sinkVars
  <2> QED
    BY <1>1, <2>1, LoggersAtRest
<1> QED
  BY <1>2, <1>3, <1>4, <1>5, <1>6, <1>7, <1>8, <1>9, <1>10 DEF Next, InCall

-----------------------------------------------------------------------------
(* The sinks.                                                              *)

(***************************************************************************)
(* The open file of a sequence of files with different names.              *)
(***************************************************************************)
LEMMA OpenedFacts ==
  ASSUME NEW W, NEW fs \in Seq(File(W)), NamesDiffer(fs), NEW name \in (0 .. MaxTime) \X Nat
  PROVE  LET r == Opened(fs, name)
             k == IndexOf(r, name)
         IN  /\ r \in Seq(File(W)) /\ NamesDiffer(r) /\ k \in DOMAIN r
             /\ r[k].opened = 1 => r[k].lines = << >>
             /\ \A i \in DOMAIN r : i # k => i \in DOMAIN fs /\ r[i] = fs[i]
<1> DEFINE r == Opened(fs, name)
           k == IndexOf(r, name)
           n == Len(fs)
<1>1. n \in Nat /\ DOMAIN fs = 1 .. n /\ \A i \in 1 .. n : fs[i] \in File(W)
  BY LenProperties, ElementOfSeq
<1>2. CASE \E i \in DOMAIN fs : fs[i].name = name
  <2> DEFINE j == IndexOf(fs, name)
  <2>1. j \in 1 .. n /\ fs[j].name = name
    BY <1>1, <1>2 DEF IndexOf
  <2> HIDE DEF j
  <2>2. r = [fs EXCEPT ![j].opened = @ + 1]
    BY <1>2 DEF Opened, j
  <2> DEFINE f == [fs[j] EXCEPT !.opened = @ + 1]
  <2>3. f \in File(W) /\ f.name = name /\ f.opened # 1
    <3> DEFINE x == fs[j]
               m == x.opened + 1
    <3>1. x \in File(W) /\ x.name = name
      BY <1>1, <2>1
    <3> HIDE DEF x
    <3>2. m \in Nat \ {0} /\ m # 1
      BY <3>1 DEF File
    <3>3. f = [x EXCEPT !.opened = m]
      BY DEF x
    <3> HIDE DEF f, m
    <3> QED
      BY <3>1, <3>2, <3>3 DEF File
  <2>4. r = [fs EXCEPT ![j] = f]
    BY <2>2
  <2> HIDE DEF r, f
  <2>5. /\ r \in Seq(File(W)) /\ DOMAIN r = 1 .. n /\ r[j] = f
        /\ \A i \in 1 .. n : i # j => r[i] = fs[i]
    BY <1>1, <2>1, <2>3, <2>4, ExceptSeq
  <2>6. \A i \in 1 .. n : r[i].name = fs[i].name
    BY <2>1, <2>3, <2>5
  <2>7. NamesDiffer(r)
    BY <1>1, <2>5, <2>6 DEF NamesDiffer
  <2>8. k = j
    <3>1. \E i \in DOMAIN r : r[i].name = name
      BY <2>1, <2>5, <2>6
    <3>2. k \in DOMAIN r /\ r[k].name = name
      BY <3>1 DEF IndexOf
    <3> HIDE DEF k
    <3> QED
      BY <2>1, <2>5, <2>6, <2>7, <3>2 DEF NamesDiffer
  <2> HIDE DEF k
  <2>9. /\ k \in DOMAIN r /\ r[k].opened # 1
        /\ \A i \in DOMAIN r : i # k => i \in DOMAIN fs /\ r[i] = fs[i]
    BY <1>1, <2>1, <2>3, <2>5, <2>8
  <2> QED
    BY <2>5, <2>7, <2>9 DEF r, k
<1>3. CASE ~ \E i \in DOMAIN fs : fs[i].name = name
  <2> DEFINE f == [name |-> name, lines |-> << >>, opened |-> 1]
  <2>1. f \in File(W) /\ f.name = name /\ f.lines = << >>
    BY DEF File
  <2>2. r = Append(fs, f)
    BY <1>3 DEF Opened
  <2> HIDE DEF r, f
  <2>3. /\ r \in Seq(File(W)) /\ Len(r) = n + 1 /\ r[n + 1] = f
        /\ \A i \in 1 .. n : r[i] = fs[i]
    BY <2>1, <2>2, AppendProperties
  <2>4. DOMAIN r = 1 .. n + 1
    BY <2>3, LenProperties
  <2>5. \A i \in 1 .. n : r[i].name # name /\ fs[i].name # name
    BY <1>1, <1>3, <2>3
  <2>6. \A i \in 1 .. n + 1 : i \in 1 .. n \/ i = n + 1
    BY <1>1
  <2>7. NamesDiffer(r)
    BY <1>1, <2>1, <2>3, <2>4, <2>5, <2>6 DEF NamesDiffer
  <2>8. k = n + 1
    <3>1. n + 1 \in DOMAIN r /\ r[n + 1].name = name
      BY <1>1, <2>1, <2>3, <2>4
    <3>2. k \in DOMAIN r /\ r[k].name = name
      BY <3>1 DEF IndexOf
    <3> HIDE DEF k
    <3> QED
      BY <2>4, <2>5, <2>6, <3>2
  <2> HIDE DEF k
  <2>9. /\ k \in DOMAIN r /\ r[k].lines = << >>
        /\ \A i \in DOMAIN r : i # k => i \in DOMAIN fs /\ r[i] = fs[i]
    BY <1>1, <2>1, <2>3, <2>4, <2>6, <2>8
  <2> QED
    BY <2>3, <2>7, <2>9 DEF r, k
<1> QED
  BY <1>2, <1>3

(***************************************************************************)
(* A part of a file that fits does, too.                                   *)
(***************************************************************************)
LEMMA PartFits ==
  ASSUME NEW W, \A e \in W : Bytes(e.line) \in Nat, NEW s \in Seq(W), NEW r \in Seq(W),
         Len(r) <= Len(s), \A i \in 1 .. Len(r) : r[i] = s[i], Fits(s)
  PROVE  Fits(r)
<1>1. SizeOfLines(r) <= SizeOfLines(s) /\ SizeOfLines(r) \in Nat /\ SizeOfLines(s) \in Nat
  BY SizeFacts
<1>2. Len(r) \in Nat /\ Len(s) \in Nat /\ MaxSize \in Nat
  BY LenProperties, LoggingAssumption
<1> QED
  BY <1>1, <1>2 DEF Fits

(***************************************************************************)
(* An index into two parts laid end to end.                                *)
(***************************************************************************)
LEMMA PartOfSum ==
  ASSUME NEW a \in Nat, NEW b \in Nat, NEW c \in Nat, b <= c, NEW j \in 1 .. a + b
  PROVE  j \in 1 .. a + c /\ (~(j <= a) => j - a \in 1 .. b)
OBVIOUS

(* The files when some lines have been written and one has been opened.    *)
Moved(fs, o, more, name) == Opened([fs EXCEPT ![o].lines = @ \o more], name)

(* What is not the open file k fits, and that one is empty if it is new.   *)
IsReopened(W, fs, k) ==
  /\ fs \in Seq(File(W)) /\ NamesDiffer(fs) /\ k \in DOMAIN fs
  /\ \A i \in DOMAIN fs \ {k} : fs[i].opened = 1 => Fits(fs[i].lines)
  /\ fs[k].opened = 1 => fs[k].lines = << >>

(***************************************************************************)
(* The stream writes a part of what it holds, and a file is opened.        *)
(***************************************************************************)
LEMMA NextFile ==
  ASSUME NEW W, \A e \in W : Bytes(e.line) \in Nat,
         NEW fs, NEW o, NEW held, NEW size, SinkIsRight(W, fs, o, held, size),
         NEW more \in Seq(W), Len(more) <= Len(held), \A i \in 1 .. Len(more) : more[i] = held[i],
         NEW name \in (0 .. MaxTime) \X Nat
  PROVE  IsReopened(W, Moved(fs, o, more, name), IndexOf(Moved(fs, o, more, name), name))
<1> DEFINE g == [fs EXCEPT ![o].lines = @ \o more]
           f == [fs[o] EXCEPT !.lines = @ \o more]
           r == Opened(g, name)
           k == IndexOf(r, name)
           n == Len(fs)
<1>1. /\ n \in Nat /\ DOMAIN fs = 1 .. n /\ \A i \in 1 .. n : fs[i] \in File(W)
      /\ o \in 1 .. n /\ held \in Seq(W) /\ fs \in Seq(File(W)) /\ NamesDiffer(fs)
      /\ \A i \in 1 .. n : fs[i].opened = 1 => Fits(Content(fs, o, held, i))
  BY LenProperties, ElementOfSeq DEF SinkIsRight
<1>2. /\ f \in File(W) /\ f.name = fs[o].name /\ f.lines = fs[o].lines \o more
      /\ f.opened = fs[o].opened
  <2>1. fs[o].lines \in Seq(W)
    BY <1>1 DEF File
  <2>2. fs[o].lines \o more \in Seq(W)
    BY <2>1, ConcatProperties
  <2> QED
    BY <1>1, <2>2 DEF File
<1>3. g = [fs EXCEPT ![o] = f]
  OBVIOUS
<1> HIDE DEF f, g
<1>4. /\ g \in Seq(File(W)) /\ DOMAIN g = 1 .. n /\ g[o] = f
      /\ \A i \in 1 .. n : i # o => g[i] = fs[i]
  BY <1>1, <1>2, <1>3, ExceptSeq
<1>5. NamesDiffer(g)
  <2>1. \A i \in 1 .. n : g[i].name = fs[i].name
    BY <1>2, <1>4
  <2> QED
    BY <1>1, <1>4, <2>1 DEF NamesDiffer
<1>6. /\ r \in Seq(File(W)) /\ NamesDiffer(r) /\ k \in DOMAIN r
      /\ r[k].opened = 1 => r[k].lines = << >>
      /\ \A i \in DOMAIN r : i # k => i \in DOMAIN g /\ r[i] = g[i]
  BY <1>4, <1>5, OpenedFacts
<1> HIDE DEF r, k
<1>7. ASSUME NEW i \in 1 .. n, g[i].opened = 1
      PROVE  Fits(g[i].lines)
  <2>1. CASE i # o
    <3>1. Fits(fs[i].lines \o << >>) /\ fs[i].lines \in Seq(W)
      BY <1>1, <1>4, <1>7, <2>1 DEF Content, File
    <3> QED
      BY <1>4, <2>1, <3>1, ConcatEmptySeq
  <2>2. CASE i = o
    <3> DEFINE a == fs[o].lines
               s == a \o held
               p == a \o more
    <3>1. Fits(s) /\ a \in Seq(W) /\ g[i].lines = p
      BY <1>1, <1>2, <1>4, <1>7, <2>2 DEF Content, File
    <3> HIDE DEF a
    <3>2. /\ s \in Seq(W) /\ Len(s) = Len(a) + Len(held)
          /\ \A j \in 1 .. Len(a) + Len(held) :
               s[j] = IF j <= Len(a) THEN a[j] ELSE held[j - Len(a)]
          /\ p \in Seq(W) /\ Len(p) = Len(a) + Len(more)
          /\ \A j \in 1 .. Len(a) + Len(more) :
               p[j] = IF j <= Len(a) THEN a[j] ELSE more[j - Len(a)]
          /\ Len(a) \in Nat /\ Len(held) \in Nat /\ Len(more) \in Nat
      BY <1>1, <3>1, ConcatProperties, LenProperties
    <3> HIDE DEF s, p
    <3>3. Len(p) <= Len(s)
      BY <3>2
    <3>4. ASSUME NEW j \in 1 .. Len(p)
          PROVE  p[j] = s[j]
      <4>1. j \in 1 .. Len(a) + Len(more) /\ j \in 1 .. Len(a) + Len(held)
        BY <3>2, <3>3, <3>4, PartOfSum
      <4>2. CASE j <= Len(a)
        BY <3>2, <4>1, <4>2
      <4>3. CASE ~(j <= Len(a))
        <5>1. j - Len(a) \in 1 .. Len(more)
          BY <3>2, <4>1, <4>3, PartOfSum
        <5>2. p[j] = more[j - Len(a)] /\ s[j] = held[j - Len(a)]
          BY <3>2, <4>1, <4>3
        <5> QED
          BY <5>1, <5>2
      <4> QED
        BY <4>2, <4>3
    <3> QED
      BY <3>1, <3>2, <3>3, <3>4, PartFits
  <2> QED
    BY <2>1, <2>2
<1>8. \A i \in DOMAIN r \ {k} : r[i].opened = 1 => Fits(r[i].lines)
  BY <1>4, <1>6, <1>7
<1> QED
  BY <1>6, <1>8 DEF IsReopened, r, k, g, Moved

(***************************************************************************)
(* More lines may be known than before.                                    *)
(***************************************************************************)
LEMMA FilesOfMore ==
  ASSUME NEW W, NEW V, W \subseteq V
  PROVE  Seq(W) \subseteq Seq(V) /\ Seq(File(W)) \subseteq Seq(File(V))
<1>1. ASSUME NEW A, NEW B, A \subseteq B
      PROVE  Seq(A) \subseteq Seq(B)
  <2> SUFFICES ASSUME NEW s \in Seq(A) PROVE s \in Seq(B)
    OBVIOUS
  <2>1. PICK n \in Nat : s \in [1 .. n -> A]
    <3>1. s \in UNION {[1 .. n -> A] : n \in Nat}
      BY SeqDef, Zenon
    <3> QED
      BY <3>1
  <2>2. s \in [1 .. n -> B]
    BY <1>1, <2>1
  <2>3. s \in UNION {[1 .. m -> B] : m \in Nat}
    BY <2>2
  <2> QED
    BY <2>3, SeqDef, Zenon
<1>2. Seq(W) \subseteq Seq(V)
  BY <1>1
<1>3. File(W) \subseteq File(V)
  BY <1>2 DEF File
<1> QED
  BY <1>1, <1>2, <1>3

(***************************************************************************)
(* A file is opened, and its stream holds what is new.                     *)
(***************************************************************************)
LEMMA SinkMovesOn ==
  ASSUME NEW W, \A e \in W : Bytes(e.line) \in Nat,
         NEW fs, NEW o, NEW held, NEW size, SinkIsRight(W, fs, o, held, size),
         NEW more \in Seq(W), Len(more) <= Len(held), \A i \in 1 .. Len(more) : more[i] = held[i],
         NEW name \in (0 .. MaxTime) \X Nat,
         NEW V, W \subseteq V, \A e \in V : Bytes(e.line) \in Nat, NEW new \in Seq(V), Len(new) <= 1
  PROVE  LET r == Moved(fs, o, more, name)
         IN  SinkIsRight(V, r, IndexOf(r, name), new, SizeOfLines(new))
<1> DEFINE r == Moved(fs, o, more, name)
           k == IndexOf(r, name)
<1>0. IsReopened(W, r, k)
  BY NextFile
<1>1. /\ r \in Seq(File(W)) /\ NamesDiffer(r) /\ k \in DOMAIN r
      /\ \A i \in DOMAIN r \ {k} : r[i].opened = 1 => Fits(r[i].lines)
      /\ r[k].opened = 1 => r[k].lines = << >>
  BY <1>0 DEF IsReopened
<1> HIDE DEF r, k
<1>2. r \in Seq(File(V)) /\ \A i \in DOMAIN r : r[i].lines \in Seq(V)
  <2>1. r \in Seq(File(V))
    BY <1>1, FilesOfMore
  <2>2. \A i \in DOMAIN r : r[i] \in File(V)
    BY <2>1, LenProperties, ElementOfSeq
  <2> QED
    BY <2>1, <2>2 DEF File
<1>3. SizeOfLines(new) \in Nat
  BY SizeFacts
<1>4. r[k].opened = 1 => Content(r, k, new, k) = new
  <2>1. << >> \o new = new
    BY ConcatEmptySeq
  <2> QED
    BY <1>1, <2>1 DEF Content
<1>5. ASSUME NEW i \in DOMAIN r, r[i].opened = 1
      PROVE  Fits(Content(r, k, new, i))
  <2>1. CASE i = k
    BY <1>4, <1>5, <2>1 DEF Fits
  <2>2. CASE i # k
    <3>1. Content(r, k, new, i) = r[i].lines \o << >>
      BY <2>2 DEF Content
    <3>2. r[i].lines \o << >> = r[i].lines
      BY <1>2, ConcatEmptySeq
    <3> QED
      BY <1>1, <1>5, <2>2, <3>1, <3>2
  <2> QED
    BY <2>1, <2>2
<1>6. SinkIsRight(V, r, k, new, SizeOfLines(new))
  BY <1>1, <1>2, <1>3, <1>4, <1>5 DEF SinkIsRight
<1> QED
  BY <1>6 DEF r, k

(***************************************************************************)
(* A line is written that does not exceed the size.                        *)
(***************************************************************************)
LEMMA SinkGoesOn ==
  ASSUME NEW W, NEW fs, NEW o, NEW held, NEW size, SinkIsRight(W, fs, o, held, size),
         NEW V, W \subseteq V, \A e \in V : Bytes(e.line) \in Nat,
         NEW e \in V, size + Bytes(e.line) <= MaxSize
  PROVE  SinkIsRight(V, fs, o, Append(held, e), size + Bytes(e.line))
<1> DEFINE new  == Append(held, e)
           s    == fs[o].lines
           both == s \o held
<1>1. /\ fs \in Seq(File(V)) /\ held \in Seq(V) /\ NamesDiffer(fs) /\ o \in DOMAIN fs
      /\ size \in Nat /\ Bytes(e.line) \in Nat
      /\ \A i \in DOMAIN fs : fs[i].opened = 1 => Fits(Content(fs, o, held, i))
      /\ fs[o].opened = 1 => size = SizeOfLines(both)
  BY FilesOfMore DEF SinkIsRight, Content
<1>2. \A i \in DOMAIN fs : fs[i] \in File(V) /\ fs[i].lines \in Seq(V)
  <2>1. \A i \in DOMAIN fs : fs[i] \in File(V)
    BY <1>1, LenProperties, ElementOfSeq
  <2> QED
    BY <2>1 DEF File
<1>3. new \in Seq(V) /\ new = held \o <<e>> /\ <<e>> \in Seq(V)
  BY <1>1, AppendProperties, AppendIsConcat
<1>4. s \in Seq(V)
  BY <1>1, <1>2
<1> HIDE DEF s, new
<1>5. s \o new = both \o <<e>> /\ both \in Seq(V)
  <2>1. s \o (held \o <<e>>) = (s \o held) \o <<e>>
    <3> DEFINE one == <<e>>
    <3>1. s \in Seq(V) /\ held \in Seq(V) /\ one \in Seq(V)
      BY <1>1, <1>3, <1>4
    <3> HIDE DEF one
    <3>2. s \o (held \o one) = (s \o held) \o one
      BY <3>1, ConcatAssociative, SMTT(30)
    <3> QED
      BY <3>2 DEF one
  <2> QED
    BY <1>1, <1>3, <1>4, <2>1, ConcatProperties
<1> HIDE DEF both
<1>6. s \o new = Append(both, e)
  BY <1>5, AppendIsConcat
<1>7. SizeOfLines(s \o new) = SizeOfLines(both) + Bytes(e.line)
  BY <1>5, <1>6, SizeFacts
<1>8. Content(fs, o, new, o) = s \o new
  BY DEF Content, s
<1>9. fs[o].opened = 1 => size + Bytes(e.line) = SizeOfLines(Content(fs, o, new, o))
  BY <1>1, <1>7, <1>8
<1>10. ASSUME NEW i \in DOMAIN fs, fs[i].opened = 1
       PROVE  Fits(Content(fs, o, new, i))
  <2>1. CASE i = o
    BY <1>9, <1>10, <2>1 DEF Fits
  <2>2. CASE i # o
    BY <1>1, <1>10, <2>2 DEF Content
  <2> QED
    BY <2>1, <2>2
<1>11. size + Bytes(e.line) \in Nat
  BY <1>1
<1> QED
  BY <1>1, <1>3, <1>9, <1>10, <1>11 DEF SinkIsRight, new

(***************************************************************************)
(* The sink of a new logger.                                               *)
(***************************************************************************)
LEMMA SinkIsNew ==
  ASSUME NEW name \in (0 .. MaxTime) \X Nat
  PROVE  SinkIsRight({}, Opened(<< >>, name), 1, << >>, 0)
<1> DEFINE f  == [name |-> name, lines |-> << >>, opened |-> 1]
           fs == << f >>
<1>1. Opened(<< >>, name) = fs
  BY DEF Opened
<1>2. f \in File({}) /\ f.lines = << >>
  BY DEF File
<1>3. DOMAIN fs = {1} /\ fs[1] = f /\ fs \in Seq(File({}))
  BY <1>2
<1> HIDE DEF f, fs
<1>4. Content(fs, 1, << >>, 1) = << >> /\ << >> \in Seq({}) /\ Len(<< >>) = 0
  BY <1>2, <1>3 DEF Content
<1>5. SizeOfLines(<< >>) = 0
  <2> DEFINE s == << >>
  <2>1. s \in Seq({}) /\ Len(s) = 0
    OBVIOUS
  <2> HIDE DEF s
  <2>2. SizeOfLines(s) = 0
    BY <2>1, SizeFacts
  <2> QED
    BY <2>2 DEF s
<1>6. NamesDiffer(fs)
  BY <1>3 DEF NamesDiffer
<1>7. SinkIsRight({}, fs, 1, << >>, 0)
  BY <1>3, <1>4, <1>5, <1>6 DEF SinkIsRight, Fits
<1> QED
  BY <1>1, <1>7

-----------------------------------------------------------------------------
(* The size of a line.                                                     *)

(***************************************************************************)
(* Every line of a call has one.                                           *)
(***************************************************************************)
LEMMA LineHasSize ==
  ASSUME PatternsInHand, NEW t \in Threads, NEW n \in DOMAIN Calls[t], NEW l,
         IsLineOf(l, items_, TimeFormats, t, n)
  PROVE  Bytes(l) \in Nat
<1> DEFINE items == items_[Calls[t][n].logger]
<1>1. Calls[t][n].logger \in Loggers /\ Calls[t][n].payload.bytes \in Nat
  BY LoggingAssumption
<1>2. Len(items) \in Nat /\ DOMAIN items = 1 .. Len(items)
  BY <1>1, ItemsFacts
<1> HIDE DEF items
<1>3. PICK second, time :
        l = [i \in DOMAIN items |-> Piece(items[i], MessageOf(t, n, second), time)]
  BY DEF IsLineOf, items
<1>4. ASSUME NEW i \in DOMAIN items
      PROVE  BytesOf(l[i]) \in Nat
  <2> DEFINE item == items[i]
             message == MessageOf(t, n, second)
  <2>1. l[i] = Piece(item, message, time) /\ message.payload.bytes \in Nat
    BY <1>1, <1>3 DEF MessageOf
  <2> HIDE DEF item, message
  <2> QED
    BY <2>1 DEF Piece, BytesOf
<1> DEFINE sizes == [i \in DOMAIN l |-> BytesOf(l[i])]
<1>5. DOMAIN l = 1 .. Len(items)
  BY <1>2, <1>3
<1>6. sizes \in Seq(Nat)
  <2>1. sizes \in [1 .. Len(items) -> Nat]
    BY <1>2, <1>4, <1>5
  <2> QED
    BY <1>2, <2>1
<1> HIDE DEF sizes
<1>7. Total(sizes) \in Nat
  BY <1>6, TotalFacts
<1> QED
  BY <1>7 DEF Bytes, sizes

-----------------------------------------------------------------------------
(* The steps of the sinks.                                                 *)

(***************************************************************************)
(* All that was logged has a size, now and after a step.                   *)
(***************************************************************************)
LogsSized == \A l \in Loggers : \A e \in Written(l) : Bytes(e.line) \in Nat

LEMMA LogsHaveSizes == LogInv => LogsSized
<1> SUFFICES ASSUME LogInv, NEW l \in Loggers, NEW i \in DOMAIN logged[l]
             PROVE  Bytes(logged[l][i].line) \in Nat
  BY DEF LogsSized, Written
<1>1. IsOwn(logged[l][i], items_, TimeFormats, l) /\ PatternsInHand
  BY DEF LogInv, LinesAreOwn
<1> QED
  BY <1>1, LineHasSize DEF IsOwn

LEMMA LogsHaveSizesNext == LogInv' => LogsSized'
BY LogsHaveSizes, PTL

(***************************************************************************)
(* The other sinks.                                                        *)
(***************************************************************************)
LEMMA SinkStays ==
  ASSUME SinksInHand, NEW l \in Loggers,
         logged'[l] = logged[l], files'[l] = files[l], open'[l] = open[l], ofs_'[l] = ofs_[l],
         curSize_'[l] = curSize_[l]
  PROVE  SinkIsRight(Written(l)', files'[l], open'[l], ofs_'[l], curSize_'[l])
<1>1. Written(l)' = Written(l)
  BY DEF Written
<1> QED
  BY <1>1 DEF SinksInHand

(***************************************************************************)
(* Every step keeps the sinks right.                                       *)
(***************************************************************************)
LEMMA SinkStep ==
  ASSUME LogInv, LogInv', SinksInHand, [Next]_vars
  PROVE  SinksInHand'
<1>1. CASE UNCHANGED <<sinkVars, restarts>>
  <2>1. /\ UNCHANGED <<files, open, ofs_, curSize_, nameCount_, logged, restarts>>
    BY <1>1 DEF sinkVars
  <2>2. \A l \in Loggers : SinkIsRight(Written(l)', files'[l], open'[l], ofs_'[l], curSize_'[l])
    BY <2>1, SinkStays
  <2> QED
    BY <2>1, <2>2 DEF SinksInHand
<1>2. ASSUME NEW t \in Threads, Log(t)
      PROVE  SinksInHand'
  <2>0. PICK l \in Loggers : l = Call(t).logger
    BY <1>2, CallFacts DEF Log, LogInv, Call
  <2> DEFINE size == Bytes(line[t])
  <2>1. PICK junk : SinkLog(l, [call |-> <<t, made[t]>>, line |-> line[t], junk |-> junk], size)
    BY <1>2, <2>0 DEF Log
  <2> DEFINE e == [call |-> <<t, made[t]>>, line |-> line[t], junk |-> junk]
  <2>2. l \in Loggers /\ now \in 0 .. MaxTime
    BY DEF LogInv, CallsInHand
  <2>3. e.line = line[t] /\ size = Bytes(e.line) /\ restarts' = restarts
    BY <1>2 DEF Log
  <2> HIDE DEF e
  <2>4. /\ logged' = [logged EXCEPT ![l] = Append(@, e)]
        /\ \/ /\ Rolls(l, size)
              /\ files' = [files EXCEPT ![l] = Opened(Flushed(l, ofs_[l]), Name(nameCount_[l]))]
              /\ open' = [open EXCEPT ![l] = IndexOf(files'[l], Name(nameCount_[l]))]
              /\ nameCount_' = [nameCount_ EXCEPT ![l] = @ + 1]
              /\ ofs_' = [ofs_ EXCEPT ![l] = <<e>>]
              /\ curSize_' = [curSize_ EXCEPT ![l] = size]
           \/ /\ ~Rolls(l, size)
              /\ ofs_' = [ofs_ EXCEPT ![l] = Append(@, e)]
              /\ curSize_' = [curSize_ EXCEPT ![l] = @ + size]
              /\ UNCHANGED <<files, open, nameCount_>>
    BY <2>1 DEF SinkLog, e
  <2> HIDE DEF size
  <2> DEFINE W == Written(l)
             V == Written(l)'
  <2>5. W \subseteq V /\ e \in V
    <3>1. logged'[l] = Append(logged[l], e) /\ logged[l] \in Seq(W)
      BY <2>2, <2>4 DEF LogInv, LogsAreSequences, Written
    <3>2. /\ Len(logged[l]) \in Nat /\ DOMAIN logged[l] = 1 .. Len(logged[l])
          /\ DOMAIN logged'[l] = 1 .. Len(logged[l]) + 1 /\ logged'[l][Len(logged[l]) + 1] = e
          /\ \A i \in 1 .. Len(logged[l]) : logged'[l][i] = logged[l][i]
    <4> HIDE DEF W
    <4> QED
      BY <3>1, AppendProperties, LenProperties
    <3>3. \A i \in DOMAIN logged[l] : i \in DOMAIN logged'[l] /\ logged'[l][i] = logged[l][i]
      BY <3>2
    <3>4. Len(logged[l]) + 1 \in DOMAIN logged'[l]
      BY <3>2
    <3>5. e \in V
      BY <3>2, <3>4 DEF Written
    <3>6. W \subseteq V
      BY <3>3 DEF Written
    <3> QED
      BY <3>5, <3>6
  <2>6. /\ \A x \in W : Bytes(x.line) \in Nat
        /\ \A x \in V : Bytes(x.line) \in Nat
    BY LogsHaveSizes, LogsHaveSizesNext DEF LogsSized
  <2>7. SinkIsRight(W, files[l], open[l], ofs_[l], curSize_[l]) /\ curSize_[l] \in Nat
    BY <2>2 DEF SinksInHand
  <2>8. size \in Nat
    BY <2>3, <2>5, <2>6
  <2>9. SinkIsRight(V, files'[l], open'[l], ofs_'[l], curSize_'[l])
    <3> HIDE DEF W, V
    <3>1. CASE Rolls(l, size)
      <4> DEFINE name == Name(nameCount_[l])
                 held == ofs_[l]
                 new  == <<e>>
      <4>1. name \in (0 .. MaxTime) \X Nat
        BY <2>2 DEF SinksInHand, Name
      <4>2. /\ files'[l] = Moved(files[l], open[l], held, name)
            /\ open'[l] = IndexOf(files'[l], name)
            /\ ofs_'[l] = new /\ curSize_'[l] = size
        BY <2>2, <2>4, <3>1 DEF SinksInHand, Moved, Flushed
      <4>3. new \in Seq(V) /\ Len(new) = 1 /\ new[1] = e
        BY <2>5
      <4>4. SizeOfLines(new) = size
        <5> HIDE DEF new
        <5> QED
          BY <2>3, <2>6, <4>3, SizeFacts
      <4>5. held \in Seq(W) /\ Len(held) \in Nat
        BY <2>7, LenProperties DEF SinkIsRight
      <4> HIDE DEF name, held, new
      <4>6. /\ Len(held) <= Len(held) /\ \A i \in 1 .. Len(held) : held[i] = held[i]
            /\ SinkIsRight(W, files[l], open[l], held, curSize_[l]) /\ Len(new) <= 1
        BY <2>7, <4>3, <4>5 DEF held
      <4>7. SinkIsRight(V, Moved(files[l], open[l], held, name),
                        IndexOf(Moved(files[l], open[l], held, name), name),
                        new, SizeOfLines(new))
        BY <2>5, <2>6, <4>1, <4>3, <4>5, <4>6, SinkMovesOn
      <4> QED
        BY <4>2, <4>4, <4>7
    <3>2. CASE ~Rolls(l, size)
      <4>1. /\ files'[l] = files[l] /\ open'[l] = open[l] /\ ofs_'[l] = Append(ofs_[l], e)
            /\ curSize_'[l] = curSize_[l] + size
        BY <2>2, <2>4, <3>2 DEF SinksInHand
      <4>2. curSize_[l] + Bytes(e.line) <= MaxSize
        BY <2>3, <2>7, <2>8, <3>2, LoggingAssumption DEF Rolls
      <4>3. SinkIsRight(V, files[l], open[l], Append(ofs_[l], e), curSize_[l] + Bytes(e.line))
        BY <2>5, <2>6, <2>7, <4>2, SinkGoesOn
      <4> QED
        BY <2>3, <4>1, <4>3
    <3> QED
      BY <3>1, <3>2
  <2>10. ASSUME NEW k \in Loggers
         PROVE  SinkIsRight(Written(k)', files'[k], open'[k], ofs_'[k], curSize_'[k])
    <3>1. CASE k = l
      BY <2>9, <3>1
    <3>2. CASE k # l
      <4>1. /\ logged'[k] = logged[k] /\ files'[k] = files[k] /\ open'[k] = open[k]
            /\ ofs_'[k] = ofs_[k] /\ curSize_'[k] = curSize_[k]
        BY <2>4, <3>2 DEF SinksInHand, LogInv, LogsAreSequences
      <4> QED
        BY <4>1, SinkStays
    <3> QED
      BY <3>1, <3>2
  <2>11. /\ files' = [k \in Loggers |-> files'[k]] /\ open' = [k \in Loggers |-> open'[k]]
         /\ ofs_' = [k \in Loggers |-> ofs_'[k]]
         /\ curSize_' \in [Loggers -> Nat] /\ nameCount_' \in [Loggers -> Nat]
    <3>1. nameCount_[l] + 1 \in Nat /\ curSize_[l] + size \in Nat
      BY <2>7, <2>8 DEF SinksInHand
    <3>2. CASE Rolls(l, size)
      <4>1. /\ files' = [files EXCEPT ![l] = files'[l]] /\ open' = [open EXCEPT ![l] = open'[l]]
            /\ ofs_' = [ofs_ EXCEPT ![l] = <<e>>]
        BY <2>4, <3>2 DEF SinksInHand
      <4>2. curSize_' \in [Loggers -> Nat] /\ nameCount_' \in [Loggers -> Nat]
        <5>1. /\ curSize_' = [curSize_ EXCEPT ![l] = size]
              /\ nameCount_' = [nameCount_ EXCEPT ![l] = nameCount_[l] + 1]
          BY <2>4, <3>2
        <5>2. curSize_ \in [Loggers -> Nat] /\ nameCount_ \in [Loggers -> Nat]
          BY DEF SinksInHand
        <5> QED
          BY <2>8, <3>1, <5>1, <5>2
      <4> QED
        BY <4>1, <4>2 DEF SinksInHand
    <3>3. CASE ~Rolls(l, size)
      BY <2>4, <3>1, <3>3 DEF SinksInHand
    <3> QED
      BY <3>2, <3>3
  <2> QED
    BY <2>3, <2>10, <2>11 DEF SinksInHand
<1>3. CASE Restart
  <2>1. PICK kept \in [Loggers -> UNION {0 .. Len(ofs_[l]) : l \in Loggers}] :
          /\ \A l \in Loggers : kept[l] <= Len(ofs_[l])
          /\ files' = [l \in Loggers |-> Opened(Flushed(l, SubSeq(ofs_[l], 1, kept[l])), Name(0))]
    BY <1>3 DEF Restart
  <2>2. /\ open' = [l \in Loggers |-> IndexOf(files'[l], Name(0))]
        /\ ofs_' = [l \in Loggers |-> << >>] /\ curSize_' = [l \in Loggers |-> 0]
        /\ nameCount_' = [l \in Loggers |-> 1] /\ logged' = logged
        /\ restarts' = restarts + 1 /\ restarts < MaxRestarts
    BY <1>3 DEF Restart
  <2>3. restarts' \in 0 .. MaxRestarts
    BY <2>2, LoggingAssumption DEF SinksInHand
  <2> DEFINE name == Name(0)
  <2>4. name \in (0 .. MaxTime) \X Nat
    BY DEF LogInv, CallsInHand, Name
  <2>5. ASSUME NEW l \in Loggers
        PROVE  SinkIsRight(Written(l)', files'[l], open'[l], ofs_'[l], curSize_'[l])
    <3> DEFINE W == Written(l)
               held == ofs_[l]
               more == SubSeq(held, 1, kept[l])
               new  == << >>
    <3>1. SinkIsRight(W, files[l], open[l], held, curSize_[l]) /\ W' = W
      BY <2>2 DEF SinksInHand, Written
    <3>2. \A x \in W : Bytes(x.line) \in Nat
      BY LogsHaveSizes DEF LogsSized
    <3>3. /\ files'[l] = Moved(files[l], open[l], more, name)
          /\ open'[l] = IndexOf(files'[l], name)
          /\ ofs_'[l] = new /\ curSize_'[l] = 0
      BY <2>1, <2>2 DEF Moved, Flushed
    <3> HIDE DEF W, name
    <3>4. held \in Seq(W) /\ Len(held) \in Nat
      BY <3>1, LenProperties DEF SinkIsRight
    <3>5. kept[l] \in 0 .. Len(held)
      <4>1. \A k \in Loggers : Len(ofs_[k]) \in Nat
        BY LenProperties DEF SinksInHand, SinkIsRight
      <4>2. kept[l] \in Nat /\ kept[l] <= Len(held)
        BY <2>1, <4>1
      <4> QED
        BY <3>4, <4>2
    <3> HIDE DEF held
    <3>6. /\ more \in Seq(W) /\ Len(more) = kept[l]
          /\ \A i \in 1 .. kept[l] : more[i] = held[i]
      BY <3>4, <3>5, SubSeqProperties
    <3>7. new \in Seq(W) /\ Len(new) = 0
      OBVIOUS
    <3> HIDE DEF more, new
    <3>8. SizeOfLines(new) = 0
      BY <3>2, <3>7, SizeFacts
    <3>9. Len(more) <= Len(held) /\ Len(new) <= 1
          /\ \A i \in 1 .. Len(more) : more[i] = held[i]
      BY <3>4, <3>5, <3>6, <3>7
    <3>10. SinkIsRight(W, Moved(files[l], open[l], more, name),
                       IndexOf(Moved(files[l], open[l], more, name), name),
                       new, SizeOfLines(new))
      BY <2>4, <3>1, <3>2, <3>6, <3>7, <3>9, SinkMovesOn
    <3> QED
      BY <3>1, <3>3, <3>8, <3>10 DEF W
  <2>6. /\ files' = [k \in Loggers |-> files'[k]] /\ open' = [k \in Loggers |-> open'[k]]
        /\ ofs_' = [k \in Loggers |-> ofs_'[k]]
        /\ curSize_' \in [Loggers -> Nat] /\ nameCount_' \in [Loggers -> Nat]
    BY <2>1, <2>2
  <2> QED
    BY <2>3, <2>5, <2>6 DEF SinksInHand
<1>4. ASSUME NEW t \in Threads,
             LogImpl(t) \/ AllocMessage(t) \/ ConstructMessage(t) \/ Format(t) \/ DeallocMessage(t)
      PROVE  SinksInHand'
  BY <1>1, <1>4 DEF LogImpl, AllocMessage, ConstructMessage, Format, DeallocMessage
<1>5. CASE Tick
  BY <1>1, <1>5 DEF Tick
<1>6. CASE UNCHANGED vars
  BY <1>1, <1>6 DEF vars
<1> QED
  BY <1>2, <1>3, <1>4, <1>5, <1>6 DEF Next, InCall

(***************************************************************************)
(* The sinks of new loggers.                                               *)
(***************************************************************************)
LEMMA InitSinks == Init => SinksInHand
<1> SUFFICES ASSUME Init PROVE SinksInHand
  OBVIOUS
<1> DEFINE name == Name(0)
<1>1. name \in (0 .. MaxTime) \X Nat
  BY LoggingAssumption DEF Init, Name
<1>2. ASSUME NEW l \in Loggers
      PROVE  SinkIsRight(Written(l), files[l], open[l], ofs_[l], curSize_[l])
  <2>1. /\ Written(l) = {} /\ files[l] = Opened(<< >>, name) /\ open[l] = 1 /\ ofs_[l] = << >>
        /\ curSize_[l] = 0
    BY DEF Init, Written
  <2> HIDE DEF name
  <2> QED
    BY <1>1, <2>1, SinkIsNew
<1>3. restarts \in 0 .. MaxRestarts
  BY LoggingAssumption DEF Init
<1> QED
  BY <1>2, <1>3 DEF Init, SinksInHand

-----------------------------------------------------------------------------
(* The initial states, and what the invariant says.                        *)

(***************************************************************************)
(* The initial states.                                                     *)
(***************************************************************************)
LEMMA InitInvariant == Init => IInv
<1> SUFFICES ASSUME Init PROVE IInv
  OBVIOUS
<1>1. PoolInv
  <2>1. (CHOOSE b \in Buckets : TRUE) \in Buckets
    BY PoolAssumption
  <2>2. bucket \in [Threads -> Buckets]
    BY <2>1 DEF Init, PoolInit
  <2> QED
    BY <2>2, FreshPoolIsRight DEF Init, PoolInit, FreshPool
<1>2. \A t \in Threads : at[t] = "idle" /\ made[t] = 0 /\ Len(Calls[t]) \in Nat
  BY LoggingAssumption, LenProperties DEF Init
<1>3. CallsInHand
  BY <1>2, LoggingAssumption DEF Init, CallsInHand
<1>4. MessageInHand /\ LineInHand
  BY <1>2 DEF Init, MessageInHand, LineInHand
<1>5. PatternsInHand /\ TimesInHand
  BY DEF Init, PatternsInHand, TimesInHand
<1>6. LogsAreSequences /\ LinesAreOwn
  <2>1. << >> \in Seq({})
    BY EmptySeq
  <2>2. \A l \in Loggers : logged[l] = << >> /\ DOMAIN logged[l] = {}
    BY DEF Init
  <2>3. \A l \in Loggers : {logged[l][i] : i \in DOMAIN logged[l]} = {}
    BY <2>2
  <2>4. \A l \in Loggers : logged[l] \in Seq({logged[l][i] : i \in DOMAIN logged[l]})
    BY <2>1, <2>2, <2>3
  <2>5. logged = [l \in Loggers |-> logged[l]]
    BY DEF Init
  <2> QED
    BY <2>2, <2>4, <2>5 DEF LogsAreSequences, LinesAreOwn
<1> QED
  BY <1>1, <1>3, <1>4, <1>5, <1>6, InitSinks DEF IInv, LogInv

(***************************************************************************)
(* With one time format, a line is what the pattern means, if no text      *)
(* behind the last conversion was dropped.                                 *)
(***************************************************************************)
LEMMA LineMeans ==
  ASSUME PatternsInHand, NEW t \in Threads, NEW n \in DOMAIN Calls[t], NEW line_,
         IsLineOf(line_, items_, TimeFormats, t, n), NEW l, l = Calls[t][n].logger,
         EndsInConversion(pattern[l]), \A f, g \in TimeFormats : f = g
  PROVE  \E second \in 0 .. MaxTime : line_ = Meaning(pattern[l], MessageOf(t, n, second))
<1> DEFINE p == pattern[l]
<1>1. l \in Loggers
  BY LoggingAssumption
<1>2. items_[l] = p /\ DOMAIN p = 1 .. Len(p) /\ Len(p) \in Nat
      /\ \A i \in DOMAIN p : IsTime(p[i]) => TimeFormatOf(p[i]) \in TimeFormats
  <2>1. p \in Seq(ToSet(p)) /\ items_[l] = parsePattern(p)
    BY <1>1, ItemsFacts
  <2>2. items_[l] = p
    BY <2>1, PatternFacts
  <2> QED
    BY <1>1, <2>2, ItemsFacts
<1>3. \A i \in DOMAIN p : p[i].kind \in {"text", "conv"}
  <2>1. \A i \in DOMAIN p : p[i] # Broken
    BY <1>2 DEF EndsInConversion, Contains
  <2>2. pattern \in Patterns
    BY DEF PatternsInHand
  <2> QED
    <3>1. \A i \in DOMAIN p : p[i].kind \in {"text", "conv"} \/ p[i] = Broken
      BY <1>1, <2>2, LoggingAssumption, ZenonT(30) DEF Broken
    <3> QED
      BY <2>1, <3>1
<1>4. items_[Calls[t][n].logger] = p
  BY <1>2
<1> HIDE DEF p
<1>5. PICK second \in 0 .. MaxTime : \E time :
        /\ HasTime(p) => \E f \in TimeFormats : time = Formatted(f, second)
        /\ line_ = [i \in DOMAIN p |-> Piece(p[i], MessageOf(t, n, second), time)]
  BY <1>4 DEF IsLineOf
<1>6. PICK time :
        /\ HasTime(p) => \E f \in TimeFormats : time = Formatted(f, second)
        /\ line_ = [i \in DOMAIN p |-> Piece(p[i], MessageOf(t, n, second), time)]
  BY <1>5
<1> DEFINE message == MessageOf(t, n, second)
           right(item) == IF IsTime(item) THEN Formatted(TimeFormatOf(item), second) ELSE Null
<1>7. ASSUME NEW i \in DOMAIN p
      PROVE  Piece(p[i], message, time) = Piece(p[i], message, right(p[i]))
  <2>1. CASE IsTime(p[i])
    <3>1. HasTime(p) /\ TimeFormatOf(p[i]) \in TimeFormats
      BY <1>2, <2>1 DEF HasTime
    <3>2. time = Formatted(TimeFormatOf(p[i]), second)
      BY <1>6, <3>1
    <3> QED
      BY <2>1, <3>2
  <2>2. CASE ~IsTime(p[i])
    BY <1>3, <2>2 DEF IsTime, Piece
  <2> QED
    BY <2>1, <2>2
<1>8. message.curtime = second
  BY DEF MessageOf
<1> HIDE DEF message
<1>9. Meaning(p, message) = [i \in DOMAIN p |-> Piece(p[i], message, right(p[i]))]
  BY <1>8 DEF Meaning
<1> HIDE DEF right
<1>10. line_ = [i \in DOMAIN p |-> Piece(p[i], message, time)]
  BY <1>6 DEF message
<1>11. line_ = Meaning(p, message)
  BY <1>7, <1>9, <1>10
<1> QED
  BY <1>11 DEF message, p

LEMMA LinesMean == LogInv => LineIsRight
<1> SUFFICES ASSUME LogInv, NEW l \in Loggers, NEW i \in DOMAIN logged[l],
                    EndsInConversion(pattern[l]), \A f, g \in TimeFormats : f = g
             PROVE  LET e == logged[l][i]
                        t == e.call[1]
                    IN  \E second \in 0 .. MaxTime :
                          e.line = Meaning(pattern[l],
                                     [kind |-> "message", curtime |-> second, by |-> t,
                                      payload |-> Calls[t][e.call[2]].payload])
  BY DEF LineIsRight
<1> DEFINE e == logged[l][i]
           t == e.call[1]
           n == e.call[2]
<1>1. PatternsInHand /\ IsOwn(e, items_, TimeFormats, l)
  BY DEF LogInv, LinesAreOwn
<1> HIDE DEF e
<1>2. /\ t \in Threads /\ n \in DOMAIN Calls[t] /\ l = Calls[t][n].logger
      /\ IsLineOf(e.line, items_, TimeFormats, t, n)
  BY <1>1 DEF IsOwn
<1> HIDE DEF t, n
<1>3. PICK second \in 0 .. MaxTime : e.line = Meaning(pattern[l], MessageOf(t, n, second))
  BY <1>1, <1>2, LineMeans
<1> QED
  BY <1>3 DEF MessageOf, e, t, n

(***************************************************************************)
(* The files fit if their lines do.                                        *)
(***************************************************************************)
LEMMA FilesFit == LogInv /\ SinksInHand => FilesBounded
<1> SUFFICES ASSUME LogInv, SinksInHand, NEW l \in Loggers, NEW i \in DOMAIN files[l],
                    files[l][i].opened = 1,
                    \A k \in DOMAIN Content(files[l], open[l], ofs_[l], i) :
                      Bytes(Content(files[l], open[l], ofs_[l], i)[k].line) <= MaxSize
             PROVE  SizeOfLines(Content(files[l], open[l], ofs_[l], i)) <= MaxSize
  BY DEF FilesBounded, Content, SizeOfLines
<1> DEFINE W     == Written(l)
           lines == Content(files[l], open[l], ofs_[l], i)
<1>1. \A e \in W : Bytes(e.line) \in Nat
  BY LogsHaveSizes DEF LogsSized
<1>2. Fits(lines)
  BY DEF SinksInHand, SinkIsRight
<1>3. lines \in Seq(W)
  <2>1. files[l] \in Seq(File(W)) /\ ofs_[l] \in Seq(W)
    BY DEF SinksInHand, SinkIsRight
  <2>2. files[l][i] \in File(W)
    BY <2>1, LenProperties, ElementOfSeq
  <2>3. files[l][i].lines \in Seq(W) /\ << >> \in Seq(W)
    BY <2>2 DEF File
  <2> HIDE DEF W
  <2> QED
    BY <2>1, <2>3, ConcatProperties DEF Content
<1> HIDE DEF W, lines
<1>4. CASE Len(lines) <= 1
  <2>1. Len(lines) \in {0, 1} /\ DOMAIN lines = 1 .. Len(lines) /\ MaxSize \in Nat
    <3>1. Len(lines) \in Nat /\ DOMAIN lines = 1 .. Len(lines)
      BY <1>3, LenProperties
    <3>2. Len(lines) \in {0, 1}
      BY <1>4, <3>1
    <3> QED
      BY <3>1, <3>2, LoggingAssumption
  <2>2. CASE Len(lines) = 0
    <3>1. SizeOfLines(lines) = 0
      BY <1>1, <1>3, <2>2, SizeFacts
    <3> QED
      BY <2>1, <3>1 DEF lines
  <2>3. CASE Len(lines) = 1
    <3>1. SizeOfLines(lines) = Bytes(lines[1].line)
      BY <1>1, <1>3, <2>3, SizeFacts
    <3>2. 1 \in DOMAIN lines
      BY <2>1, <2>3
    <3> QED
      BY <3>1, <3>2 DEF lines
  <2> QED
    BY <2>1, <2>2, <2>3
<1>5. CASE SizeOfLines(lines) <= MaxSize
  BY <1>5 DEF lines
<1> QED
  BY <1>2, <1>4, <1>5 DEF Fits, lines

LEMMA TypesAreRight == PoolInv /\ LogInv /\ SinksInHand => TypeOK
<1> SUFFICES ASSUME PoolInv, LogInv, SinksInHand PROVE TypeOK
  OBVIOUS
<1>1. \A t \in Threads : made[t] \in 0 .. Len(Calls[t])
  BY DEF LogInv, CallsInHand
<1>2. /\ curSize_ \in [Loggers -> Nat] /\ nameCount_ \in [Loggers -> Nat]
      /\ restarts \in 0 .. MaxRestarts /\ \A l \in Loggers : open[l] \in DOMAIN files[l]
  BY DEF SinksInHand, SinkIsRight
<1>3. /\ pattern \in Patterns /\ now \in 0 .. MaxTime
      /\ last_cached \in [Threads -> (0 .. MaxTime) \cup {Null}]
  BY DEF LogInv, PatternsInHand, TimesInHand, CallsInHand
<1>4. PoolTypeOK /\ at \in [Threads -> {"idle", "alloc", "waiting", "construct", "format",
                                        "dealloc", "log", "crashed"}]
  BY DEF PoolInv, SlotsInUse
<1> QED
  BY <1>1, <1>2, <1>3, <1>4 DEF TypeOK

-----------------------------------------------------------------------------
(* The theorems.                                                           *)

(***************************************************************************)
(* The invariant holds always.                                             *)
(***************************************************************************)
THEOREM Invariance == Spec => []IInv
<1>1. IInv /\ [Next]_vars => IInv'
  BY PoolStep, LogStep, SinkStep DEF IInv
<1> QED
  BY InitInvariant, <1>1, PTL DEF Spec

(***************************************************************************)
(* Every object of a page has one owner: a thread, or the bucket's list,   *)
(* which is threaded through the objects and never runs in a circle.       *)
(***************************************************************************)
THEOREM ObjectsHaveOneOwner == Spec => []ObjectsExclusive
<1>1. IInv => ObjectsExclusive
  BY DEF IInv, PoolInv
<1> QED
  BY <1>1, Invariance, PTL

(***************************************************************************)
(* One notify_one for each object given back is enough.                    *)
(***************************************************************************)
THEOREM NotifyOneIsEnough == Spec => []NoLostWakeup
<1>1. IInv => NoLostWakeup
  BY DEF IInv, PoolInv
<1> QED
  BY <1>1, Invariance, PTL

(***************************************************************************)
(* Every line in a log is put together, as the logger's items say, from    *)
(* the message of the call it was logged for, whatever other threads did   *)
(* with the objects of the same bucket between alloc and dealloc.          *)
(***************************************************************************)
THEOREM OwnMessageIsLogged == Spec => []LinesAreOwn
<1>1. IInv => LinesAreOwn
  BY DEF IInv, LogInv
<1> QED
  BY <1>1, Invariance, PTL

(***************************************************************************)
(* Every variable has its type.                                            *)
(***************************************************************************)
THEOREM TypeCorrect == Spec => []TypeOK
<1>1. IInv => TypeOK
  BY TypesAreRight DEF IInv
<1> QED
  BY <1>1, Invariance, PTL

(***************************************************************************)
(* A sink gets, for a call, the call's own message written as the pattern  *)
(* says, if the pattern ends in a conversion and all loggers write the     *)
(* time in one format, although a thread has one cache for all of them.    *)
(***************************************************************************)
THEOREM LinesAreRight == Spec => []LineIsRight
<1>1. IInv => LineIsRight
  BY LinesMean DEF IInv
<1> QED
  BY <1>1, Invariance, PTL

(***************************************************************************)
(* A file that one process opened stays within maxSize_, if each of its    *)
(* lines does, through rolling over, crashes and restarts.                 *)
(***************************************************************************)
THEOREM FilesStayBounded == Spec => []FilesBounded
<1>1. IInv => FilesBounded
  BY FilesFit DEF IInv
<1> QED
  BY <1>1, Invariance, PTL
=============================================================================
