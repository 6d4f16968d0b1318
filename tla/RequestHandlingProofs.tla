------------------------ MODULE RequestHandlingProofs ------------------------
(***************************************************************************)
(* Proofs about RequestHandling, for any routes, middleware chains,        *)
(* allowed origins and requests.                                           *)
(***************************************************************************)
EXTENDS RequestHandling, SequenceTheorems, WellFoundedInduction, TLAPS

(***************************************************************************)
(* What the tables say of the registrations.  An exact table has, for each *)
(* key, the last registration of its kind; a dynamic one has all of them,  *)
(* in order.                                                               *)
(***************************************************************************)
IsEntry(e, regs, kind) ==
  e.target \in DOMAIN regs /\ e = Entry(regs[e.target], e.target) /\ regs[e.target].kind = kind

ExactTable(table, regs, kind) ==
  /\ \A e \in table : IsEntry(e, regs, kind)
  /\ \A e, f \in table : e.key = f.key => e = f
  /\ \A i \in DOMAIN regs : regs[i].kind = kind =>
       \E e \in table : e.key = Key(regs[i]) /\ i <= e.target

DynamicTable(list, regs, kind) ==
  /\ \A k \in DOMAIN list : IsEntry(list[k], regs, kind)
  /\ \A i \in DOMAIN regs : regs[i].kind = kind => \E k \in DOMAIN list : list[k].target = i
  /\ \A k, l \in DOMAIN list : k < l => list[k].target < list[l].target

TablesMatch ==
  /\ ExactTable(handlers, registered, "handler")
  /\ ExactTable(callbacks, registered, "callback")
  /\ DynamicTable(regex_handlers, registered, "regex_handler")
  /\ DynamicTable(regex_callbacks, registered, "regex_callback")

(***************************************************************************)
(* A handler is called after all of the middlewares, once the request and  *)
(* the routes are what the router saw.                                     *)
(***************************************************************************)
HandledLate ==
  \A i \in DOMAIN calls : calls[i].what = "handle" => pc \in {"after", "done"}

(***************************************************************************)
(* The place that the processing has come to: all before it that are due   *)
(* were called, and none from it on, and nothing has ended the processing. *)
(***************************************************************************)
Current ==
  CASE pc = "setup"  -> 1
    [] pc = "before" -> index
    [] pc = "route"  -> HandlerPlace
    [] pc = "after"  -> BehindPlace(index)
    [] pc = "done"   -> 2 * HandlerPlace

InTurn ==
  pc # "done" =>
    /\ \A i \in DOMAIN calls : Place(calls[i]) < Current /\ ~Ends(calls[i])
    /\ \A p \in Due : p < Current => CalledAt(p)

WhereIndexIs ==
  /\ pc = "setup" => calls = << >> /\ request = NoRequest /\ response.allow = NoOrigin
  /\ pc = "before" => index >= 1
  /\ pc = "after" => index <= Len(middlewares)
  /\ pc # "setup" => request \in Requests

IInv ==
  /\ TypeOK
  /\ TablesMatch
  /\ HandledLate
  /\ InTurn
  /\ WhereIndexIs
  /\ RoutedAsRegistered
  /\ Onion
  /\ OnlyAllowedOrigins

-----------------------------------------------------------------------------
(* The router.                                                             *)

(***************************************************************************)
(* A set of numbers that has any has a least one.                          *)
(***************************************************************************)
LEMMA LeastNumber ==
  ASSUME NEW T, T \subseteq Nat, T # {}
  PROVE  \E x \in T : \A y \in T : x <= y
<1>1. \E x \in T : \A y \in T : ~(<<y, x>> \in OpToRel(<, Nat))
  BY NatLessThanWellFounded, WFMin
<1>2. PICK x \in T : \A y \in T : ~(y < x)
  BY <1>1 DEF OpToRel
<1>3. \A y \in T : x \in Nat /\ y \in Nat
  OBVIOUS
<1> QED
  BY <1>2, <1>3

(* What may be registered.                                                 *)
Routes == Catalogue \cup {DefaultOptions}

(***************************************************************************)
(* Registrations are numbered, and each has one of the four kinds.         *)
(***************************************************************************)
LEMMA KindFacts ==
  ASSUME TypeOK
  PROVE  /\ registered \in Seq(Routes)
         /\ DOMAIN registered \subseteq Nat
         /\ \A i \in DOMAIN registered : \E k \in DOMAIN Kinds : registered[i].kind = Kinds[k]
<1>1. registered \in Seq(Routes)
  BY DEF TypeOK, Routes
<1>2. DOMAIN registered \subseteq Nat
  BY <1>1, LenProperties
<1>3. \A r \in Routes : \E k \in DOMAIN Kinds : r.kind = Kinds[k]
  <2>1. DefaultOptions.kind = Kinds[2] /\ 2 \in DOMAIN Kinds
    BY DEF DefaultOptions, Kinds
  <2> QED
    BY <2>1, RoutesAssumption DEF Routes
<1>4. \A i \in DOMAIN registered : registered[i] \in Routes
  BY <1>1, LenProperties, ElementOfSeq
<1> QED
  BY <1>1, <1>2, <1>3, <1>4

(***************************************************************************)
(* The order of the kinds.                                                 *)
(***************************************************************************)
LEMMA RankIs ==
  ASSUME NEW r, NEW k \in DOMAIN Kinds, r.kind = Kinds[k]
  PROVE  Rank(r) = k /\ (IsExact(r) <=> k \in {1, 2}) /\ k \in 1 .. 4
<1>1. DOMAIN Kinds = 1 .. 4
  BY DEF Kinds
<1>2. \A i, j \in 1 .. 4 : Kinds[i] = Kinds[j] => i = j
  BY DEF Kinds
<1>3. Rank(r) = k
  BY <1>1, <1>2 DEF Rank
<1>4. IsExact(r) <=> k \in {1, 2}
  BY <1>1 DEF IsExact, Kinds
<1> QED
  BY <1>1, <1>3, <1>4

(* What one of the router's searches finds is right: it serves the request *)
(* and is the best of its kind, and it is found if there is any.           *)
Finds(found, kind) ==
  /\ \A t \in found :
       /\ t \in Candidates /\ registered[t].kind = kind
       /\ \A j \in Candidates \ {t} : registered[j].kind = kind => Beats(t, j)
  /\ \A j \in Candidates : registered[j].kind = kind => found # {}

(***************************************************************************)
(* An exact table is searched for the key of the request.                  *)
(***************************************************************************)
LEMMA ExactSearch ==
  ASSUME TypeOK, NEW table, NEW k \in {1, 2}, ExactTable(table, registered, Kinds[k])
  PROVE  Finds(Hit(table), Kinds[k])
<1> DEFINE kind == Kinds[k]
<1>1. k \in DOMAIN Kinds
  BY DEF Kinds
<1>2. \A e \in table : /\ e.target \in DOMAIN registered /\ e.key = Key(registered[e.target])
                       /\ registered[e.target].kind = kind
  BY DEF ExactTable, IsEntry, Entry
<1>3. \A i \in DOMAIN registered : registered[i].kind = kind =>
        Rank(registered[i]) = k /\ IsExact(registered[i])
  BY <1>1, RankIs
<1>4. \A i \in Candidates : registered[i].kind = kind =>
        i \in DOMAIN registered /\ Key(registered[i]) = <<req.method, req.path>>
  BY <1>3 DEF Candidates, Serves, Key
<1>5. \A t \in Hit(table) : \E e \in table : e.target = t /\ e.key = <<req.method, req.path>>
  BY DEF Hit
<1>6. ASSUME NEW t \in Hit(table)
      PROVE  t \in Candidates /\ registered[t].kind = kind
  <2>1. PICK e \in table : e.target = t /\ e.key = <<req.method, req.path>>
    BY <1>5
  <2>2. Serves(registered[t])
    BY <1>2, <1>3, <2>1 DEF Serves, Key
  <2> QED
    BY <1>2, <2>1, <2>2 DEF Candidates
<1>7. ASSUME NEW t \in Hit(table), NEW j \in Candidates \ {t}, registered[j].kind = kind
      PROVE  Beats(t, j)
  <2>1. PICK e \in table : e.target = t /\ e.key = <<req.method, req.path>>
    BY <1>5
  <2>2. PICK f \in table : f.key = Key(registered[j]) /\ j <= f.target
    BY <1>4, <1>7 DEF ExactTable
  <2>3. e = f
    BY <1>4, <1>7, <2>1, <2>2 DEF ExactTable
  <2>4. t > j
    BY <1>2, <1>4, <1>7, <2>1, <2>2, <2>3, KindFacts
  <2> QED
    BY <1>3, <1>4, <1>6, <1>7, <2>4 DEF Beats, Candidates
<1>8. ASSUME NEW j \in Candidates, registered[j].kind = kind
      PROVE  Hit(table) # {}
  BY <1>4, <1>8 DEF ExactTable, Hit
<1> QED
  BY <1>6, <1>7, <1>8 DEF Finds

(***************************************************************************)
(* A dynamic table is searched for the first pattern that fits.            *)
(***************************************************************************)
LEMMA DynamicSearch ==
  ASSUME TypeOK, NEW list \in Seq(Entries), NEW k \in {3, 4},
         DynamicTable(list, registered, Kinds[k])
  PROVE  Finds(FirstHit(list), Kinds[k])
<1> DEFINE kind == Kinds[k]
           Fitting == {i \in DOMAIN list : Fits(list[i])}
<1>1. k \in DOMAIN Kinds /\ k \notin {1, 2}
  BY DEF Kinds
<1>2. Len(list) \in Nat /\ DOMAIN list = 1 .. Len(list)
  BY LenProperties
<1>3. \A i \in DOMAIN list : /\ list[i].target \in DOMAIN registered
                             /\ list[i].key = Key(registered[list[i].target])
                             /\ registered[list[i].target].kind = kind
  BY DEF DynamicTable, IsEntry, Entry
<1>4. \A i \in DOMAIN registered : registered[i].kind = kind =>
        Rank(registered[i]) = k /\ ~IsExact(registered[i])
  BY <1>1, RankIs
<1>5. \A i \in DOMAIN list : Fits(list[i]) <=> list[i].target \in Candidates
  BY <1>3, <1>4 DEF Fits, Candidates, Serves, Key
<1>6. \A j \in Candidates : registered[j].kind = kind => \E i \in Fitting : list[i].target = j
  BY <1>5 DEF DynamicTable, Candidates
<1>7. \A t \in FirstHit(list) :
        \E i \in DOMAIN list : /\ t = list[i].target /\ Fits(list[i])
                               /\ \A l \in 1 .. i - 1 : ~Fits(list[l])
  BY DEF FirstHit
<1>8. ASSUME NEW t \in FirstHit(list), NEW j \in Candidates \ {t}, registered[j].kind = kind
      PROVE  Beats(t, j)
  <2>1. PICK i \in DOMAIN list : /\ t = list[i].target /\ Fits(list[i])
                                 /\ \A l \in 1 .. i - 1 : ~Fits(list[l])
    BY <1>7
  <2>2. PICK l \in DOMAIN list : list[l].target = j /\ Fits(list[l])
    BY <1>6, <1>8
  <2>3. i < l
    <3>1. i # l
      BY <1>8, <2>1, <2>2
    <3>2. l \notin 1 .. i - 1
      BY <2>1, <2>2
    <3> QED
      BY <1>2, <3>1, <3>2
  <2>4. t < j
    BY <2>1, <2>2, <2>3 DEF DynamicTable
  <2> QED
    BY <1>3, <1>4, <1>8, <2>1, <2>4 DEF Beats, Candidates
<1>9. ASSUME NEW j \in Candidates, registered[j].kind = kind
      PROVE  FirstHit(list) # {}
  <2>1. Fitting # {} /\ Fitting \subseteq Nat
    BY <1>2, <1>6, <1>9
  <2>2. PICK i \in Fitting : \A l \in Fitting : i <= l
    BY <2>1, LeastNumber
  <2>3. \A l \in 1 .. i - 1 : ~Fits(list[l])
    <3>1. \A l \in 1 .. i - 1 : l \in DOMAIN list /\ ~(i <= l)
      BY <1>2, <2>2
    <3> QED
      BY <2>2, <3>1
  <2> QED
    BY <2>2, <2>3 DEF FirstHit
<1>10. ASSUME NEW t \in FirstHit(list)
       PROVE  t \in Candidates /\ registered[t].kind = kind
  BY <1>3, <1>5, <1>7
<1> QED
  BY <1>8, <1>9, <1>10 DEF Finds

(***************************************************************************)
(* The router takes the first of its searches that finds something, which  *)
(* is the best route of all, and finds nothing only where nothing serves.  *)
(***************************************************************************)
LEMMA RouteIsBest ==
  ASSUME TypeOK, TablesMatch
  PROVE  /\ route = {} => Candidates = {}
         /\ \A t \in route : /\ t \in Candidates
                             /\ \A j \in Candidates \ {t} : Beats(t, j)
<1> DEFINE searches == <<Hit(handlers), Hit(callbacks), FirstHit(regex_handlers),
                         FirstHit(regex_callbacks)>>
           found    == {i \in 1 .. 4 : searches[i] # {}}
<1>1. \A k \in 1 .. 4 : Finds(searches[k], Kinds[k])
  <2>1. Finds(Hit(handlers), Kinds[1])
    BY ExactSearch DEF TypeOK, TablesMatch, Kinds
  <2>2. Finds(Hit(callbacks), Kinds[2])
    BY ExactSearch DEF TypeOK, TablesMatch, Kinds
  <2>3. Finds(FirstHit(regex_handlers), Kinds[3])
    BY DynamicSearch DEF TypeOK, TablesMatch, Kinds
  <2>4. Finds(FirstHit(regex_callbacks), Kinds[4])
    BY DynamicSearch DEF TypeOK, TablesMatch, Kinds
  <2> QED
    BY <2>1, <2>2, <2>3, <2>4
<1>2. \A j \in Candidates : \E k \in 1 .. 4 : /\ registered[j].kind = Kinds[k]
                                              /\ Rank(registered[j]) = k
  BY KindFacts, RankIs DEF Candidates
<1>3. \A i \in 1 .. 4 : \A t \in searches[i] : Rank(registered[t]) = i
  <2>1. DOMAIN Kinds = 1 .. 4
    BY DEF Kinds
  <2> QED
    BY <1>1, <2>1, RankIs DEF Finds
<1>4. route = IF found = {} THEN {} ELSE searches[CHOOSE i \in found : \A j \in found : i <= j]
  BY DEF route
<1> HIDE DEF searches
<1>5. CASE found = {}
  <2>1. Candidates = {}
    BY <1>1, <1>2, <1>5 DEF Finds
  <2> QED
    BY <1>4, <1>5, <2>1
<1>6. CASE found # {}
  <2>1. \E i \in found : \A j \in found : i <= j
    <3>1. found \subseteq Nat
      OBVIOUS
    <3> QED
      BY <1>6, <3>1, LeastNumber
  <2>2. PICK i \in found : route = searches[i] /\ \A j \in found : i <= j
    BY <1>4, <1>6, <2>1
  <2>3. ASSUME NEW t \in route
        PROVE  t \in Candidates /\ \A j \in Candidates \ {t} : Beats(t, j)
    <3>1. t \in Candidates /\ registered[t].kind = Kinds[i] /\ Rank(registered[t]) = i
      BY <1>1, <1>3, <2>2, <2>3 DEF Finds
    <3>2. ASSUME NEW j \in Candidates \ {t}
          PROVE  Beats(t, j)
      <4>1. PICK k \in 1 .. 4 : registered[j].kind = Kinds[k] /\ Rank(registered[j]) = k
        BY <1>2
      <4>2. k \in found
        BY <1>1, <4>1 DEF Finds
      <4>3. CASE k = i
        BY <1>1, <2>2, <2>3, <4>1, <4>3 DEF Finds
      <4>4. CASE k # i
        <5>1. i < k
          BY <2>2, <4>2, <4>4
        <5> QED
          BY <3>1, <4>1, <5>1 DEF Beats
      <4> QED
        BY <4>3, <4>4
    <3> QED
      BY <3>1, <3>2
  <2>4. route # {}
    BY <2>2
  <2> QED
    BY <2>3, <2>4
<1> QED
  BY <1>5, <1>6

(***************************************************************************)
(* An entry stays one when more is registered.                             *)
(***************************************************************************)
LEMMA EntriesStay ==
  ASSUME NEW regs \in Seq(Routes), NEW r \in Routes
  PROVE  /\ Len(regs) + 1 \in DOMAIN Append(regs, r) /\ Append(regs, r)[Len(regs) + 1] = r
         /\ DOMAIN regs \subseteq 1 .. Len(regs) /\ Len(regs) \in Nat
         /\ \A i \in DOMAIN regs : i \in DOMAIN Append(regs, r) /\ Append(regs, r)[i] = regs[i]
         /\ \A i \in DOMAIN Append(regs, r) : i \in DOMAIN regs \/ i = Len(regs) + 1
         /\ \A e, kind : IsEntry(e, regs, kind) => IsEntry(e, Append(regs, r), kind)
         /\ IsEntry(Entry(r, Len(regs) + 1), Append(regs, r), r.kind)
         /\ Append(regs, r) \in Seq(Routes) /\ Len(Append(regs, r)) = Len(regs) + 1
<1> DEFINE more == Append(regs, r)
           n    == Len(regs) + 1
<1>1. /\ more \in Seq(Routes) /\ Len(more) = n
      /\ \A i \in 1 .. Len(regs) : more[i] = regs[i]
      /\ more[n] = r
  BY AppendProperties
<1>2. DOMAIN regs = 1 .. Len(regs) /\ Len(regs) \in Nat /\ DOMAIN more = 1 .. n
  BY <1>1, LenProperties
<1> HIDE DEF more
<1>3. \A i \in DOMAIN regs : i \in DOMAIN more /\ more[i] = regs[i]
  BY <1>1, <1>2
<1>4. \A i \in DOMAIN more : i \in DOMAIN regs \/ i = n
  BY <1>2
<1>5. n \in DOMAIN more
  BY <1>2
<1>6. \A e, kind : IsEntry(e, regs, kind) => IsEntry(e, more, kind)
  BY <1>3 DEF IsEntry
<1>7. IsEntry(Entry(r, n), more, r.kind)
  BY <1>1, <1>5 DEF IsEntry, Entry
<1> QED
  BY <1>1, <1>2, <1>3, <1>4, <1>5, <1>6, <1>7 DEF more

(***************************************************************************)
(* A table of another kind stays right when r is registered,               *)
(***************************************************************************)
LEMMA OtherTables ==
  ASSUME NEW regs \in Seq(Routes), NEW r \in Routes, NEW kind, r.kind # kind
  PROVE  /\ \A table : ExactTable(table, regs, kind) => ExactTable(table, Append(regs, r), kind)
         /\ \A list : DynamicTable(list, regs, kind) => DynamicTable(list, Append(regs, r), kind)
<1> DEFINE more == Append(regs, r)
<1>1. /\ \A e : IsEntry(e, regs, kind) => IsEntry(e, more, kind)
      /\ \A i \in DOMAIN more : more[i].kind = kind => i \in DOMAIN regs /\ more[i] = regs[i]
  BY EntriesStay
<1> HIDE DEF more
<1>2. ASSUME NEW table, ExactTable(table, regs, kind)
      PROVE  ExactTable(table, more, kind)
  BY <1>1, <1>2 DEF ExactTable
<1>3. ASSUME NEW list, DynamicTable(list, regs, kind)
      PROVE  DynamicTable(list, more, kind)
  BY <1>1, <1>3 DEF DynamicTable
<1> QED
  BY <1>2, <1>3 DEF more

(***************************************************************************)
(* A table of exact routes is right after a registration of its own kind,  *)
(* which replaces what had its key.                                        *)
(***************************************************************************)
LEMMA ExactStored ==
  ASSUME NEW regs \in Seq(Routes), NEW r \in Routes, NEW table, ExactTable(table, regs, r.kind)
  PROVE  ExactTable(Stored(table, Entry(r, Len(regs) + 1)), Append(regs, r), r.kind)
<1> DEFINE more == Append(regs, r)
           n    == Len(regs) + 1
           e    == Entry(r, n)
           t    == Stored(table, e)
<1>1. /\ more[n] = r /\ DOMAIN regs \subseteq 1 .. Len(regs) /\ Len(regs) \in Nat
      /\ \A i \in DOMAIN regs : i \in DOMAIN more /\ more[i] = regs[i]
      /\ \A i \in DOMAIN more : i \in DOMAIN regs \/ i = n
      /\ \A x, kind : IsEntry(x, regs, kind) => IsEntry(x, more, kind)
      /\ IsEntry(e, more, r.kind)
  BY EntriesStay
<1>2. e.key = Key(r) /\ e.target = n
  BY DEF Entry
<1> HIDE DEF more, e
<1>3. \A x \in t : x = e \/ (x \in table /\ x.key # e.key)
  BY DEF Stored
<1>4. \A x \in t : IsEntry(x, more, r.kind)
  BY <1>1, <1>3 DEF ExactTable
<1>5. \A x, y \in t : x.key = y.key => x = y
  BY <1>3 DEF ExactTable
<1>6. ASSUME NEW i \in DOMAIN more, more[i].kind = r.kind
      PROVE  \E x \in t : x.key = Key(more[i]) /\ i <= x.target
  <2>1. CASE i = n
    BY <1>1, <1>2, <2>1 DEF Stored
  <2>2. CASE i \in DOMAIN regs
    <3>1. PICK x \in table : x.key = Key(regs[i]) /\ i <= x.target
      BY <1>1, <1>6, <2>2 DEF ExactTable
    <3>2. CASE x.key = e.key
      <4>1. i <= n
        BY <1>1, <2>2
      <4> QED
        BY <1>1, <1>2, <2>2, <3>1, <3>2, <4>1 DEF Stored
    <3>3. CASE x.key # e.key
      BY <1>1, <2>2, <3>1, <3>3 DEF Stored
    <3> QED
      BY <3>2, <3>3
  <2> QED
    BY <1>1, <2>1, <2>2
<1> QED
  BY <1>4, <1>5, <1>6 DEF ExactTable, more, e

(***************************************************************************)
(* A list of dynamic routes is right after a registration of its own kind, *)
(* which comes behind what there is.                                       *)
(***************************************************************************)
LEMMA DynamicAppended ==
  ASSUME NEW regs \in Seq(Routes), NEW r \in Routes, NEW S, NEW list \in Seq(S),
         DynamicTable(list, regs, r.kind)
  PROVE  DynamicTable(Append(list, Entry(r, Len(regs) + 1)), Append(regs, r), r.kind)
<1> DEFINE more == Append(regs, r)
           n    == Len(regs) + 1
           e    == Entry(r, n)
           t    == Append(list, e)
<1>1. /\ more[n] = r /\ DOMAIN regs \subseteq 1 .. Len(regs) /\ Len(regs) \in Nat
      /\ \A i \in DOMAIN regs : i \in DOMAIN more /\ more[i] = regs[i]
      /\ \A i \in DOMAIN more : i \in DOMAIN regs \/ i = n
      /\ \A x, kind : IsEntry(x, regs, kind) => IsEntry(x, more, kind)
      /\ IsEntry(e, more, r.kind)
  BY EntriesStay
<1>2. e.target = n
  BY DEF Entry
<1> HIDE DEF more, e
<1>3. /\ Len(list) \in Nat /\ DOMAIN list = 1 .. Len(list) /\ DOMAIN t = 1 .. Len(list) + 1
      /\ \A k \in DOMAIN list : t[k] = list[k]
      /\ t[Len(list) + 1] = e
  <2>1. list \in Seq(S \cup {e}) /\ e \in S \cup {e}
    OBVIOUS
  <2> QED
    BY <2>1, AppendProperties, LenProperties
<1> HIDE DEF t
<1>4. \A k \in DOMAIN list : IsEntry(list[k], regs, r.kind) /\ list[k].target \in DOMAIN regs
  BY DEF DynamicTable, IsEntry
<1>5. \A k \in DOMAIN t : k \in DOMAIN list \/ k = Len(list) + 1
  BY <1>3
<1>6. \A k \in DOMAIN t : IsEntry(t[k], more, r.kind)
  BY <1>1, <1>3, <1>4, <1>5
<1>7. ASSUME NEW i \in DOMAIN more, more[i].kind = r.kind
      PROVE  \E k \in DOMAIN t : t[k].target = i
  <2>1. CASE i = n
    <3>1. Len(list) + 1 \in DOMAIN t
      BY <1>3
    <3> QED
      BY <1>2, <1>3, <2>1, <3>1
  <2>2. CASE i \in DOMAIN regs
    <3>1. PICK k \in DOMAIN list : list[k].target = i
      BY <1>1, <1>7, <2>2 DEF DynamicTable
    <3>2. k \in DOMAIN t
      BY <1>3
    <3> QED
      BY <1>3, <3>1, <3>2
  <2> QED
    BY <1>1, <2>1, <2>2
<1>8. ASSUME NEW k \in DOMAIN t, NEW l \in DOMAIN t, k < l
      PROVE  t[k].target < t[l].target
  <2>1. k \in DOMAIN list
    BY <1>3, <1>8
  <2>2. CASE l \in DOMAIN list
    BY <1>3, <1>8, <2>1, <2>2 DEF DynamicTable
  <2>3. CASE l = Len(list) + 1
    <3>1. t[k].target \in 1 .. Len(regs) /\ t[l].target = Len(regs) + 1
      BY <1>1, <1>2, <1>3, <1>4, <2>1, <2>3
    <3> QED
      BY <1>1, <3>1
  <2> QED
    BY <1>5, <2>2, <2>3
<1> QED
  BY <1>6, <1>7, <1>8 DEF DynamicTable, more, e, t

-----------------------------------------------------------------------------
(* The types.                                                              *)

(***************************************************************************)
(* What is known of the request at hand.                                   *)
(***************************************************************************)
LEMMA RequestFacts ==
  ASSUME TypeOK
  PROVE  /\ request.origin \in Origins /\ request.keepAlive \in BOOLEAN
         /\ req.origin = request.origin
         /\ [req EXCEPT !.path = OptionsPath] \in {request, [request EXCEPT !.path = OptionsPath]}
<1>1. request \in [method : {request.method}, path : {request.path},
                   origin : {request.origin}, keepAlive : BOOLEAN]
  <2>1. NoRequest \in [method : {NoRequest.method}, path : {NoRequest.path},
                       origin : {NoRequest.origin}, keepAlive : BOOLEAN]
    BY DEF NoRequest
  <2> QED
    BY <2>1, RoutesAssumption DEF TypeOK
<1>2. request.origin \in Origins
  <2>1. NoRequest.origin = NoOrigin
    BY DEF NoRequest
  <2> QED
    BY <2>1 DEF TypeOK, Origins
<1>3. req \in {request, [request EXCEPT !.path = OptionsPath]}
  BY DEF TypeOK
<1> QED
  BY <1>1, <1>2, <1>3

(***************************************************************************)
(* The chain that the index runs over.                                     *)
(***************************************************************************)
LEMMA ChainFacts ==
  ASSUME TypeOK
  PROVE  /\ Len(middlewares) \in Nat /\ DOMAIN middlewares = 1 .. Len(middlewares)
         /\ index \in Int
         /\ InChain => index \in 1 .. Len(middlewares)
         /\ middlewares \in Seq({"cors", "other", "null"})
         /\ \A m \in DOMAIN middlewares : middlewares[m] \in {"cors", "other", "null"}
<1>1. middlewares \in Seq({"cors", "other", "null"})
  BY RoutesAssumption DEF TypeOK
<1>2. \A m \in DOMAIN middlewares : middlewares[m] \in {"cors", "other", "null"}
  BY <1>1, ElementOfSeq, LenProperties
<1>3. Len(middlewares) \in Nat /\ DOMAIN middlewares = 1 .. Len(middlewares)
  BY <1>1, LenProperties
<1> QED
  BY <1>1, <1>2, <1>3 DEF TypeOK, InChain

(***************************************************************************)
(* The values that the header Access-Control-Allow-Origin may get.         *)
(***************************************************************************)
LEMMA CorsOrigins ==
  ASSUME TypeOK
  PROVE  /\ cors_origin \in Origins
         /\ handle_preflight_request \in
              [status : Statuses, keepAlive : BOOLEAN, origin : Origins, allow : Origins]
         /\ cors_after \in
              [status : Statuses, keepAlive : BOOLEAN, origin : Origins, allow : Origins]
         /\ ThrownResponse \in
              [status : Statuses, keepAlive : BOOLEAN, origin : Origins, allow : Origins]
<1>1. NoOrigin \in Origins /\ Star \in Origins /\ req.origin \in Origins
  BY RequestFacts DEF Origins
<1>2. cors_origin \in Origins
  <2>1. ASSUME allow_origins # << >>
        PROVE  allow_origins[1] \in Origins
    <3>1. allow_origins \in AllowOrigins /\
          allow_origins \in Seq({allow_origins[i] : i \in DOMAIN allow_origins})
      BY RoutesAssumption DEF TypeOK
    <3>2. 1 \in DOMAIN allow_origins
      BY <2>1, <3>1, EmptySeq, LenProperties
    <3> QED
      BY <3>1, <3>2 DEF Origins
  <2> QED
    BY <1>1, <2>1 DEF cors_origin
<1>3. cors_after \in [status : Statuses, keepAlive : BOOLEAN, origin : Origins, allow : Origins]
  BY <1>2 DEF TypeOK, cors_after
<1>4. /\ "no content" \in Statuses /\ "forbidden" \in Statuses /\ "thrown" \in Statuses
      /\ FALSE \in BOOLEAN
  BY DEF Statuses
<1>5. handle_preflight_request \in
        [status : Statuses, keepAlive : BOOLEAN, origin : Origins, allow : Origins]
  BY <1>1, <1>4 DEF handle_preflight_request, Response
<1>6. ThrownResponse \in
        [status : Statuses, keepAlive : BOOLEAN, origin : Origins, allow : Origins]
  BY <1>1, <1>4 DEF ThrownResponse, Response
<1> QED
  BY <1>2, <1>3, <1>5, <1>6

(***************************************************************************)
(* What is recorded of a call.                                             *)
(***************************************************************************)
LEMMA CallIsRecorded ==
  ASSUME TypeOK, NEW what \in {"before", "handle", "after"}, NEW who \in Nat,
         NEW end \in {"return", "exception", "response", "not found"},
         Called(what, who, end)
  PROVE  /\ calls' \in Seq(Call)
         /\ calls' = Append(calls, [what |-> what, who |-> who, end |-> end])
<1>1. [what |-> what, who |-> who, end |-> end] \in Call
  BY DEF Call
<1> QED
  BY <1>1, AppendProperties DEF Called, TypeOK

(***************************************************************************)
(* The initial states.                                                     *)
(***************************************************************************)
LEMMA InitInvariant == Init => IInv
<1> SUFFICES ASSUME Init PROVE IInv
  OBVIOUS
<1>1. /\ registered = <<DefaultOptions>> /\ Len(registered) = 1 /\ DOMAIN registered = {1}
      /\ registered[1] = DefaultOptions /\ DefaultOptions.kind = "callback"
      /\ registered \in Seq(Catalogue \cup {DefaultOptions})
  BY DEF Init, DefaultOptions
<1>2. Entry(DefaultOptions, 1) \in Entries
  BY <1>1 DEF Entries
<1>3. calls = << >> /\ calls \in Seq(Call) /\ DOMAIN calls = {}
  <2>1. << >> \in Seq(Call)
    BY EmptySeq
  <2> QED
    BY <2>1 DEF Init
<1>4. regex_handlers \in Seq(Entries) /\ regex_callbacks \in Seq(Entries)
  <2>1. << >> \in Seq(Entries)
    BY EmptySeq
  <2> QED
    BY <2>1 DEF Init
<1>5. middlewares \in Seq({"cors", "other", "null"}) /\ Len(middlewares) \in Nat
      /\ DOMAIN middlewares = 1 .. Len(middlewares)
  BY RoutesAssumption, LenProperties DEF Init
<1>6. response \in [status : Statuses, keepAlive : BOOLEAN, origin : Origins, allow : Origins]
      /\ response.allow = NoOrigin
  BY DEF Init, Response, Statuses, Origins
<1>7. TypeOK
  <2>1. /\ Len(registered) \in 1 .. MaxRoutes + 1 /\ index \in 0 .. Len(middlewares) + 1
        /\ pc \in {"setup", "before", "route", "after", "done"}
    BY <1>1, <1>5, RoutesAssumption DEF Init
  <2>2. /\ handlers \subseteq Entries /\ callbacks \subseteq Entries
        /\ \A e, f \in handlers : e.key = f.key => e = f
        /\ \A e, f \in callbacks : e.key = f.key => e = f
    BY <1>2 DEF Init
  <2>3. /\ middlewares \in Chains /\ allow_origins \in AllowOrigins
        /\ request \in Requests \cup {NoRequest}
        /\ req \in {request, [request EXCEPT !.path = OptionsPath]}
    BY DEF Init
  <2> QED
    BY <1>1, <1>3, <1>4, <1>6, <2>1, <2>2, <2>3 DEF TypeOK
<1>8. TablesMatch
  <2>1. IsEntry(Entry(DefaultOptions, 1), registered, "callback")
    BY <1>1 DEF IsEntry, Entry
  <2>2. Entry(DefaultOptions, 1).key = Key(registered[1]) /\ Entry(DefaultOptions, 1).target = 1
    BY <1>1 DEF Entry
  <2>3. ExactTable(callbacks, registered, "callback")
    BY <1>1, <2>1, <2>2 DEF Init, ExactTable
  <2>4. ExactTable(handlers, registered, "handler")
    BY <1>1 DEF Init, ExactTable
  <2>5. /\ DynamicTable(regex_handlers, registered, "regex_handler")
        /\ DynamicTable(regex_callbacks, registered, "regex_callback")
    BY <1>1 DEF Init, DynamicTable
  <2> QED
    BY <2>3, <2>4, <2>5 DEF TablesMatch
<1>9. HandledLate /\ RoutedAsRegistered /\ WhereIndexIs
  BY <1>3, <1>6 DEF Init, HandledLate, RoutedAsRegistered, WhereIndexIs
<1>10. \A p \in Due : p >= 1
  BY <1>5 DEF Due, HandlerPlace, BehindPlace
<1>11. InTurn /\ Onion
  <2>1. Current = 1
    BY DEF Init, Current
  <2>2. \A p \in Due : ~(p < 1)
    <3>1. \A p \in Due : p \in Int
      BY <1>5 DEF Due, HandlerPlace, BehindPlace
    <3> QED
      BY <1>10, <3>1
  <2> QED
    BY <1>3, <2>1, <2>2 DEF Init, InTurn, Onion
<1>12. OnlyAllowedOrigins
  BY <1>6 DEF OnlyAllowedOrigins, Grants
<1> QED
  BY <1>7, <1>8, <1>9, <1>11, <1>12 DEF IInv

(***************************************************************************)
(* The tables change only while routes are registered, and then all of     *)
(* them stay tables of the registrations.                                  *)
(***************************************************************************)
LEMMA RegisterTables ==
  ASSUME TypeOK, TablesMatch, NEW r \in Catalogue, Register(r)
  PROVE  /\ registered' \in Seq(Routes) /\ Len(registered') \in 1 .. MaxRoutes + 1
         /\ handlers' \subseteq Entries' /\ callbacks' \subseteq Entries'
         /\ regex_handlers' \in Seq(Entries') /\ regex_callbacks' \in Seq(Entries')
         /\ TablesMatch'
<1> DEFINE e == Entry(r, Len(registered) + 1)
<1>1. registered \in Seq(Routes) /\ r \in Routes /\ registered' = Append(registered, r)
  BY DEF TypeOK, Routes, Register
<1>2. /\ registered' \in Seq(Routes) /\ Len(registered') = Len(registered) + 1
      /\ Len(registered) \in Nat
      /\ \A i \in DOMAIN registered : i \in DOMAIN registered' /\ registered'[i] = registered[i]
      /\ Len(registered) + 1 \in DOMAIN registered' /\ registered'[Len(registered) + 1] = r
  BY <1>1, EntriesStay
<1>3. Len(registered') \in 1 .. MaxRoutes + 1
  BY <1>2, RoutesAssumption DEF Register
<1>4. Entries \subseteq Entries' /\ e \in Entries'
  <2>1. Entries' = {Entry(registered'[i], i) : i \in DOMAIN registered'}
    BY DEF Entries
  <2> QED
    BY <1>2, <2>1 DEF Entries
<1>5. handlers' \subseteq Entries' /\ callbacks' \subseteq Entries'
  BY <1>4 DEF Register, Stored, TypeOK
<1>6. ASSUME NEW list \in Seq(Entries)
      PROVE  list \in Seq(Entries') /\ Append(list, e) \in Seq(Entries')
  <2>1. list \in Seq(Entries')
    BY <1>4, <1>6, ElementOfSeq, LenProperties
  <2> QED
    BY <1>4, <2>1, AppendProperties
<1>7. regex_handlers' \in Seq(Entries') /\ regex_callbacks' \in Seq(Entries')
  BY <1>6 DEF Register, TypeOK
<1>8. /\ ExactTable(handlers', registered', "handler")
      /\ ExactTable(callbacks', registered', "callback")
      /\ DynamicTable(regex_handlers', registered', "regex_handler")
      /\ DynamicTable(regex_callbacks', registered', "regex_callback")
  <2>1. CASE r.kind = "handler"
    <3>1. /\ handlers' = Stored(handlers, e)
          /\ UNCHANGED <<callbacks, regex_handlers, regex_callbacks>>
      BY <2>1 DEF Register
    <3>2. ExactTable(handlers', registered', "handler")
      BY <1>1, <2>1, <3>1, ExactStored DEF TablesMatch
    <3> QED
      BY <1>1, <2>1, <3>1, <3>2, OtherTables DEF TablesMatch
  <2>2. CASE r.kind = "callback"
    <3>1. /\ callbacks' = Stored(callbacks, e)
          /\ UNCHANGED <<handlers, regex_handlers, regex_callbacks>>
      BY <2>2 DEF Register
    <3>2. ExactTable(callbacks', registered', "callback")
      BY <1>1, <2>2, <3>1, ExactStored DEF TablesMatch
    <3> QED
      BY <1>1, <2>2, <3>1, <3>2, OtherTables DEF TablesMatch
  <2>3. CASE r.kind = "regex_handler"
    <3>1. /\ regex_handlers' = Append(regex_handlers, e)
          /\ UNCHANGED <<handlers, callbacks, regex_callbacks>>
      BY <2>3 DEF Register
    <3>2. DynamicTable(regex_handlers', registered', "regex_handler")
      <4>1. regex_handlers \in Seq(Entries) /\ registered \in Seq(Routes) /\ r \in Routes
            /\ DynamicTable(regex_handlers, registered, r.kind)
        BY <1>1, <2>3 DEF TablesMatch, TypeOK
      <4> QED
        BY <1>1, <2>3, <3>1, <4>1, DynamicAppended
    <3> QED
      BY <1>1, <2>3, <3>1, <3>2, OtherTables DEF TablesMatch
  <2>4. CASE r.kind = "regex_callback"
    <3>1. /\ regex_callbacks' = Append(regex_callbacks, e)
          /\ UNCHANGED <<handlers, callbacks, regex_handlers>>
      BY <2>4 DEF Register
    <3>2. DynamicTable(regex_callbacks', registered', "regex_callback")
      <4>1. regex_callbacks \in Seq(Entries) /\ registered \in Seq(Routes) /\ r \in Routes
            /\ DynamicTable(regex_callbacks, registered, r.kind)
        BY <1>1, <2>4 DEF TablesMatch, TypeOK
      <4> QED
        BY <1>1, <2>4, <3>1, <4>1, DynamicAppended
    <3> QED
      BY <1>1, <2>4, <3>1, <3>2, OtherTables DEF TablesMatch
  <2> QED
    BY <2>1, <2>2, <2>3, <2>4 DEF Register
<1> QED
  BY <1>2, <1>3, <1>5, <1>7, <1>8 DEF TablesMatch

(***************************************************************************)
(* Once the request has come, the tables and the configuration stay, and   *)
(* the types are about what the step does to the rest.                     *)
(***************************************************************************)
LEMMA RestOfTypes ==
  ASSUME TypeOK, UNCHANGED <<tables, config>>,
         pc' \in {"setup", "before", "route", "after", "done"},
         index' \in 0 .. Len(middlewares) + 1,
         request' \in Requests \cup {NoRequest},
         req' \in {request', [request' EXCEPT !.path = OptionsPath]},
         response' \in [status : Statuses, keepAlive : BOOLEAN, origin : Origins, allow : Origins],
         calls' \in Seq(Call)
  PROVE  TypeOK'
<1>1. UNCHANGED <<registered, handlers, callbacks, regex_handlers, regex_callbacks,
                  middlewares, allow_origins>>
  BY DEF tables, config
<1>2. Entries' = Entries
  BY <1>1 DEF Entries
<1>3. /\ registered' \in Seq(Catalogue \cup {DefaultOptions})
      /\ Len(registered') \in 1 .. MaxRoutes + 1
      /\ handlers' \subseteq Entries' /\ callbacks' \subseteq Entries'
      /\ \A e, f \in handlers' : e.key = f.key => e = f
      /\ \A e, f \in callbacks' : e.key = f.key => e = f
      /\ regex_handlers' \in Seq(Entries') /\ regex_callbacks' \in Seq(Entries')
      /\ middlewares' \in Chains /\ allow_origins' \in AllowOrigins
      /\ Len(middlewares') = Len(middlewares)
  BY <1>1, <1>2 DEF TypeOK
<1> QED
  BY <1>3 DEF TypeOK

(***************************************************************************)
(* A step that runs the request keeps the types.                           *)
(***************************************************************************)
LEMMA StepTypes ==
  ASSUME TypeOK, TablesMatch, WhereIndexIs, Next
  PROVE  TypeOK'
<1> DEFINE Resp == [status : Statuses, keepAlive : BOOLEAN, origin : Origins, allow : Origins]
<1>1. ASSUME NEW r \in Catalogue, Register(r)
      PROVE  TypeOK'
  <2>1. /\ registered' \in Seq(Catalogue \cup {DefaultOptions})
        /\ Len(registered') \in 1 .. MaxRoutes + 1
        /\ handlers' \subseteq Entries' /\ callbacks' \subseteq Entries'
        /\ regex_handlers' \in Seq(Entries') /\ regex_callbacks' \in Seq(Entries')
        /\ \A e, f \in handlers' : e.key = f.key => e = f
        /\ \A e, f \in callbacks' : e.key = f.key => e = f
    BY <1>1, RegisterTables DEF Routes, TablesMatch, ExactTable
  <2>2. UNCHANGED <<middlewares, allow_origins, pc, index, request, req, response, calls>>
    BY <1>1 DEF Register, config
  <2>3. /\ middlewares' \in Chains /\ allow_origins' \in AllowOrigins
        /\ pc' \in {"setup", "before", "route", "after", "done"}
        /\ index' \in 0 .. Len(middlewares') + 1
        /\ request' \in Requests \cup {NoRequest}
        /\ req' \in {request', [request' EXCEPT !.path = OptionsPath]}
        /\ response' \in Resp /\ calls' \in Seq(Call)
    BY <2>2 DEF TypeOK
  <2> QED
    BY <2>1, <2>3 DEF TypeOK
<1>2. /\ pc \in {"setup", "before", "route", "after", "done"}
      /\ index \in 0 .. Len(middlewares) + 1 /\ request \in Requests \cup {NoRequest}
      /\ req \in {request, [request EXCEPT !.path = OptionsPath]}
      /\ response \in Resp /\ calls \in Seq(Call)
  BY DEF TypeOK
<1>3. \A s \in Statuses : [response EXCEPT !.status = s] \in Resp
  BY <1>2
<1>4. /\ ThrownResponse \in Resp /\ handle_preflight_request \in Resp /\ cors_after \in Resp
      /\ [response EXCEPT !.status = "error"] \in Resp
  BY <1>3, CorsOrigins DEF Statuses
<1>5. CASE Begin
  <2>1. request' \in Requests /\ req' = request' /\ calls' \in Seq(Call)
        /\ pc' \in {"setup", "before", "route", "after", "done"}
    BY <1>2, <1>5 DEF Begin
  <2>2. request'.origin \in Origins /\ request'.keepAlive \in BOOLEAN
    BY <2>1, RoutesAssumption DEF Origins
  <2>3. response' \in Resp
    BY <1>5, <2>2 DEF Begin, Response, Statuses, Origins
  <2>4. index' \in 0 .. Len(middlewares) + 1
    BY <1>5, ChainFacts DEF Begin
  <2> QED
    BY <1>5, <2>1, <2>3, <2>4, RestOfTypes DEF Begin
<1>6. CASE process_before
  <2>1. UNCHANGED <<tables, config, request>> /\ pc = "before"
    BY <1>6 DEF process_before, BeforeNull, BeforeCors, BeforeOther, BeforeDone
  <2>2. req' \in {request, [request EXCEPT !.path = OptionsPath]}
    BY <1>2, <1>6, RequestFacts DEF process_before, BeforeNull, BeforeCors,
       BeforeOther, BeforeDone
  <2>3. pc' \in {"before", "route", "done"}
    BY <1>6 DEF process_before, BeforeNull, BeforeCors, BeforeOther, BeforeDone, Advance,
                CatchResponse, CatchException
  <2>4. index' = index \/ (InChain /\ index' = index + 1)
    BY <1>6 DEF process_before, BeforeNull, BeforeCors, BeforeOther, BeforeDone, Advance,
                CatchResponse, CatchException
  <2>5. index' \in 0 .. Len(middlewares) + 1
    BY <1>2, <2>4, ChainFacts
  <2>6. response' \in Resp
    BY <1>2, <1>4, <1>6 DEF process_before, BeforeNull, BeforeCors, BeforeOther,
       BeforeDone,
                            Advance, CatchResponse, CatchException
  <2>7. \/ calls' = calls
        \/ /\ InChain
           /\ \E end \in {"return", "exception", "response"} : Called("before", index, end)
    BY <1>6 DEF process_before, BeforeNull, BeforeCors, BeforeOther, BeforeDone, Advance
  <2>8. calls' \in Seq(Call)
    <3>1. ASSUME InChain, NEW end \in {"return", "exception", "response"},
                 Called("before", index, end)
          PROVE  calls' \in Seq(Call)
      <4>1. index \in Nat
        BY <3>1, ChainFacts
      <4> QED
        BY <3>1, <4>1, CallIsRecorded
    <3> QED
      BY <1>2, <2>7, <3>1
  <2> QED
    BY <1>2, <2>1, <2>2, <2>3, <2>5, <2>6, <2>8, RestOfTypes
<1>7. CASE Handle \/ NotFound
  <2>1. UNCHANGED <<tables, config, request, req>> /\ pc' \in {"after", "done"}
    BY <1>7 DEF Handle, NotFound, ToAfter, CatchResponse, CatchException
  <2>2. index' \in {index, Len(middlewares)}
    BY <1>7 DEF Handle, NotFound, ToAfter, CatchResponse, CatchException
  <2>3. index' \in 0 .. Len(middlewares) + 1
    BY <1>2, <2>2, ChainFacts
  <2>4. response' \in Resp
    <3>1. [response EXCEPT !.status = "ok"] \in Resp
      BY <1>3 DEF Statuses
    <3>2. [response EXCEPT !.status = "not found", !.keepAlive = FALSE] \in Resp
      BY <1>2 DEF Statuses
    <3> QED
      BY <1>4, <1>7, <3>1, <3>2 DEF Handle, NotFound, CatchResponse, CatchException
  <2>5. \A t \in route : t \in Nat
    BY RouteIsBest, KindFacts DEF Candidates
  <2>6. \E who \in Nat, end \in {"return", "exception", "response", "not found"} :
          Called("handle", who, end)
    BY <1>7, <2>5 DEF Handle, NotFound
  <2>7. calls' \in Seq(Call)
    BY <2>6, CallIsRecorded
  <2> QED
    BY <1>2, <2>1, <2>3, <2>4, <2>7, RestOfTypes
<1>8. CASE process_after
  <2>1. UNCHANGED <<tables, config, request, req>> /\ pc' \in {"after", "done"}
    BY <1>8 DEF process_after, AfterNull, AfterCors, AfterOther, AfterDone, Retreat,
       CatchResponse
  <2>2. index' = index \/ (InChain /\ index' = index - 1)
    BY <1>8 DEF process_after, AfterNull, AfterCors, AfterOther, AfterDone, Retreat,
       CatchResponse
  <2>3. index' \in 0 .. Len(middlewares) + 1
    BY <1>2, <2>2, ChainFacts
  <2>4. response' \in Resp
    BY <1>2, <1>4, <1>8 DEF process_after, AfterNull, AfterCors, AfterOther, AfterDone,
                            CatchResponse
  <2>5. \/ calls' = calls
        \/ /\ InChain
           /\ \E end \in {"return", "exception", "response"} : Called("after", index, end)
    BY <1>8 DEF process_after, AfterNull, AfterCors, AfterOther, AfterDone, Retreat
  <2>6. calls' \in Seq(Call)
    <3>1. ASSUME InChain, NEW end \in {"return", "exception", "response"},
                 Called("after", index, end)
          PROVE  calls' \in Seq(Call)
      <4>1. index \in Nat
        BY <3>1, ChainFacts
      <4> QED
        BY <3>1, <4>1, CallIsRecorded
    <3> QED
      BY <1>2, <2>5, <3>1
  <2> QED
    BY <1>2, <2>1, <2>3, <2>4, <2>6, RestOfTypes
<1> QED
  BY <1>1, <1>5, <1>6, <1>7, <1>8 DEF Next

-----------------------------------------------------------------------------
(* The onion.                                                              *)

(***************************************************************************)
(* The onion and the place it has come to, of any calls: n is the place of *)
(* the handler and D the places that are due.                              *)
(***************************************************************************)
PlaceOf(c, n) ==
  CASE c.what = "before" -> c.who
    [] c.what = "handle" -> n
    [] c.what = "after"  -> 2 * n - c.who

IsCalled(p, s, n) == \E i \in DOMAIN s : PlaceOf(s[i], n) = p

OnionOf(s, n, D, over) ==
  /\ \A i, j \in DOMAIN s : i < j => PlaceOf(s[i], n) < PlaceOf(s[j], n)
  /\ \A i \in DOMAIN s :
       /\ PlaceOf(s[i], n) \in D
       /\ \A p \in D : p < PlaceOf(s[i], n) => IsCalled(p, s, n)
       /\ Ends(s[i]) => i = Len(s)
  /\ over => (\A p \in D : IsCalled(p, s, n)) \/ Ends(s[Len(s)])

InTurnOf(s, n, D, p0) ==
  /\ \A i \in DOMAIN s : PlaceOf(s[i], n) < p0 /\ ~Ends(s[i])
  /\ \A p \in D : p < p0 => IsCalled(p, s, n)

(***************************************************************************)
(* These are the invariants, before a step and behind it.                  *)
(***************************************************************************)
LEMMA SameOnion ==
  /\ Onion <=> OnionOf(calls, HandlerPlace, Due, pc = "done")
  /\ InTurn <=> (pc # "done" => InTurnOf(calls, HandlerPlace, Due, Current))
  /\ Onion' <=> OnionOf(calls', HandlerPlace', Due', pc' = "done")
  /\ InTurn' <=> (pc' # "done" => InTurnOf(calls', HandlerPlace', Due', Current'))
<1>1. \A c : Place(c) = PlaceOf(c, HandlerPlace)
  BY DEF Place, PlaceOf, BehindPlace
<1>2. Onion <=> OnionOf(calls, HandlerPlace, Due, pc = "done")
  BY <1>1 DEF Onion, OnionOf, CalledAt, IsCalled
<1>3. InTurn <=> (pc # "done" => InTurnOf(calls, HandlerPlace, Due, Current))
  BY <1>1 DEF InTurn, InTurnOf, CalledAt, IsCalled
<1>4. Onion' <=> OnionOf(calls', HandlerPlace', Due', pc' = "done")
  BY DEF Onion, OnionOf, CalledAt, IsCalled, Place, PlaceOf, BehindPlace
<1>5. InTurn' <=> (pc' # "done" => InTurnOf(calls', HandlerPlace', Due', Current'))
  BY DEF InTurn, InTurnOf, CalledAt, IsCalled, Place, PlaceOf, BehindPlace
<1> QED
  BY <1>2, <1>3, <1>4, <1>5

(***************************************************************************)
(* One more call, at the place that is next.                               *)
(***************************************************************************)
LEMMA OneMoreCall ==
  ASSUME NEW s \in Seq(Call), NEW n \in Nat, NEW D, D \subseteq Int, NEW p0 \in D,
         InTurnOf(s, n, D, p0), OnionOf(s, n, D, FALSE),
         NEW c \in Call, PlaceOf(c, n) = p0
  PROVE  /\ ~Ends(c) => InTurnOf(Append(s, c), n, D, p0 + 1)
         /\ OnionOf(Append(s, c), n, D, Ends(c))
<1> DEFINE t == Append(s, c)
           last == Len(s) + 1
<1>1. /\ Len(s) \in Nat /\ DOMAIN s = 1 .. Len(s) /\ DOMAIN t = 1 .. last /\ Len(t) = last
      /\ \A i \in DOMAIN s : t[i] = s[i]
      /\ t[last] = c
  BY AppendProperties, LenProperties
<1> HIDE DEF t
<1>2. /\ \A i \in DOMAIN t : i \in DOMAIN s \/ i = last
      /\ \A i \in DOMAIN s : i \in DOMAIN t /\ i < last
      /\ last \in DOMAIN t
  BY <1>1
<1>3. /\ \A p : IsCalled(p, s, n) => IsCalled(p, t, n)
      /\ IsCalled(p0, t, n)
  BY <1>1, <1>2 DEF IsCalled
<1>4. \A i \in DOMAIN s : PlaceOf(s[i], n) \in Int /\ PlaceOf(s[i], n) < p0 /\ ~Ends(s[i])
  BY DEF InTurnOf, OnionOf
<1>5. ASSUME NEW p \in D, p < p0 + 1
      PROVE  IsCalled(p, t, n)
  <2>1. p < p0 \/ p = p0
    BY <1>5
  <2> QED
    BY <1>3, <2>1 DEF InTurnOf
<1>6. ASSUME ~Ends(c)
      PROVE  InTurnOf(t, n, D, p0 + 1)
  <2>1. \A i \in DOMAIN t : PlaceOf(t[i], n) \in Int /\ PlaceOf(t[i], n) <= p0
    BY <1>1, <1>2, <1>4
  <2>2. \A x \in Int : x <= p0 => x < p0 + 1
    OBVIOUS
  <2>3. \A i \in DOMAIN t : PlaceOf(t[i], n) < p0 + 1 /\ ~Ends(t[i])
    BY <1>1, <1>2, <1>4, <1>6, <2>1, <2>2
  <2> QED
    BY <1>5, <2>3 DEF InTurnOf
<1>7. ASSUME NEW i \in DOMAIN t, NEW j \in DOMAIN t, i < j
      PROVE  PlaceOf(t[i], n) < PlaceOf(t[j], n)
  <2>1. i \in DOMAIN s
    BY <1>1, <1>7
  <2>2. CASE j \in DOMAIN s
    BY <1>1, <1>7, <2>1, <2>2 DEF OnionOf
  <2>3. CASE j = last
    BY <1>1, <1>4, <2>1, <2>3
  <2> QED
    BY <1>2, <2>2, <2>3
<1>8. ASSUME NEW i \in DOMAIN t
      PROVE  /\ PlaceOf(t[i], n) \in D
             /\ \A p \in D : p < PlaceOf(t[i], n) => IsCalled(p, t, n)
             /\ Ends(t[i]) => i = Len(t)
  <2>1. CASE i \in DOMAIN s
    BY <1>1, <1>3, <1>4, <2>1 DEF OnionOf
  <2>2. CASE i = last
    BY <1>1, <1>3, <2>2 DEF InTurnOf
  <2> QED
    BY <1>2, <2>1, <2>2
<1>9. OnionOf(t, n, D, Ends(c))
  BY <1>1, <1>7, <1>8 DEF OnionOf
<1> QED
  BY <1>6, <1>9 DEF t

(***************************************************************************)
(* The places that are due.                                                *)
(***************************************************************************)
LEMMA DuePlaces ==
  ASSUME TypeOK
  PROVE  /\ HandlerPlace \in Nat /\ HandlerPlace = Len(middlewares) + 1 /\ HandlerPlace \in Due
         /\ \A p \in Due : p \in Int /\ p < 2 * HandlerPlace
         /\ \A m \in DOMAIN middlewares : /\ m \in Due <=> middlewares[m] # "null"
                                          /\ BehindPlace(m) \in Due <=> middlewares[m] # "null"
<1> DEFINE n == Len(middlewares)
<1>1. n \in Nat /\ DOMAIN middlewares = 1 .. n
  BY ChainFacts
<1>2. HandlerPlace = n + 1 /\ HandlerPlace \in Due /\ HandlerPlace \in Nat
  BY <1>1 DEF HandlerPlace, Due
<1>3. \A p : p \in Due <=> \/ p \in 1 .. n /\ middlewares[p] # "null"
                           \/ p = n + 1
                           \/ \E m \in 1 .. n : middlewares[m] # "null" /\ p = 2 * (n + 1) - m
  BY <1>1, <1>2 DEF Due, BehindPlace
<1> HIDE DEF n
<1>4. \A p \in Due : p \in Int /\ p < 2 * HandlerPlace
  BY <1>1, <1>2, <1>3
<1>5. ASSUME NEW m \in 1 .. n
      PROVE  m \in Due <=> middlewares[m] # "null"
  BY <1>1, <1>3
<1>6. ASSUME NEW m \in 1 .. n
      PROVE  BehindPlace(m) \in Due <=> middlewares[m] # "null"
  <2>1. BehindPlace(m) = 2 * (n + 1) - m
    BY <1>2 DEF BehindPlace
  <2>2. \A l \in 1 .. n : 2 * (n + 1) - m = 2 * (n + 1) - l => l = m
    BY <1>1
  <2>3. 2 * (n + 1) - m \notin 1 .. n /\ 2 * (n + 1) - m # n + 1
    BY <1>1
  <2> QED
    BY <1>3, <2>1, <2>2, <2>3
<1> QED
  BY <1>1, <1>2, <1>4, <1>5, <1>6 DEF n

(* A step calls what is next, ...                                          *)
Calling(c) ==
  /\ UNCHANGED middlewares /\ pc # "done"
  /\ c \in Call /\ calls' = Append(calls, c)
  /\ PlaceOf(c, HandlerPlace) = Current /\ Current \in Due
  /\ IF Ends(c) THEN pc' = "done" ELSE pc' # "done" /\ Current' = Current + 1

(* ... or it passes a place that is not due, or stays where it is.         *)
Passing ==
  /\ UNCHANGED <<middlewares, calls>> /\ pc # "done"
  /\ Current' = Current \/ (Current' = Current + 1 /\ Current \notin Due)
  /\ pc' = "done" => Current = 2 * HandlerPlace

(***************************************************************************)
(* Every step is one of these.                                             *)
(***************************************************************************)
LEMMA StepsInTurn ==
  ASSUME TypeOK, TablesMatch, WhereIndexIs, Next
  PROVE  Passing \/ \E c : Calling(c)
<1> DEFINE n == Len(middlewares)
<1>1. /\ n \in Nat /\ DOMAIN middlewares = 1 .. n /\ index \in 0 .. n + 1
      /\ HandlerPlace = n + 1 /\ HandlerPlace \in Due
      /\ \A m \in 1 .. n : /\ m \in Due <=> middlewares[m] # "null"
                           /\ 2 * (n + 1) - m \in Due <=> middlewares[m] # "null"
  <2>1. index \in 0 .. n + 1
    BY DEF TypeOK
  <2>2. \A m : BehindPlace(m) = 2 * HandlerPlace - m
    BY DEF BehindPlace
  <2> QED
    BY <2>1, <2>2, ChainFacts, DuePlaces
<1>2. UNCHANGED middlewares
  BY DEF Next, Register, Begin, process_before, BeforeNull, BeforeCors, BeforeOther,
     BeforeDone,
         Handle, NotFound, process_after, AfterNull, AfterCors, AfterOther, AfterDone, config
<1>3. HandlerPlace' = HandlerPlace
  BY <1>2 DEF HandlerPlace
<1>4. \A m : BehindPlace(m) = 2 * (n + 1) - m /\ BehindPlace(m)' = 2 * (n + 1) - m
  BY <1>1, <1>3 DEF BehindPlace
<1>5. /\ pc = "setup" => Current = 1
      /\ pc = "before" => Current = index
      /\ pc = "route" => Current = n + 1
      /\ pc = "after" => Current = 2 * (n + 1) - index
  BY <1>1, <1>4 DEF Current
<1>6. /\ pc' = "setup" => Current' = 1
      /\ pc' = "before" => Current' = index'
      /\ pc' = "route" => Current' = n + 1
      /\ pc' = "after" => Current' = 2 * (n + 1) - index'
      /\ pc' = "done" => Current' = 2 * (n + 1)
  BY <1>1, <1>3, <1>4 DEF Current
<1>7. ASSUME NEW what \in {"before", "handle", "after"}, NEW who \in Nat,
             NEW end \in {"return", "exception", "response", "not found"},
             Called(what, who, end), pc # "done",
             Current = CASE what = "before" -> who
                         [] what = "handle" -> n + 1
                         [] what = "after"  -> 2 * (n + 1) - who,
             Current \in Due,
             IF end = "response" \/ (end = "exception" /\ what # "after")
               THEN pc' = "done" ELSE pc' # "done" /\ Current' = Current + 1
      PROVE  \E c : Calling(c)
  <2> DEFINE c == [what |-> what, who |-> who, end |-> end]
  <2>1. c \in Call /\ calls' = Append(calls, c)
    BY <1>7 DEF Call, Called
  <2>2. PlaceOf(c, HandlerPlace) = Current
    BY <1>1, <1>7 DEF PlaceOf
  <2>3. Ends(c) <=> end = "response" \/ (end = "exception" /\ what # "after")
    BY DEF Ends
  <2>4. Calling(c)
    BY <1>2, <1>7, <2>1, <2>2, <2>3 DEF Calling
  <2> QED
    BY <2>4
<1> HIDE DEF n
<1>8. ASSUME NEW r \in Catalogue, Register(r)
      PROVE  Passing
  BY <1>2, <1>5, <1>6, <1>8 DEF Register, Passing
<1>9. CASE Begin
  BY <1>2, <1>5, <1>6, <1>9 DEF Begin, Passing
<1>10. CASE process_before
  <2>1. pc = "before" /\ Current = index
    BY <1>5, <1>10 DEF process_before, BeforeNull, BeforeCors, BeforeOther, BeforeDone
  <2>2. CASE InChain
    <3>1. index \in 1 .. n
      BY <2>2, ChainFacts DEF n
    <3>2. index \in Due <=> middlewares[index] # "null"
      BY <1>1, <3>1
    <3>3. CASE BeforeNull
      BY <1>2, <1>6, <2>1, <3>2, <3>3 DEF BeforeNull, Passing
    <3>4. CASE BeforeCors \/ BeforeOther
      <4>1. index \in Due
        BY <3>2, <3>4 DEF BeforeCors, BeforeOther
      <4>2. \/ Called("before", index, "return") /\ pc' = pc /\ index' = index + 1
            \/ Called("before", index, "exception") /\ pc' = "done"
            \/ Called("before", index, "response") /\ pc' = "done"
        BY <3>4 DEF BeforeCors, BeforeOther, Advance, CatchResponse, CatchException
      <4>3. CASE Called("before", index, "return") /\ pc' = pc /\ index' = index + 1
        <5>1. pc' # "done" /\ Current' = Current + 1 /\ index \in Nat
          BY <1>6, <2>1, <3>1, <4>3
        <5> QED
          BY <1>7, <2>1, <4>1, <4>3, <5>1
      <4>4. CASE Called("before", index, "exception") /\ pc' = "done"
        BY <1>7, <2>1, <3>1, <4>1, <4>4
      <4>5. CASE Called("before", index, "response") /\ pc' = "done"
        BY <1>7, <2>1, <3>1, <4>1, <4>5
      <4> QED
        BY <4>2, <4>3, <4>4, <4>5
    <3> QED
      BY <1>10, <2>2, <3>3, <3>4 DEF process_before, BeforeDone
  <2>3. CASE ~InChain
    <3>1. index = n + 1
      BY <1>1, <2>1, <2>3 DEF InChain, WhereIndexIs
    <3>2. BeforeDone
      BY <1>10, <2>3 DEF process_before, BeforeNull, BeforeCors, BeforeOther
    <3> QED
      BY <1>2, <1>6, <2>1, <3>1, <3>2 DEF BeforeDone, Passing
  <2> QED
    BY <2>2, <2>3
<1>11. CASE Handle \/ NotFound
  <2>1. pc = "route" /\ Current = n + 1 /\ Current \in Due
    BY <1>1, <1>5, <1>11 DEF Handle, NotFound
  <2>2. \A t \in route : t \in Nat
    BY RouteIsBest, KindFacts DEF Candidates
  <2>3. \E who \in Nat :
          \/ \E end \in {"return", "not found"} :
               Called("handle", who, end) /\ pc' = "after" /\ index' = n
          \/ \E end \in {"exception", "response"} : Called("handle", who, end) /\ pc' = "done"
    BY <1>11, <2>2 DEF Handle, NotFound, ToAfter, CatchResponse, CatchException, n
  <2>4. pc' = "after" /\ index' = n => Current' = Current + 1
    BY <1>1, <1>6, <2>1
  <2>5. ASSUME NEW who \in Nat, NEW end \in {"return", "not found"},
               Called("handle", who, end), pc' = "after", index' = n
        PROVE  \E c : Calling(c)
    BY <1>7, <2>1, <2>4, <2>5
  <2>6. ASSUME NEW who \in Nat, NEW end \in {"exception", "response"},
               Called("handle", who, end), pc' = "done"
        PROVE  \E c : Calling(c)
    BY <1>7, <2>1, <2>6
  <2> QED
    BY <2>3, <2>5, <2>6
<1>12. CASE process_after
  <2>1. pc = "after" /\ Current = 2 * (n + 1) - index
    BY <1>5, <1>12 DEF process_after, AfterNull, AfterCors, AfterOther, AfterDone
  <2>2. CASE InChain
    <3>1. index \in 1 .. n
      BY <2>2, ChainFacts DEF n
    <3>2. Current \in Due <=> middlewares[index] # "null"
      BY <1>1, <2>1, <3>1
    <3>3. pc' = "after" /\ index' = index - 1 => Current' = Current + 1
      BY <1>1, <1>6, <2>1, <3>1
    <3>4. CASE AfterNull
      BY <1>2, <2>1, <3>2, <3>3, <3>4 DEF AfterNull, Passing
    <3>5. CASE AfterCors \/ AfterOther
      <4>1. Current \in Due
        BY <3>2, <3>5 DEF AfterCors, AfterOther
      <4>2. \/ \E end \in {"return", "exception"} :
                 Called("after", index, end) /\ pc' = "after" /\ index' = index - 1
            \/ Called("after", index, "response") /\ pc' = "done"
        BY <3>5 DEF AfterCors, AfterOther, Retreat, CatchResponse
      <4>3. ASSUME NEW end \in {"return", "exception"},
                   Called("after", index, end), pc' = "after", index' = index - 1
            PROVE  \E c : Calling(c)
        <5>1. pc' # "done" /\ Current' = Current + 1 /\ index \in Nat
          BY <3>1, <3>3, <4>3
        <5>2. CASE end = "return"
          BY <1>7, <2>1, <4>1, <4>3, <5>1, <5>2
        <5>3. CASE end = "exception"
          BY <1>7, <2>1, <4>1, <4>3, <5>1, <5>3
        <5> QED
          BY <4>3, <5>2, <5>3
      <4>4. CASE Called("after", index, "response") /\ pc' = "done"
        BY <1>7, <2>1, <3>1, <4>1, <4>4
      <4> QED
        BY <4>2, <4>3, <4>4
    <3> QED
      BY <1>12, <2>2, <3>4, <3>5 DEF process_after, AfterDone
  <2>3. CASE ~InChain
    <3>1. index = 0
      BY <1>1, <2>1, <2>3 DEF InChain, WhereIndexIs, n
    <3>2. AfterDone
      BY <1>12, <2>3 DEF process_after, AfterNull, AfterCors, AfterOther
    <3>3. Current = 2 * HandlerPlace
      BY <1>1, <2>1, <3>1
    <3> QED
      BY <1>1, <1>2, <1>6, <2>1, <3>2, <3>3 DEF AfterDone, Passing
  <2> QED
    BY <2>2, <2>3
<1> QED
  BY <1>8, <1>9, <1>10, <1>11, <1>12 DEF Next

(***************************************************************************)
(* The chain stays an onion.                                               *)
(***************************************************************************)
LEMMA OnionStep ==
  ASSUME TypeOK, TablesMatch, WhereIndexIs, InTurn, Onion, Next
  PROVE  InTurn' /\ Onion'
<1> DEFINE n == HandlerPlace
<1>1. /\ n \in Nat /\ Due \subseteq Int /\ \A p \in Due : p < 2 * n
      /\ calls \in Seq(Call) /\ DOMAIN calls = 1 .. Len(calls)
  BY DuePlaces, LenProperties DEF TypeOK
<1>2. UNCHANGED middlewares /\ pc # "done"
  BY StepsInTurn DEF Passing, Calling
<1>3. Due' = Due /\ HandlerPlace' = n
  BY <1>2 DEF Due, HandlerPlace, BehindPlace
<1>4. InTurnOf(calls, n, Due, Current) /\ OnionOf(calls, n, Due, FALSE)
  BY <1>2, SameOnion
<1> HIDE DEF n
<1>5. CASE Passing
  <2>1. InTurnOf(calls, n, Due, Current')
    <3>1. CASE Current' = Current
      BY <1>4, <3>1
    <3>2. CASE Current' = Current + 1 /\ Current \notin Due
      <4>1. Current \in Int
        BY <1>1, ChainFacts DEF Current, TypeOK, BehindPlace, n
      <4>2. \A x \in Int : /\ x < Current => x < Current + 1
                           /\ x < Current + 1 => x < Current \/ x = Current
        BY <4>1
      <4>3. \A i \in DOMAIN calls : PlaceOf(calls[i], n) \in Int
        BY <1>1, <1>4 DEF OnionOf
      <4> QED
        BY <1>1, <1>4, <3>2, <4>2, <4>3 DEF InTurnOf
    <3> QED
      BY <1>5, <3>1, <3>2 DEF Passing
  <2>2. pc' = "done" => \A p \in Due : IsCalled(p, calls, n)
    BY <1>1, <1>4, <1>5 DEF Passing, InTurnOf, n
  <2>3. OnionOf(calls, n, Due, pc' = "done")
    BY <1>4, <2>2 DEF OnionOf
  <2>4. calls' = calls
    BY <1>5 DEF Passing
  <2> QED
    BY <1>3, <2>1, <2>3, <2>4, SameOnion
<1>6. ASSUME NEW c, Calling(c)
      PROVE  InTurn' /\ Onion'
  <2>1. c \in Call /\ calls' = Append(calls, c) /\ PlaceOf(c, n) = Current /\ Current \in Due
    BY <1>6 DEF Calling, n
  <2>2. /\ ~Ends(c) => InTurnOf(Append(calls, c), n, Due, Current + 1)
        /\ OnionOf(Append(calls, c), n, Due, Ends(c))
    BY <1>1, <1>4, <2>1, OneMoreCall
  <2>3. IF Ends(c) THEN pc' = "done" ELSE pc' # "done" /\ Current' = Current + 1
    BY <1>6 DEF Calling
  <2>4. OnionOf(calls', n, Due, pc' = "done")
    BY <2>1, <2>2, <2>3 DEF OnionOf
  <2>5. pc' # "done" => InTurnOf(calls', n, Due, Current')
    BY <2>1, <2>2, <2>3
  <2> QED
    BY <1>3, <2>4, <2>5, SameOnion
<1> QED
  BY <1>5, <1>6, StepsInTurn

-----------------------------------------------------------------------------
(* The other invariants.                                                   *)

(***************************************************************************)
(* Of the calls on record, a step adds at most one.                        *)
(***************************************************************************)
LEMMA OneCallAtMost ==
  ASSUME TypeOK, NEW what, NEW who, NEW end, Called(what, who, end)
  PROVE  \A i \in DOMAIN calls' :
           \/ i \in DOMAIN calls /\ calls'[i] = calls[i]
           \/ calls'[i].what = what /\ calls'[i].who = who /\ calls'[i].end = end
<1> DEFINE c == [what |-> what, who |-> who, end |-> end]
           S == Call \cup {c}
<1>1. calls \in Seq(S) /\ c \in S /\ calls' = Append(calls, c)
  BY DEF TypeOK, Called
<1> HIDE DEF c, S
<1>2. /\ DOMAIN calls = 1 .. Len(calls) /\ DOMAIN calls' = 1 .. Len(calls) + 1
      /\ \A i \in 1 .. Len(calls) : calls'[i] = calls[i]
      /\ calls'[Len(calls) + 1] = c /\ Len(calls) \in Nat
  BY <1>1, AppendProperties, LenProperties
<1>3. c.what = what /\ c.who = who /\ c.end = end
  BY DEF c
<1> QED
  BY <1>2, <1>3

(***************************************************************************)
(* What a step of each part of the processing does to the calls on record. *)
(***************************************************************************)
LEMMA CallsByPart ==
  ASSUME TypeOK
  PROVE  /\ process_before => \A i \in DOMAIN calls' :
              \/ i \in DOMAIN calls /\ calls'[i] = calls[i]
              \/ calls'[i].what = "before"
         /\ process_after => \A i \in DOMAIN calls' :
              \/ i \in DOMAIN calls /\ calls'[i] = calls[i]
              \/ calls'[i].what = "after"
<1>1. ASSUME process_before
      PROVE  calls' = calls \/ \E who, end : Called("before", who, end)
  BY <1>1 DEF process_before, BeforeNull, BeforeCors, BeforeOther, BeforeDone, Advance
<1>2. ASSUME process_after
      PROVE  calls' = calls \/ \E who, end : Called("after", who, end)
  BY <1>2 DEF process_after, AfterNull, AfterCors, AfterOther, AfterDone, Retreat
<1>3. ASSUME NEW what, NEW who, NEW end, Called(what, who, end)
      PROVE  \A i \in DOMAIN calls' : \/ i \in DOMAIN calls /\ calls'[i] = calls[i]
                                      \/ calls'[i].what = what
  BY <1>3, OneCallAtMost
<1> QED
  BY <1>1, <1>2, <1>3

(***************************************************************************)
(* The handler is called late.                                             *)
(***************************************************************************)
LEMMA HandledLateStep ==
  ASSUME TypeOK, HandledLate, WhereIndexIs, Next
  PROVE  HandledLate'
<1>1. ASSUME NEW r \in Catalogue, Register(r)
      PROVE  HandledLate'
  BY <1>1 DEF HandledLate, Register
<1>2. CASE Begin
  BY <1>2 DEF HandledLate, Begin, WhereIndexIs
<1>3. CASE process_before
  <2>1. \A i \in DOMAIN calls : calls[i].what # "handle"
    BY <1>3 DEF HandledLate, process_before, BeforeNull, BeforeCors, BeforeOther,
       BeforeDone
  <2>2. \A i \in DOMAIN calls' : calls'[i].what # "handle"
    BY <1>3, <2>1, CallsByPart
  <2> QED
    BY <2>2 DEF HandledLate
<1>4. CASE Handle \/ NotFound
  BY <1>4 DEF HandledLate, Handle, NotFound, ToAfter, CatchResponse, CatchException
<1>5. CASE process_after
  BY <1>5 DEF HandledLate, process_after, AfterNull, AfterCors, AfterOther, AfterDone,
     Retreat,
              CatchResponse
<1> QED
  BY <1>1, <1>2, <1>3, <1>4, <1>5 DEF Next

(***************************************************************************)
(* The index stays where it belongs.                                       *)
(***************************************************************************)
LEMMA WhereIndexStep ==
  ASSUME TypeOK, WhereIndexIs, Next
  PROVE  WhereIndexIs'
<1>1. ASSUME NEW r \in Catalogue, Register(r)
      PROVE  WhereIndexIs'
  BY <1>1 DEF WhereIndexIs, Register
<1>2. CASE Begin
  BY <1>2 DEF WhereIndexIs, Begin
<1>3. CASE process_before
  <2>1. /\ pc = "before" /\ request' = request /\ pc' \in {"before", "route", "done"}
        /\ index' \in {index, index + 1}
    BY <1>3 DEF process_before, BeforeNull, BeforeCors, BeforeOther, BeforeDone, Advance,
                CatchResponse, CatchException
  <2> QED
    BY <2>1, ChainFacts DEF WhereIndexIs
<1>4. CASE Handle \/ NotFound
  <2>1. /\ pc = "route" /\ request' = request /\ middlewares' = middlewares
        /\ pc' = "done" \/ (pc' = "after" /\ index' = Len(middlewares))
    BY <1>4 DEF Handle, NotFound, ToAfter, CatchResponse, CatchException, config
  <2> QED
    BY <2>1, ChainFacts DEF WhereIndexIs
<1>5. CASE process_after
  <2>1. /\ pc = "after" /\ request' = request /\ middlewares' = middlewares
        /\ pc' \in {"after", "done"} /\ index' \in {index, index - 1}
    BY <1>5 DEF process_after, AfterNull, AfterCors, AfterOther, AfterDone, Retreat,
                CatchResponse, config
  <2> QED
    BY <2>1, ChainFacts DEF WhereIndexIs
<1> QED
  BY <1>1, <1>2, <1>3, <1>4, <1>5 DEF Next

(***************************************************************************)
(* The routes that serve a request, and their order, depend on nothing but *)
(* the request and the registrations.                                      *)
(***************************************************************************)
LEMMA SameCandidates ==
  ASSUME UNCHANGED <<registered, req>>
  PROVE  Candidates' = Candidates /\ \A i, j : Beats(i, j)' = Beats(i, j)
BY DEF Candidates, Serves, MatchesPattern, Beats

(***************************************************************************)
(* The route that is called is the best one registered, and remains it.    *)
(***************************************************************************)
LEMMA RoutedStep ==
  ASSUME TypeOK, TablesMatch, HandledLate, WhereIndexIs, RoutedAsRegistered, Next
  PROVE  RoutedAsRegistered'
<1>1. ASSUME \A i \in DOMAIN calls' : calls'[i].what # "handle"
      PROVE  RoutedAsRegistered'
  BY <1>1 DEF RoutedAsRegistered
<1>2. ASSUME NEW r \in Catalogue, Register(r)
      PROVE  RoutedAsRegistered'
  BY <1>1, <1>2 DEF Register, WhereIndexIs
<1>3. CASE Begin
  BY <1>1, <1>3 DEF Begin, WhereIndexIs
<1>4. CASE process_before
  <2>1. \A i \in DOMAIN calls : calls[i].what # "handle"
    BY <1>4 DEF HandledLate, process_before, BeforeNull, BeforeCors, BeforeOther,
       BeforeDone
  <2> QED
    BY <1>1, <1>4, <2>1, CallsByPart
<1>5. CASE Handle \/ NotFound
  <2>1. UNCHANGED <<registered, req>> /\ \A i \in DOMAIN calls : calls[i].what # "handle"
    BY <1>5 DEF HandledLate, Handle, NotFound, tables
  <2>2. Candidates' = Candidates /\ \A i, j : Beats(i, j)' = Beats(i, j)
    BY <2>1, SameCandidates
  <2>3. CASE Handle
    <3>1. PICK who \in route, end \in {"return", "exception", "response"} :
            Called("handle", who, end)
      BY <2>3 DEF Handle
    <3>2. \A i \in DOMAIN calls' : calls'[i].what = "handle" =>
            calls'[i].who = who /\ calls'[i].end # "not found"
      <4>1. \A i \in DOMAIN calls' : \/ i \in DOMAIN calls /\ calls'[i] = calls[i]
                                     \/ calls'[i].who = who /\ calls'[i].end = end
        BY <3>1, OneCallAtMost
      <4> QED
        BY <2>1, <3>1, <4>1
    <3>3. who \in Candidates /\ \A j \in Candidates \ {who} : Beats(who, j)
      BY <3>1, RouteIsBest
    <3> QED
      BY <2>2, <3>2, <3>3 DEF RoutedAsRegistered
  <2>4. CASE NotFound
    <3>1. \A i \in DOMAIN calls' : calls'[i].what = "handle" => calls'[i].end = "not found"
      <4>1. Called("handle", 0, "not found")
        BY <2>4 DEF NotFound
      <4>2. \A i \in DOMAIN calls' :
              \/ i \in DOMAIN calls /\ calls'[i] = calls[i]
              \/ calls'[i].end = "not found"
        BY <4>1, OneCallAtMost
      <4> QED
        BY <2>1, <4>2
    <3>2. Candidates = {}
      BY <2>4, RouteIsBest DEF NotFound
    <3> QED
      BY <2>2, <3>1, <3>2 DEF RoutedAsRegistered
  <2> QED
    BY <1>5, <2>3, <2>4
<1>6. CASE process_after
  <2>1. UNCHANGED <<registered, req>>
    BY <1>6 DEF process_after, AfterNull, AfterCors, AfterOther, AfterDone, tables
  <2>2. Candidates' = Candidates /\ \A i, j : Beats(i, j)' = Beats(i, j)
    BY <2>1, SameCandidates
  <2>3. \A i \in DOMAIN calls' : calls'[i].what = "handle" =>
          i \in DOMAIN calls /\ calls'[i] = calls[i]
    BY <1>6, CallsByPart
  <2> QED
    BY <2>2, <2>3 DEF RoutedAsRegistered
<1> QED
  BY <1>2, <1>3, <1>4, <1>5, <1>6 DEF Next

(***************************************************************************)
(* Only an allowed origin is let in: the answer to a preflight request     *)
(* names the origin that was asked about, the header of other responses    *)
(* names Star or the first allowed origin.                                 *)
(***************************************************************************)
LEMMA OriginsStep ==
  ASSUME TypeOK, WhereIndexIs, OnlyAllowedOrigins, Next
  PROVE  OnlyAllowedOrigins'
<1>1. UNCHANGED allow_origins
  BY DEF Next, Register, Begin, process_before, BeforeNull, BeforeCors, BeforeOther,
     BeforeDone,
         Handle, NotFound, process_after, AfterNull, AfterCors, AfterOther, AfterDone, config
<1>2. \A o : is_origin_allowed(o)' <=> is_origin_allowed(o)
  BY <1>1 DEF is_origin_allowed, Allows
<1>3. response \in [status : Statuses, keepAlive : BOOLEAN, origin : Origins, allow : Origins]
  BY DEF TypeOK
<1>4. ASSUME response'.allow = NoOrigin
      PROVE  OnlyAllowedOrigins'
  BY <1>4 DEF OnlyAllowedOrigins, Grants
<1>5. ASSUME UNCHANGED request, response'.allow = response.allow
      PROVE  OnlyAllowedOrigins'
  BY <1>1, <1>5 DEF OnlyAllowedOrigins, Grants, is_origin_allowed, Allows
<1>6. ThrownResponse.allow = NoOrigin
  BY DEF ThrownResponse, Response
<1>7. ASSUME NEW r \in Catalogue, Register(r)
      PROVE  OnlyAllowedOrigins'
  BY <1>5, <1>7 DEF Register
<1>8. CASE Begin
  BY <1>4, <1>8 DEF Begin, Response
<1>9. CASE process_before
  <2>1. UNCHANGED request
    BY <1>9 DEF process_before, BeforeNull, BeforeCors, BeforeOther, BeforeDone
  <2>2. \/ response' = response
        \/ response' = [response EXCEPT !.status = "error"]
        \/ response' = ThrownResponse
        \/ response' = handle_preflight_request
    BY <1>9 DEF process_before, BeforeNull, BeforeCors, BeforeOther, BeforeDone, Advance,
                CatchResponse, CatchException
  <2>3. [response EXCEPT !.status = "error"].allow = response.allow
    BY <1>3
  <2>4. CASE response' = handle_preflight_request
    <3>1. CASE is_origin_allowed(req.origin)
      <4>1. is_origin_allowed(request.origin)
        BY <3>1, RequestFacts
      <4> QED
        BY <1>1, <2>1, <4>1 DEF OnlyAllowedOrigins, is_origin_allowed, Allows
    <3>2. CASE ~is_origin_allowed(req.origin)
      <4>1. handle_preflight_request.allow = NoOrigin
        BY <3>2 DEF handle_preflight_request, Response
      <4> QED
        BY <1>4, <2>4, <4>1
    <3> QED
      BY <3>1, <3>2
  <2> QED
    BY <1>4, <1>5, <1>6, <2>1, <2>2, <2>3, <2>4
<1>10. CASE Handle \/ NotFound
  <2>1. UNCHANGED request
    BY <1>10 DEF Handle, NotFound
  <2>2. \/ \E s : response' = [response EXCEPT !.status = s]
        \/ response' = [response EXCEPT !.status = "not found", !.keepAlive = FALSE]
        \/ response' = ThrownResponse
    BY <1>10 DEF Handle, NotFound, CatchResponse, CatchException
  <2>3. /\ \A s : [response EXCEPT !.status = s].allow = response.allow
        /\ [response EXCEPT !.status = "not found", !.keepAlive = FALSE].allow = response.allow
    BY <1>3
  <2> QED
    BY <1>4, <1>5, <1>6, <2>1, <2>2, <2>3
<1>11. CASE process_after
  <2>1. UNCHANGED request
    BY <1>11 DEF process_after, AfterNull, AfterCors, AfterOther, AfterDone
  <2>2. response' = response \/ response' = cors_after \/ response' = ThrownResponse
    BY <1>11 DEF process_after, AfterNull, AfterCors, AfterOther, AfterDone, CatchResponse
  <2>3. CASE response' = [response EXCEPT !.allow = cors_origin]
    <3>1. response'.allow = cors_origin
      BY <1>3, <2>3
    <3>2. CASE allow_origins = << >> \/ Allows(Star)
      BY <1>1, <3>2 DEF OnlyAllowedOrigins, is_origin_allowed, Allows
    <3>3. CASE ~(allow_origins = << >> \/ Allows(Star))
      <4>1. 1 \in DOMAIN allow_origins
        <5>1. allow_origins \in Seq({allow_origins[i] : i \in DOMAIN allow_origins})
          BY RoutesAssumption DEF TypeOK
        <5> QED
          BY <3>3, <5>1, EmptySeq, LenProperties
      <4>2. response'.allow = allow_origins[1] /\ response'.allow # Star
        BY <3>1, <3>3, <4>1 DEF cors_origin, Allows
      <4>3. Grants' => allow_origins[1] = request'.origin
        BY <4>2 DEF Grants
      <4> QED
        BY <1>1, <4>1, <4>3 DEF OnlyAllowedOrigins, is_origin_allowed, Allows
    <3> QED
      BY <3>2, <3>3
  <2> QED
    BY <1>4, <1>5, <1>6, <2>1, <2>2, <2>3 DEF cors_after
<1> QED
  BY <1>7, <1>8, <1>9, <1>10, <1>11 DEF Next

(***************************************************************************)
(* The tables stay the tables of the registrations.                        *)
(***************************************************************************)
LEMMA TablesStep ==
  ASSUME TypeOK, TablesMatch, Next
  PROVE  TablesMatch'
<1>1. ASSUME NEW r \in Catalogue, Register(r)
      PROVE  TablesMatch'
  BY <1>1, RegisterTables
<1>2. ASSUME UNCHANGED tables
      PROVE  TablesMatch'
  <2>1. UNCHANGED <<registered, handlers, callbacks, regex_handlers, regex_callbacks>>
    BY <1>2 DEF tables
  <2> QED
    BY <2>1 DEF TablesMatch
<1>3. CASE Begin \/ process_before \/ Handle \/ NotFound \/ process_after
  BY <1>2, <1>3 DEF Begin, process_before, BeforeNull, BeforeCors, BeforeOther,
     BeforeDone,
    Handle, NotFound, process_after, AfterNull, AfterCors, AfterOther, AfterDone
<1> QED
  BY <1>1, <1>3 DEF Next

-----------------------------------------------------------------------------
(* The theorems.                                                           *)

(***************************************************************************)
(* A stuttering step changes nothing.                                      *)
(***************************************************************************)
LEMMA StutterStep ==
  ASSUME IInv, UNCHANGED vars
  PROVE  IInv'
<1>1. UNCHANGED <<registered, handlers, callbacks, regex_handlers, regex_callbacks, middlewares,
                  allow_origins, pc, index, request, req, response, calls>>
  BY DEF vars, tables, config
<1>2. Entries' = Entries
  BY <1>1 DEF Entries
<1>3. TypeOK'
  BY <1>1, <1>2 DEF IInv, TypeOK
<1>4. TablesMatch' /\ HandledLate' /\ WhereIndexIs'
  BY <1>1 DEF IInv, TablesMatch, HandledLate, WhereIndexIs
<1>5. HandlerPlace' = HandlerPlace /\ Due' = Due /\ Current' = Current
  BY <1>1 DEF HandlerPlace, Due, BehindPlace, Current
<1>6. InTurn' /\ Onion'
  BY <1>1, <1>5, SameOnion DEF IInv
<1>7. RoutedAsRegistered'
  <2>1. Candidates' = Candidates /\ \A i, j : Beats(i, j)' = Beats(i, j)
    BY <1>1, SameCandidates
  <2> QED
    BY <1>1, <2>1 DEF IInv, RoutedAsRegistered
<1>8. OnlyAllowedOrigins'
  BY <1>1 DEF IInv, OnlyAllowedOrigins, Grants, is_origin_allowed, Allows
<1> QED
  BY <1>3, <1>4, <1>6, <1>7, <1>8 DEF IInv

(***************************************************************************)
(* The invariant holds always.                                             *)
(***************************************************************************)
THEOREM Invariance == Spec => []IInv
<1>1. IInv /\ [Next]_vars => IInv'
  <2>1. IInv /\ Next => IInv'
    BY StepTypes, TablesStep, HandledLateStep, OnionStep, WhereIndexStep, RoutedStep,
       OriginsStep
       DEF IInv
  <2> QED
    BY <2>1, StutterStep
<1> QED
  BY InitInvariant, <1>1, PTL DEF Spec

(***************************************************************************)
(* The tables, the index, the response and the calls are of their types.   *)
(***************************************************************************)
THEOREM TypeCorrect == Spec => []TypeOK
<1>1. IInv => TypeOK
  BY DEF IInv
<1> QED
  BY <1>1, Invariance, PTL

(***************************************************************************)
(* The router calls the route that the registrations say it has to, and    *)
(* answers 404 only if none of them matches.                               *)
(***************************************************************************)
THEOREM RoutedRight == Spec => []RoutedAsRegistered
<1>1. IInv => RoutedAsRegistered
  BY DEF IInv
<1> QED
  BY <1>1, Invariance, PTL

(***************************************************************************)
(* The middleware chain is an onion around the handler, whatever is thrown *)
(* in it.                                                                  *)
(***************************************************************************)
THEOREM ChainIsAnOnion == Spec => []Onion
<1>1. IInv => Onion
  BY DEF IInv
<1> QED
  BY <1>1, Invariance, PTL

(***************************************************************************)
(* No response lets a foreign origin read it that the configuration does   *)
(* not allow.                                                              *)
(***************************************************************************)
THEOREM OnlyAllowedMayRead == Spec => []OnlyAllowedOrigins
<1>1. IInv => OnlyAllowedOrigins
  BY DEF IInv
<1> QED
  BY <1>1, Invariance, PTL
=============================================================================
