---------------------------- MODULE ResourcePool ----------------------------
(***************************************************************************)
(* What a connection pool promises its users: a fixed population of        *)
(* resources, built once, each of which is at any time either free or      *)
(* owned by one client that got it while it was free and gives it back.    *)
(* No queue, no lock, no condition variable, no health checker.            *)
(***************************************************************************)
CONSTANTS Clients, Resources, NoResource

VARIABLES
  phase,    (* "new", "open" or "closed"                                   *)
  free,     (* the set of free resources                                   *)
  owned     (* the resource each client owns, or NoResource                *)

vars == <<phase, free, owned>>

TypeOK ==
  /\ phase \in {"new", "open", "closed"}
  /\ free \subseteq Resources
  /\ owned \in [Clients -> Resources \cup {NoResource}]

Init ==
  /\ phase = "new"
  /\ free = {}
  /\ owned = [c \in Clients |-> NoResource]

(* The population grows only before the pool opens.                        *)
Add(r) ==
  /\ phase = "new" /\ r \notin free
  /\ free' = free \cup {r}
  /\ UNCHANGED <<phase, owned>>

Open ==
  /\ phase = "new"
  /\ phase' = "open"
  /\ UNCHANGED <<free, owned>>

Grant(c, r) ==
  /\ phase = "open" /\ r \in free /\ owned[c] = NoResource
  /\ free' = free \ {r}
  /\ owned' = [owned EXCEPT ![c] = r]
  /\ UNCHANGED phase

GiveBack(c) ==
  /\ phase = "open" /\ owned[c] # NoResource /\ owned[c] \notin free
  /\ free' = free \cup {owned[c]}
  /\ owned' = [owned EXCEPT ![c] = NoResource]
  /\ UNCHANGED phase

(* Only a pool whose resources are all back can be closed.                 *)
Close ==
  /\ phase # "closed"
  /\ \A c \in Clients : owned[c] = NoResource
  /\ phase' = "closed"
  /\ free' = {}
  /\ UNCHANGED owned

Next ==
  \/ \E r \in Resources : Add(r)
  \/ Open
  \/ \E c \in Clients : GiveBack(c) \/ \E r \in Resources : Grant(c, r)
  \/ Close

Spec == Init /\ [][Next]_vars
=============================================================================
