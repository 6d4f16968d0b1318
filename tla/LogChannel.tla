----------------------------- MODULE LogChannel -----------------------------
(***************************************************************************)
(* What an asynchronous logger promises its producers: the messages they   *)
(* hand in form one log, each producer's in the order it wrote them; the   *)
(* log is written out from the front, every message once; and the channel  *)
(* closes only when all of it is written.                                  *)
(***************************************************************************)
EXTENDS Naturals, Sequences, FiniteSets

CONSTANT Producers

VARIABLES
  log,       (* the messages accepted so far, <<producer, number>>          *)
  written,   (* how many of them have been written                          *)
  closed

vars == <<log, written, closed>>

Init ==
  /\ log = << >>
  /\ written = 0
  /\ closed = FALSE

(* How many messages p has handed in.                                      *)
Mine(p) == Cardinality({i \in DOMAIN log : log[i][1] = p})

Accept(p) ==
  /\ ~closed
  /\ log' = Append(log, <<p, Mine(p) + 1>>)
  /\ UNCHANGED <<written, closed>>

Write ==
  /\ ~closed
  /\ written' \in written + 1 .. Len(log)
  /\ UNCHANGED <<log, closed>>

Close ==
  /\ ~closed /\ written = Len(log)
  /\ closed' = TRUE
  /\ UNCHANGED <<log, written>>

Next == (\E p \in Producers : Accept(p)) \/ Write \/ Close

Spec == Init /\ [][Next]_vars
=============================================================================
