--------------------------- MODULE MCAsyncLooper ---------------------------
(***************************************************************************)
(* TLC instances of AsyncLooper.  A buffer holds 4 units, the flush mark   *)
(* is 2; the scripts have messages below, at and above the mark, one that  *)
(* fills a buffer and, in the last, one that no fixed buffer can hold.     *)
(***************************************************************************)
EXTENDS AsyncLooper

CONSTANTS p1, p2, p3

ThreeProducers == {p1, p2, p3}

Script(a, b, c) == [p \in Producers |-> CASE p = p1 -> a [] p = p2 -> b [] p = p3 -> c]

MixedScripts ==
  {Script(<<3, 1>>, <<2, 3>>, <<3>>), Script(<<1, 4>>, <<4>>, <<1>>),
   Script(<<1, 1>>, <<5>>, <<3>>)}
=============================================================================
