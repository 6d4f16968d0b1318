--------------------------- MODULE MCMemorySessions ---------------------------
(***************************************************************************)
(* TLC instance of MemorySessions.  A session in use, a request that has   *)
(* just refreshed it and a third one that erases it as expired take three  *)
(* threads; a session that follows another one takes two ids.              *)
(***************************************************************************)
EXTENDS MemorySessions, TLC

CONSTANTS t1, t2, t3, id1, id2

ThreeThreads == {t1, t2, t3}
TwoIds       == {id1, id2}

(* Threads and ids are interchangeable, and the run checks safety only.    *)
Symmetry == Permutations(ThreeThreads) \cup Permutations(TwoIds)

(* Bound: the run goes up to the first race, crash included, and not on:   *)
(* no safety property promises anything after it.                          *)
NoRaceYet == ~raced
=============================================================================
