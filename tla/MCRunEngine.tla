----------------------------- MODULE MCRunEngine -----------------------------
(***************************************************************************)
(* Instance of RunEngine for TLC.  Session ids are interchangeable; run ids *)
(* are not, because pickup breaks ties by id.                               *)
(***************************************************************************)
EXTENDS RunEngine, TLC

SessionSymmetry == Permutations(Sessions)
=============================================================================
