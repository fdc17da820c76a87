---------------------------- MODULE MCToolBroker ----------------------------
(***************************************************************************)
(* Instance of ToolBroker for TLC.  Calls are interchangeable, and so are   *)
(* Runs.                                                                    *)
(***************************************************************************)
EXTENDS ToolBroker, TLC

CallSymmetry == Permutations(Calls) \union Permutations(Runs)
=============================================================================
