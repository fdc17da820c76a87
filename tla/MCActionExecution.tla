-------------------------- MODULE MCActionExecution --------------------------
(***************************************************************************)
(* Instance of ActionExecution for TLC.  Execution ids are interchangeable; *)
(* proposals are not, because one creates and the others reschedule.        *)
(***************************************************************************)
EXTENDS ActionExecution, TLC

ExecSymmetry == Permutations(Execs)
=============================================================================
