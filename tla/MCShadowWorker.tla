--------------------------- MODULE MCShadowWorker ---------------------------
(***************************************************************************)
(* Instance of ShadowWorker for TLC: a backlog of three explicit requests   *)
(* over batches of one, and nothing else happens.                           *)
(***************************************************************************)
EXTENDS ShadowWorker

Backlog == {[x \in Happenings |-> IF x = "requests" THEN 3 ELSE 0]}
=============================================================================
