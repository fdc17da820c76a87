---------------------------- MODULE ActionPromise ----------------------------
(***************************************************************************)
(* What the action path promises the user about one proposed external       *)
(* write: it is decided once; it is attempted at most once, only after an   *)
(* approval; and what is reported agrees with what was attempted.           *)
(***************************************************************************)
CONSTANT Proposals

VARIABLES
  decision,   \* "none", "pending", "approved", "rejected", "expired"
  attempted,  \* proposals whose write left the process
  report      \* the receipt: "none" or its outcome

promiseVars == <<decision, attempted, report>>

PromiseInit ==
  /\ decision = [p \in Proposals |-> "none"]
  /\ attempted = {}
  /\ report = [p \in Proposals |-> "none"]

(* Proposals are committed and decided; an overdue one may expire when      *)
(* another is committed.                                                    *)
DecisionEdge ==
  { <<"none", "pending">>, <<"pending", "approved">>,
    <<"pending", "rejected">>, <<"pending", "expired">> }

Decide ==
  /\ decision' \in [Proposals -> {"none", "pending", "approved", "rejected", "expired"}]
  /\ \A p \in Proposals :
       decision'[p] # decision[p] => <<decision[p], decision'[p]>> \in DecisionEdge
  /\ UNCHANGED <<attempted, report>>

Attempt(p) ==
  /\ decision[p] = "approved"
  /\ p \notin attempted
  /\ report[p] \in {"none", "unknown"}
  /\ attempted' = attempted \union {p}
  /\ UNCHANGED <<decision, report>>

(* One transaction may report on several: the recovery sweep.               *)
Report ==
  /\ report' \in [Proposals -> {"none", "succeeded", "succeeded_unverified",
                                "blocked_stale", "failed", "unknown"}]
  /\ \A p \in Proposals : report'[p] # report[p] =>
       /\ decision[p] = "approved"
       /\ report[p] = "none"
       /\ report'[p] \in {"succeeded", "succeeded_unverified"} => p \in attempted
       /\ report'[p] = "blocked_stale" => p \notin attempted
  /\ UNCHANGED <<decision, attempted>>

PromiseNext == Decide \/ Report \/ \E p \in Proposals : Attempt(p)

PromiseSpec == PromiseInit /\ [][PromiseNext]_promiseVars
=============================================================================
