---------------------------- MODULE RunLifecycle ----------------------------
(***************************************************************************)
(* What the harness promises about a Run, whoever executes it: the          *)
(* lifecycle of contracts/src/run_status.ts.  A Run is created queued in a  *)
(* session that has no other active Run; it then only moves along Edge.     *)
(* Several Runs may move in one step (one SQLite transaction sweeps every   *)
(* row on restart and on drain; one scheduler pass starts several).         *)
(***************************************************************************)
EXTENDS Naturals

CONSTANTS
  Sessions,   \* conversation ids
  Runs,       \* run ids
  None        \* a Run that was not created has no session

VARIABLES
  status,     \* status[r]: the `status` column of row r, "none" before INSERT
  sessionOf   \* sessionOf[r]: the `session_id` column, meaningful once created

lifecycleVars == <<status, sessionOf>>

TERMINAL_STATUSES == {"completed", "failed", "cancelled", "abandoned"}

ACTIVE_STATUSES == {"queued", "running", "cancel_requested"}

RunStatus == ACTIVE_STATUSES \union TERMINAL_STATUSES \union {"none"}

(* The transitions a created Run may take; none leaves a terminal status.   *)
Edge ==
  { <<"queued", "running">>,            \* scheduler pickup
    <<"queued", "cancelled">>,          \* a queued Run is cancelled directly
    <<"queued", "abandoned">>,          \* picked up and orphaned in one pass
    <<"running", "completed">>,
    <<"running", "failed">>,
    <<"running", "cancel_requested">>,
    <<"running", "abandoned">>,         \* restart, drain, lost snapshot
    <<"cancel_requested", "cancelled">> }

BusySession(s) ==
  \E r \in Runs : status[r] \in ACTIVE_STATUSES /\ sessionOf[r] = s

LifecycleInit ==
  /\ status = [r \in Runs |-> "none"]
  /\ sessionOf \in [Runs -> Sessions \union {None}]

Create(r, s) ==
  /\ status[r] = "none"
  /\ ~BusySession(s)
  /\ status' = [status EXCEPT ![r] = "queued"]
  /\ sessionOf' = [sessionOf EXCEPT ![r] = s]

Advance ==
  /\ status' \in [Runs -> RunStatus]
  /\ \A r \in Runs : status'[r] # status[r] => <<status[r], status'[r]>> \in Edge
  /\ UNCHANGED sessionOf

LifecycleNext ==
  \/ \E r \in Runs, s \in Sessions : Create(r, s)
  \/ Advance

LifecycleSpec == LifecycleInit /\ [][LifecycleNext]_lifecycleVars
=============================================================================
