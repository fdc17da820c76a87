------------------------------ MODULE RunStore ------------------------------
(***************************************************************************)
(* The durable half of the Run lifecycle: the rows of `runs`, `run_events`, *)
(* `turns`, `sessions` and `turn_selections` that                           *)
(* packages/kernel/src/repository.ts owns, and its transitions.  Every      *)
(* transition of the repository is one BEGIN IMMEDIATE transaction on one   *)
(* connection, so each is one atomic update here; it is written as a        *)
(* relation on sets of rows because one engine step may move several.       *)
(*                                                                          *)
(* Rows of strategy `m5-action` are not in this module: the repository      *)
(* refuses them here and hands them to the action execution service.        *)
(***************************************************************************)
EXTENDS Naturals, Sequences, FiniteSets

CONSTANTS
  Sessions,     \* conversation ids
  Runs,         \* run ids; numbers, because pickup breaks ties by id
  Strategies,   \* strategy names a request may carry
  MaxTurns,     \* bound: turns per session
  MaxEvents,    \* bound: journal length up to which tool events are appended
  None          \* stands for SQL NULL

ASSUME StoreAssumption ==
  /\ Runs \subseteq Nat
  /\ IsFiniteSet(Runs)
  /\ MaxTurns \in Nat
  /\ MaxEvents \in Nat
  /\ None \notin Sessions
  /\ None \notin Runs

VARIABLES
  status,       \* runs.status, "none" before the INSERT
  row,          \* the columns of a run that never change after the INSERT
  events,       \* run_events of the run in seq order (event_seq = Len)
  nextTurn,     \* sessions.next_turn_position
  nextAttempt,  \* turns.next_run_attempt, 1 before the turn exists
  selection,    \* turn_selections: the adopted run of a turn
  pending       \* sessions holding a pending, unexpired action proposal

storeVars == <<status, row, events, nextTurn, nextAttempt, selection, pending>>

TERMINAL_STATUSES == {"completed", "failed", "cancelled", "abandoned"}

ACTIVE_STATUSES == {"queued", "running", "cancel_requested"}

RunStatus == ACTIVE_STATUSES \union TERMINAL_STATUSES \union {"none"}

TERMINAL_EVENTS == {"run.completed", "run.failed", "run.cancelled", "run.abandoned"}

EventType ==
  TERMINAL_EVENTS \union
  {"run.queued", "run.started", "run.cancel_requested", "tool", "action.proposed"}

Turns == Sessions \X (1 .. MaxTurns)

Row ==
  [ session   : Sessions \union {None},
    turn      : Nat,
    attempt   : Nat,
    strategy  : Strategies \union {None},
    select    : BOOLEAN,
    createdAt : Nat ]

NoRow ==
  [ session |-> None, turn |-> 0, attempt |-> 0, strategy |-> None,
    select |-> FALSE, createdAt |-> 0 ]

StoreTypeOK ==
  /\ status \in [Runs -> RunStatus]
  /\ row \in [Runs -> Row]
  /\ events \in [Runs -> Seq(EventType)]
  /\ nextTurn \in [Sessions -> Nat \ {0}]
  /\ nextAttempt \in [Turns -> Nat]
  /\ selection \in [Turns -> Runs \union {None}]
  /\ pending \subseteq Sessions

StoreInit ==
  /\ status = [r \in Runs |-> "none"]
  /\ row = [r \in Runs |-> NoRow]
  /\ events = [r \in Runs |-> << >>]
  /\ nextTurn = [s \in Sessions |-> 1]
  /\ nextAttempt = [t \in Turns |-> 1]
  /\ selection = [t \in Turns |-> None]
  /\ pending = {}

(* Mutant: a session whose run is being cancelled counts as free.           *)
BusySessionUnlessCancelling(s) ==
  \E r \in Runs : status[r] \in {"queued", "running"} /\ row[r].session = s

-----------------------------------------------------------------------------
(* The partial unique index on runs(session_id): an active row occupies the *)
(* session, whichever status of the three it is in.                         *)
BusySession(s) ==
  \E r \in Runs : status[r] \in ACTIVE_STATUSES /\ row[r].session = s

TurnOf(r) == <<row[r].session, row[r].turn>>

(* Request time in milliseconds: not before the newest row, and possibly    *)
(* equal to it.                                                             *)
RequestTimes ==
  LET last == {row[r].createdAt : r \in Runs}
  IN  {t \in 0 .. Cardinality(Runs) :
         /\ \A u \in last : u <= t
         /\ \E u \in last : t <= u + 1}

(* The INSERT of a queued row together with its run.queued event.           *)
InsertQueued(r, new) ==
  /\ status[r] = "none"
  /\ status' = [status EXCEPT ![r] = "queued"]
  /\ row' = [row EXCEPT ![r] = new]
  /\ events' = [events EXCEPT ![r] = Append(@, "run.queued")]

(* postMessage, non-replayed and accepted: a new turn and its first attempt.*)
PostMessage(s, r, strategy, select) ==
  /\ nextTurn[s] <= MaxTurns
  /\ ~BusySession(s)
  /\ \E now \in RequestTimes :
       InsertQueued(r, [ session |-> s, turn |-> nextTurn[s], attempt |-> 1,
                         strategy |-> strategy, select |-> select,
                         createdAt |-> now ])
  /\ nextTurn' = [nextTurn EXCEPT ![s] = @ + 1]
  /\ nextAttempt' = [nextAttempt EXCEPT ![<<s, nextTurn[s]>>] = 2]
  /\ UNCHANGED <<selection, pending>>

(* postRetry, non-replayed and accepted: one more attempt at an old turn.   *)
PostRetry(s, turn, r, strategy, select) ==
  /\ turn \in 1 .. nextTurn[s] - 1
  /\ ~BusySession(s)
  /\ \E now \in RequestTimes :
       InsertQueued(r, [ session |-> s, turn |-> turn,
                         attempt |-> nextAttempt[<<s, turn>>],
                         strategy |-> strategy, select |-> select,
                         createdAt |-> now ])
  /\ nextAttempt' = [nextAttempt EXCEPT ![<<s, turn>>] = @ + 1]
  /\ UNCHANGED <<nextTurn, selection, pending>>

-----------------------------------------------------------------------------
(* Rows in S take one transition to `to` and journal it as `type`.          *)
Move(S, to, type) ==
  /\ status' = [r \in Runs |-> IF r \in S THEN to ELSE status[r]]
  /\ events' = [r \in Runs |-> IF r \in S THEN Append(events[r], type) ELSE events[r]]
  /\ UNCHANGED <<row, nextTurn, nextAttempt>>

(* Mutant: completion wins over a cancel that was committed first.          *)
CompleteRunIfActive(r, proposing) ==
  /\ status[r] \in {"running", "cancel_requested"}
  /\ Move({r}, "completed", "run.completed")
  /\ UNCHANGED <<selection, pending>>

(* Mutant: the selection follows completion only when the turn has none.    *)
CompleteRunSelectsFirst(r, proposing) ==
  /\ status[r] = "running"
  /\ Move({r}, "completed", "run.completed")
  /\ selection' = IF row[r].select /\ selection[TurnOf(r)] = None
                    THEN [selection EXCEPT ![TurnOf(r)] = r]
                    ELSE selection
  /\ UNCHANGED pending

(* completeRun on a running row; `proposing` when a staged proposal is      *)
(* committed in the same transaction, before the terminal event.            *)
CompleteRun(r, proposing) ==
  /\ status[r] = "running"
  /\ status' = [status EXCEPT ![r] = "completed"]
  /\ events' = [events EXCEPT ![r] =
       @ \o (IF proposing THEN <<"action.proposed", "run.completed">>
                          ELSE <<"run.completed">>)]
  /\ selection' = IF row[r].select
                    THEN [selection EXCEPT ![TurnOf(r)] = r]
                    ELSE selection
  /\ pending' = IF proposing THEN pending \union {row[r].session} ELSE pending
  /\ UNCHANGED <<row, nextTurn, nextAttempt>>

(* Mutant: a late failure is recorded whatever became of the row.           *)
FailRunUnguarded(r) ==
  /\ Move({r}, "failed", "run.failed")
  /\ UNCHANGED <<selection, pending>>

FailRun(r) ==
  /\ status[r] = "running"
  /\ Move({r}, "failed", "run.failed")
  /\ UNCHANGED <<selection, pending>>

(* Mutant: a queued run is cancelled through cancel_requested.              *)
CancelRunTwoPhase(r) ==
  /\ status[r] \in {"queued", "running"}
  /\ Move({r}, "cancel_requested", "run.cancel_requested")
  /\ UNCHANGED <<selection, pending>>

(* cancelRun: queued settles at once, running becomes cancel_requested.     *)
CancelRun(r) ==
  /\ \/ status[r] = "queued" /\ Move({r}, "cancelled", "run.cancelled")
     \/ status[r] = "running" /\ Move({r}, "cancel_requested", "run.cancel_requested")
     \/ status[r] = "cancel_requested" /\ UNCHANGED <<status, row, events, nextTurn, nextAttempt>>
  /\ UNCHANGED <<selection, pending>>

FinalizeCancelRequested(r) ==
  /\ status[r] = "cancel_requested"
  /\ Move({r}, "cancelled", "run.cancelled")
  /\ UNCHANGED <<selection, pending>>

(* Mutant: the sweep forgets the runs being cancelled.                      *)
SweepRunningOnly ==
  /\ Move({r \in Runs : status[r] = "running"}, "abandoned", "run.abandoned")
  /\ UNCHANGED <<selection, pending>>

(* sweepTerminals: one transaction over every running and every             *)
(* cancel_requested row; queued rows stay.                                  *)
SweepTerminals ==
  LET running    == {r \in Runs : status[r] = "running"}
      cancelling == {r \in Runs : status[r] = "cancel_requested"}
  IN  /\ status' = [r \in Runs |->
                      IF r \in running THEN "abandoned"
                      ELSE IF r \in cancelling THEN "cancelled" ELSE status[r]]
      /\ events' = [r \in Runs |->
                      IF r \in running THEN Append(events[r], "run.abandoned")
                      ELSE IF r \in cancelling THEN Append(events[r], "run.cancelled")
                      ELSE events[r]]
      /\ UNCHANGED <<row, nextTurn, nextAttempt, selection, pending>>

(* Mutant: an event type the journal's contract does not know.              *)
AppendUnknownEvent(r) ==
  /\ status[r] \in ACTIVE_STATUSES
  /\ Len(events[r]) < MaxEvents
  /\ events' = [events EXCEPT ![r] = Append(@, "tool.progress")]
  /\ UNCHANGED <<status, row, nextTurn, nextAttempt, selection, pending>>

(* appendToolEvent: any non-terminal row, whatever its status.              *)
AppendToolEvent(r) ==
  /\ status[r] \in ACTIVE_STATUSES
  /\ Len(events[r]) < MaxEvents
  /\ events' = [events EXCEPT ![r] = Append(@, "tool")]
  /\ UNCHANGED <<status, row, nextTurn, nextAttempt, selection, pending>>

(* A proposal stops being pending: approved, rejected, or past its TTL (the *)
(* next commit moves an overdue pending row to expired before it counts).   *)
ResolveProposal(s) ==
  /\ s \in pending
  /\ pending' = pending \ {s}
  /\ UNCHANGED <<status, row, events, nextTurn, nextAttempt, selection>>
=============================================================================
