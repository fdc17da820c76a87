--------------------------- MODULE ActionExecution ---------------------------
(***************************************************************************)
(* The approval path of one session: from a committed proposal to the       *)
(* receipt of its external write.  packages/kernel/src/repository.ts        *)
(* decides, action_executions.ts owns the execution rows, action_strategy.ts*)
(* drives them, the calendar write ports of packages/connector-calendar     *)
(* talk to the provider.                                                    *)
(*                                                                          *)
(* Every repository or service call is one transaction and one step here:   *)
(* the process may die between any two.  The await points of the strategy   *)
(* (preflight read, write, read-back) are the values of pc.  Execution e    *)
(* and its `m5-action` Run share the id e.                                  *)
(***************************************************************************)
EXTENDS Naturals, Sequences, FiniteSets

CONSTANTS
  Proposals,    \* proposal ids of the session
  Creates,      \* those that create an event; the others reschedule one
  Execs,        \* execution ids (and the ids of their Runs)
  MaxRev,       \* bound: revisions of the calendar event
  MaxFaults,    \* bound: storage failures that reach the strategy
  MaxRestarts,  \* bound: times the process goes down
  None          \* SQL NULL

ASSUME ActionAssumption ==
  /\ Creates \subseteq Proposals
  /\ MaxRev \in Nat
  /\ MaxFaults \in Nat
  /\ MaxRestarts \in Nat
  /\ None \notin Proposals

VARIABLES
  \* The database.
  decision,    \* action_proposals.status, "none" before the INSERT
  overdue,     \* proposals whose expires_at has passed
  expected,    \* action_proposals.expected_revision
  proposalOf,  \* action_executions.proposal_id
  run,         \* runs.status of the Action Run
  stage,       \* action_executions.status
  marker,      \* executions with external_call_started_at set
  consumed,    \* executions whose grant has consumed_at set
  receipt,     \* action_receipts.outcome
  journal,     \* run_events of the Action Run
  chat,        \* the session has an active conversation Run
  \* The process.
  phase,       \* "up", "stopped" (drained) or "down"
  pc,          \* where the strategy of an execution waits
  \* The provider.
  event,       \* the calendar event: revision, content, deleted
  sample,      \* what the provider answered to the last read of e
  wire,        \* the write request of e at the provider
  calls,       \* ghost: writes sent for a proposal
  \* Bounds.
  faults, restarts

decisionVars == <<decision, overdue, expected>>
rowVars == <<proposalOf, run, stage, marker, consumed, receipt, journal>>
providerVars == <<event, sample, wire, calls>>
boundVars == <<faults, restarts>>
vars == <<decisionVars, rowVars, chat, phase, pc, providerVars, boundVars>>

TERMINAL_STATUSES == {"completed", "failed", "cancelled", "abandoned"}

TERMINAL_EXECUTION_STATUSES ==
  {"succeeded", "succeeded_unverified", "blocked_stale", "failed", "unknown"}

EventType ==
  {"run.queued", "action.approved", "run.started", "action.preflight_started",
   "action.preflight_failed", "action.preflight_blocked", "action.execution_started",
   "action.execution_finished", "run.completed", "run.failed", "run.cancelled",
   "run.abandoned"}

Event == [rev : Nat, holder : Proposals \union {None}, deleted : BOOLEAN]

TypeOK ==
  /\ decision \in [Proposals -> {"none", "pending", "approved", "rejected", "expired"}]
  /\ overdue \subseteq Proposals
  /\ expected \in [Proposals -> Nat]
  /\ proposalOf \in [Execs -> Proposals \union {None}]
  /\ run \in [Execs -> {"none", "queued", "running"} \union TERMINAL_STATUSES]
  /\ stage \in [Execs -> {"none", "queued", "preflight", "executing"}
                           \union TERMINAL_EXECUTION_STATUSES]
  /\ marker \subseteq Execs
  /\ consumed \subseteq Execs
  /\ receipt \in [Execs -> {"none"} \union TERMINAL_EXECUTION_STATUSES]
  /\ journal \in [Execs -> Seq(EventType)]
  /\ chat \in BOOLEAN
  /\ phase \in {"up", "stopped", "down"}
  /\ pc \in [Execs -> {"idle", "picked", "reading", "granted", "writing", "checking"}]
  /\ event \in Event
  /\ sample \in [Execs -> Event \union {None}]
  /\ wire \in [Execs -> {"none", "sent", "applied", "refused"}]
  /\ calls \in [Proposals -> Nat]
  /\ faults \in Nat
  /\ restarts \in Nat

Init ==
  /\ decision = [p \in Proposals |-> "none"]
  /\ overdue = {}
  /\ expected = [p \in Proposals |-> 0]
  /\ proposalOf = [e \in Execs |-> None]
  /\ run = [e \in Execs |-> "none"]
  /\ stage = [e \in Execs |-> "none"]
  /\ marker = {}
  /\ consumed = {}
  /\ receipt = [e \in Execs |-> "none"]
  /\ journal = [e \in Execs |-> << >>]
  /\ chat = FALSE
  /\ phase = "up"
  /\ pc = [e \in Execs |-> "idle"]
  /\ event = [rev |-> 0, holder |-> None, deleted |-> FALSE]
  /\ sample = [e \in Execs |-> None]
  /\ wire = [e \in Execs |-> "none"]
  /\ calls = [p \in Proposals |-> 0]
  /\ faults = 0
  /\ restarts = 0

-----------------------------------------------------------------------------
(* Proposals and decisions.                                                 *)

SessionBusy == chat \/ \E e \in Execs : run[e] \in {"queued", "running"}

(* A conversation Run occupies the session; it ends, or a sweep ends it     *)
(* (RunEngine has its details).                                             *)
ChatStarts ==
  /\ phase = "up"
  /\ ~SessionBusy
  /\ chat' = TRUE
  /\ UNCHANGED <<decisionVars, rowVars, phase, pc, providerVars, boundVars>>

ChatEnds ==
  /\ chat
  /\ chat' = FALSE
  /\ UNCHANGED <<decisionVars, rowVars, phase, pc, providerVars, boundVars>>

(* completeRun commits the staged proposal: overdue pending ones expire     *)
(* first, then none may be pending.  The snapshot it was staged on may be   *)
(* older than the event.                                                    *)
Propose(p) ==
  /\ phase = "up"
  /\ chat
  /\ decision[p] = "none"
  /\ \A q \in Proposals : decision[q] = "pending" => q \in overdue
  /\ decision' = [q \in Proposals |->
                    IF q = p THEN "pending"
                    ELSE IF decision[q] = "pending" THEN "expired" ELSE decision[q]]
  /\ \E rev \in 0 .. event.rev : expected' = [expected EXCEPT ![p] = rev]
  /\ chat' = FALSE
  /\ UNCHANGED <<overdue, rowVars, phase, pc, providerVars, boundVars>>

(* The clock passes expires_at.                                             *)
BecomesOverdue(p) ==
  /\ decision[p] = "pending"
  /\ p \notin overdue
  /\ overdue' = overdue \union {p}
  /\ UNCHANGED <<decision, expected, rowVars, chat, phase, pc, providerVars, boundVars>>

(* approveProposal, first request with its key: the decision, the Action    *)
(* Run, the execution and its one-shot grant in one transaction.  (A        *)
(* repeated key replays the stored body; another key meets a decided row.)  *)
Approve(p, e) ==
  /\ phase = "up"
  /\ decision[p] = "pending"
  /\ p \notin overdue
  /\ ~SessionBusy
  /\ stage[e] = "none"
  /\ decision' = [decision EXCEPT ![p] = "approved"]
  /\ proposalOf' = [proposalOf EXCEPT ![e] = p]
  /\ run' = [run EXCEPT ![e] = "queued"]
  /\ stage' = [stage EXCEPT ![e] = "queued"]
  /\ journal' = [journal EXCEPT ![e] = <<"run.queued", "action.approved">>]
  /\ UNCHANGED <<overdue, expected, marker, consumed, receipt, chat, phase, pc,
                 providerVars, boundVars>>

(* Mutant: a decided proposal can still be rejected.                        *)
RejectDecided(p) ==
  /\ phase = "up"
  /\ decision[p] # "none"
  /\ decision' = [decision EXCEPT ![p] = "rejected"]
  /\ UNCHANGED <<overdue, expected, rowVars, chat, phase, pc, providerVars, boundVars>>

(* rejectProposal: allowed while a Run is active.                           *)
Reject(p) ==
  /\ phase = "up"
  /\ decision[p] = "pending"
  /\ p \notin overdue
  /\ decision' = [decision EXCEPT ![p] = "rejected"]
  /\ UNCHANGED <<overdue, expected, rowVars, chat, phase, pc, providerVars, boundVars>>

(* Either decision on an overdue proposal resolves it expired.              *)
DecideOverdue(p) ==
  /\ phase = "up"
  /\ decision[p] = "pending"
  /\ p \in overdue
  /\ decision' = [decision EXCEPT ![p] = "expired"]
  /\ UNCHANGED <<overdue, expected, rowVars, chat, phase, pc, providerVars, boundVars>>

-----------------------------------------------------------------------------
(* Terminal transactions of the execution service.                          *)

Is(e, runStatus, stageStatus) == run[e] = runStatus /\ stage[e] = stageStatus

Preflighting(e) == Is(e, "running", "preflight") /\ e \notin marker

(* Execution, receipt, journal and Run move together.                       *)
Settle(e, outcome, runStatus, log) ==
  /\ stage' = [stage EXCEPT ![e] = outcome]
  /\ receipt' = [receipt EXCEPT ![e] = outcome]
  /\ run' = [run EXCEPT ![e] = runStatus]
  /\ journal' = [journal EXCEPT ![e] = @ \o log]
  /\ UNCHANGED <<proposalOf, marker, consumed>>

(* The strategy of e is over.                                               *)
Ends(e) ==
  /\ pc' = [pc EXCEPT ![e] = "idle"]
  /\ sample' = [sample EXCEPT ![e] = None]
  /\ UNCHANGED <<event, wire, calls>>

(* The strategy of e waits at `point`; nothing was read there yet.          *)
Waits(e, point) ==
  /\ pc' = [pc EXCEPT ![e] = point]
  /\ sample' = [sample EXCEPT ![e] = None]
  /\ UNCHANGED <<event, wire, calls>>

(* recordActionPreflightFailure; nothing when the stage moved meanwhile.    *)
PreflightFailed(e) ==
  IF Preflighting(e)
    THEN Settle(e, "failed", "failed", <<"action.preflight_failed", "run.failed">>)
    ELSE UNCHANGED rowVars

(* recordActionPreflightBlocked: not a failure of the Run.                  *)
PreflightBlocked(e) ==
  IF Preflighting(e)
    THEN Settle(e, "blocked_stale", "completed",
                <<"action.preflight_blocked", "action.execution_finished", "run.completed">>)
    ELSE UNCHANGED rowVars

(* Mutant: a result is recorded although the Run was settled meanwhile.     *)
FinishLate(e, outcome) ==
  /\ Settle(e, outcome, IF outcome \in {"failed", "unknown"} THEN "failed" ELSE "completed",
            <<"action.execution_finished",
              IF outcome \in {"failed", "unknown"} THEN "run.failed" ELSE "run.completed">>)

(* Mutant: the Run ends in the journal before its execution does.           *)
FinishTerminalFirst(e, outcome) ==
  IF Is(e, "running", "executing") /\ e \in marker
    THEN Settle(e, outcome, IF outcome \in {"failed", "unknown"} THEN "failed" ELSE "completed",
                <<IF outcome \in {"failed", "unknown"} THEN "run.failed" ELSE "run.completed",
                  "action.execution_finished">>)
    ELSE UNCHANGED rowVars

(* finishActionExecution and finishCreateExecution: a late result of a Run  *)
(* that is no longer running is dropped.                                    *)
Finish(e, outcome) ==
  LET bad == outcome \in {"failed", "unknown"}
  IN  IF Is(e, "running", "executing") /\ e \in marker
        THEN Settle(e, outcome, IF bad THEN "failed" ELSE "completed",
                    <<"action.execution_finished",
                      IF bad THEN "run.failed" ELSE "run.completed">>)
        ELSE UNCHANGED rowVars

(* Mutant: an abandoned execution counts as failed whatever its marker.     *)
AbandonAsFailed(S) ==
  /\ stage' = [e \in Execs |-> IF e \in S THEN "failed" ELSE stage[e]]
  /\ receipt' = [e \in Execs |-> IF e \in S THEN "failed" ELSE receipt[e]]
  /\ run' = [e \in Execs |-> IF e \in S THEN "abandoned" ELSE run[e]]
  /\ journal' = [e \in Execs |->
       IF e \in S THEN journal[e] \o <<"action.execution_finished", "run.abandoned">>
                  ELSE journal[e]]
  /\ UNCHANGED <<proposalOf, marker, consumed>>

(* applyRecoveryAbandon for the running executions in S: the marker decides *)
(* whether the write may have left.                                         *)
Abandon(S) ==
  LET outcome(e) == IF e \in marker THEN "unknown" ELSE "failed"
  IN  /\ stage' = [e \in Execs |-> IF e \in S THEN outcome(e) ELSE stage[e]]
      /\ receipt' = [e \in Execs |-> IF e \in S THEN outcome(e) ELSE receipt[e]]
      /\ run' = [e \in Execs |-> IF e \in S THEN "abandoned" ELSE run[e]]
      /\ journal' = [e \in Execs |->
           IF e \in S THEN journal[e] \o <<"action.execution_finished", "run.abandoned">>
                      ELSE journal[e]]
      /\ UNCHANGED <<proposalOf, marker, consumed>>

(* classifyActionPair accepts the row: everything else stops recovery.      *)
Recoverable(e) ==
  \/ Is(e, "none", "none")
  \/ Is(e, "queued", "queued") /\ e \notin marker
  \/ Is(e, "running", "preflight") /\ e \notin marker
  \/ Is(e, "running", "executing") /\ e \in marker
  \/ /\ run[e] \in TERMINAL_STATUSES
     /\ stage[e] \in TERMINAL_EXECUTION_STATUSES
     /\ receipt[e] = stage[e]
     /\ e \in marker => e \in consumed
     /\ stage[e] = "failed" => (e \in consumed => e \in marker)
     /\ stage[e] = "blocked_stale" => e \notin marker
     /\ stage[e] \in {"succeeded", "succeeded_unverified", "unknown"} => e \in marker

-----------------------------------------------------------------------------
(* The strategy, from pickup to the grant gate.                             *)

Outside == <<decisionVars, chat, phase, boundVars>>

(* startActionRun, reached through repository.startRun.                     *)
PickUp(e) ==
  /\ phase = "up"
  /\ Is(e, "queued", "queued")
  /\ run' = [run EXCEPT ![e] = "running"]
  /\ stage' = [stage EXCEPT ![e] = "preflight"]
  /\ journal' = [journal EXCEPT ![e] = @ \o <<"run.started", "action.preflight_started">>]
  /\ Waits(e, "picked")
  /\ UNCHANGED <<proposalOf, marker, consumed, receipt, Outside>>

(* Mutant: the grant row is checked and not consumed.                       *)
GateUnconsumed(e) ==
  IF Preflighting(e) /\ decision[proposalOf[e]] = "approved" /\ e \notin consumed
    THEN /\ marker' = marker \union {e}
         /\ stage' = [stage EXCEPT ![e] = "executing"]
         /\ journal' = [journal EXCEPT ![e] = Append(@, "action.execution_started")]
         /\ Waits(e, "granted")
         /\ UNCHANGED <<proposalOf, run, receipt, consumed>>
    ELSE Ends(e) /\ UNCHANGED rowVars

(* consumeActionGrant: the one-shot grant, the marker and the stage in one  *)
(* transaction; default deny.                                               *)
Gate(e) ==
  IF Preflighting(e) /\ decision[proposalOf[e]] = "approved" /\ e \notin consumed
    THEN /\ consumed' = consumed \union {e}
         /\ marker' = marker \union {e}
         /\ stage' = [stage EXCEPT ![e] = "executing"]
         /\ journal' = [journal EXCEPT ![e] = Append(@, "action.execution_started")]
         /\ Waits(e, "granted")
         /\ UNCHANGED <<proposalOf, run, receipt>>
    ELSE Ends(e) /\ UNCHANGED rowVars

(* No write capability for this connector, no target, or no authority.      *)
BindingFails(e) ==
  /\ pc[e] = "picked"
  /\ PreflightFailed(e)
  /\ Ends(e)
  /\ UNCHANGED Outside

(* A reschedule reads the event before its gate; a create has no event to   *)
(* read.                                                                    *)
Binds(e) ==
  /\ pc[e] = "picked"
  /\ IF proposalOf[e] \in Creates
       THEN Gate(e)
       ELSE /\ IF Preflighting(e) THEN Waits(e, "reading") ELSE Ends(e)
            /\ UNCHANGED rowVars
  /\ UNCHANGED Outside

(* Mutant: a failed read leaves the Run as it is.                           *)
ReadFailsSilently(e) ==
  /\ pc[e] = "reading"
  /\ Ends(e)
  /\ UNCHANGED <<rowVars, Outside>>

(* The preflight read is unavailable, times out or does not parse.          *)
ReadFails(e) ==
  /\ pc[e] = "reading"
  /\ PreflightFailed(e)
  /\ Ends(e)
  /\ UNCHANGED Outside

(* The answer arrives, possibly after the event moved on or the Run was     *)
(* cancelled.                                                               *)
ReadReturns(e) ==
  /\ pc[e] = "reading"
  /\ sample[e] # None
  /\ IF sample[e].deleted \/ sample[e].rev # expected[proposalOf[e]]
       THEN PreflightBlocked(e) /\ Ends(e)
       ELSE Gate(e)
  /\ UNCHANGED Outside

-----------------------------------------------------------------------------
(* The strategy, from the gate to the receipt.                              *)

(* The single call of the write port.                                       *)
Send(e) ==
  /\ pc[e] = "granted"
  /\ pc' = [pc EXCEPT ![e] = "writing"]
  /\ wire' = [wire EXCEPT ![e] = "sent"]
  /\ calls' = [calls EXCEPT ![proposalOf[e]] = @ + 1]
  /\ UNCHANGED <<event, sample, rowVars, Outside>>

(* The port refuses before it dispatches anything: no usable etag.          *)
PortRefuses(e) ==
  /\ pc[e] = "granted"
  /\ Finish(e, "failed")
  /\ Ends(e)
  /\ UNCHANGED Outside

(* Mutant: a lost answer is retried.                                        *)
PortReturnsRetrying(e) ==
  /\ pc[e] = "writing"
  /\ \/ wire[e] = "applied" /\ Waits(e, "checking") /\ UNCHANGED rowVars
     \/ wire[e] = "refused" /\ Finish(e, "failed") /\ Ends(e)
     \/ Waits(e, "granted") /\ UNCHANGED rowVars
  /\ UNCHANGED Outside

(* Mutant: the port's own word is recorded as the outcome.                  *)
PortReturnsVerbatim(e) ==
  /\ pc[e] = "writing"
  /\ \/ wire[e] = "applied" /\ Waits(e, "checking") /\ UNCHANGED rowVars
     \/ wire[e] = "refused" /\ Finish(e, "definite_failure") /\ Ends(e)
     \/ Finish(e, "unknown") /\ Ends(e)
  /\ UNCHANGED Outside

(* The provider's answer, or none: a timeout, a lost or unreadable response *)
(* and an abort are all `unknown`.                                          *)
PortReturns(e) ==
  /\ pc[e] = "writing"
  /\ \/ wire[e] = "applied" /\ Waits(e, "checking") /\ UNCHANGED rowVars
     \/ wire[e] = "refused" /\ Finish(e, "failed") /\ Ends(e)
     \/ Finish(e, "unknown") /\ Ends(e)
  /\ UNCHANGED Outside

(* The read-back shows what was asked for.  (A create reads its own new     *)
(* event, which is not `event`: either answer is possible.)                 *)
Verifies(e) ==
  \/ proposalOf[e] \in Creates
  \/ /\ sample[e] # None
     /\ ~sample[e].deleted
     /\ sample[e].holder = proposalOf[e]

CheckReturns(e) ==
  /\ pc[e] = "checking"
  /\ \/ Verifies(e) /\ Finish(e, "succeeded")
     \/ Finish(e, "succeeded_unverified")
  /\ Ends(e)
  /\ UNCHANGED Outside

(* A transaction of the strategy throws; the engine settles the Run with    *)
(* recoverAbandonedActionRun, unless that fails as well.                    *)
StrategyThrows(e) ==
  /\ pc[e] \notin {"idle", "granted"}
  /\ \/ /\ faults < MaxFaults
        /\ faults' = faults + 1
        /\ IF run[e] = "running" THEN Abandon({e}) ELSE UNCHANGED rowVars
     \/ /\ faults + 1 < MaxFaults
        /\ faults' = faults + 2
        /\ UNCHANGED rowVars
  /\ Ends(e)
  /\ UNCHANGED <<decisionVars, chat, phase, restarts>>

-----------------------------------------------------------------------------
(* Cancel, restart, shutdown.                                               *)

(* Mutant: the marker does not stop a cancel.                               *)
CancelAnyStage(e) ==
  /\ phase # "down"
  /\ run[e] \in {"queued", "running"}
  /\ Settle(e, "failed", "cancelled", <<"action.execution_finished", "run.cancelled">>)
  /\ UNCHANGED <<Outside, pc, providerVars>>

(* cancelActionRun: only before the marker; the strategy is not told.       *)
Cancel(e) ==
  /\ phase # "down"
  /\ run[e] \in {"queued", "running"}
  /\ e \notin marker
  /\ stage[e] \in {"queued", "preflight"}
  /\ Settle(e, "failed", "cancelled", <<"action.execution_finished", "run.cancelled">>)
  /\ UNCHANGED <<Outside, pc, providerVars>>

(* validateAndRecoverActionRuns: every pair is classified before any moves. *)
Sweep ==
  /\ \A e \in Execs : Recoverable(e)
  /\ Abandon({e \in Execs : run[e] = "running"})

Crash ==
  /\ phase # "down"
  /\ restarts < MaxRestarts
  /\ restarts' = restarts + 1
  /\ phase' = "down"
  /\ pc' = [e \in Execs |-> "idle"]
  /\ sample' = [e \in Execs |-> None]
  /\ UNCHANGED <<decisionVars, rowVars, chat, event, wire, calls, faults>>

Start ==
  /\ phase = "down"
  /\ phase' = "up"
  /\ Sweep
  /\ UNCHANGED <<decisionVars, chat, pc, providerVars, boundVars>>

(* Shutdown past its drain deadline: strategies may still be out.           *)
Drain ==
  /\ phase = "up"
  /\ phase' = "stopped"
  /\ Sweep
  /\ UNCHANGED <<decisionVars, chat, pc, providerVars, boundVars>>

-----------------------------------------------------------------------------
(* The provider and its other users.                                        *)

ProviderReads(e) ==
  /\ pc[e] \in {"reading", "checking"}
  /\ sample[e] = None
  /\ sample' = [sample EXCEPT ![e] = event]
  /\ UNCHANGED <<event, wire, calls, pc, rowVars, Outside>>

(* A request is applied or refused once, also after its sender is gone.  A  *)
(* reschedule carries the expected revision as its If-Match condition.      *)
ProviderApplies(e) ==
  LET p == proposalOf[e] IN
  /\ wire[e] = "sent"
  /\ p \notin Creates => ~event.deleted /\ event.rev = expected[p]
  /\ wire' = [wire EXCEPT ![e] = "applied"]
  /\ event' = IF p \in Creates THEN event
              ELSE [rev |-> event.rev + 1, holder |-> p, deleted |-> FALSE]
  /\ UNCHANGED <<sample, calls, pc, rowVars, Outside>>

ProviderRefuses(e) ==
  /\ wire[e] = "sent"
  /\ wire' = [wire EXCEPT ![e] = "refused"]
  /\ UNCHANGED <<event, sample, calls, pc, rowVars, Outside>>

(* Someone edits or deletes the event in the calendar itself.               *)
UserEdits ==
  /\ event.rev < MaxRev
  /\ ~event.deleted
  /\ \E gone \in BOOLEAN, holder \in {None, event.holder} :
       event' = [rev |-> event.rev + 1, holder |-> holder, deleted |-> gone]
  /\ UNCHANGED <<sample, wire, calls, pc, rowVars, Outside>>

-----------------------------------------------------------------------------
Next ==
  \/ ChatStarts \/ ChatEnds
  \/ Crash \/ Start \/ Drain
  \/ UserEdits
  \/ \E p \in Proposals :
       \/ Propose(p) \/ BecomesOverdue(p) \/ Reject(p) \/ DecideOverdue(p)
       \/ \E e \in Execs : Approve(p, e)
  \/ \E e \in Execs :
       \/ PickUp(e) \/ BindingFails(e) \/ Binds(e) \/ ReadFails(e) \/ ReadReturns(e)
       \/ Send(e) \/ PortRefuses(e) \/ PortReturns(e) \/ CheckReturns(e)
       \/ StrategyThrows(e) \/ Cancel(e)
       \/ ProviderReads(e) \/ ProviderApplies(e) \/ ProviderRefuses(e)

Spec == Init /\ [][Next]_vars

(* The scheduler picks up, every port call has a timeout, and a process     *)
(* that went down is started again.  The provider need not answer.          *)
FairSpec ==
  /\ Spec
  /\ WF_vars(Start)
  /\ \A e \in Execs :
       /\ WF_vars(PickUp(e))
       /\ WF_vars(Binds(e) \/ BindingFails(e))
       /\ WF_vars(ReadReturns(e) \/ ReadFails(e))
       /\ WF_vars(Send(e) \/ PortRefuses(e))
       /\ WF_vars(PortReturns(e))
       /\ WF_vars(CheckReturns(e))

-----------------------------------------------------------------------------
(* Safety.                                                                  *)

(* However the strategy, the engine's fallback, recovery and the user       *)
(* interleave, the write of a proposal leaves the process at most once.     *)
AtMostOneWrite == \A p \in Proposals : calls[p] <= 1

(* A Run the user was told is cancelled never wrote and never will: no      *)
(* request of it is out and its strategy is not past the gate.              *)
CancelIsHonest ==
  \A e \in Execs : run[e] = "cancelled" =>
    /\ wire[e] = "none"
    /\ calls[proposalOf[e]] = 0
    /\ pc[e] \in {"idle", "picked", "reading"}

(* The receipt never claims more than what happened at the provider: a      *)
(* success was applied; a failure or a block was not, and cannot be any     *)
(* more.                                                                    *)
ReceiptIsHonest ==
  \A e \in Execs :
    /\ receipt[e] \in {"succeeded", "succeeded_unverified"} => wire[e] = "applied"
    /\ receipt[e] = "failed" => wire[e] \in {"none", "refused"} /\ pc[e] # "granted"
    /\ receipt[e] = "blocked_stale" => wire[e] = "none" /\ pc[e] # "granted"

(* No reachable state makes startup or shutdown fail closed on an           *)
(* "impossible" pair of Run and execution.                                  *)
RecoveryNeverWedges == \A e \in Execs : Recoverable(e)

(* The journal tells the story in order: nothing follows the terminal event *)
(* of the Run, the end of the execution comes before it, and the start of   *)
(* the external write is there exactly when the marker is set.              *)
AuditIsOrdered ==
  \A e \in Execs :
    LET log == journal[e]
        At(types) == {i \in DOMAIN log : log[i] \in types}
        ends == At({"run.completed", "run.failed", "run.cancelled", "run.abandoned"})
        done == At({"action.execution_finished", "action.preflight_failed"})
    IN  /\ ends = IF run[e] \in TERMINAL_STATUSES THEN {Len(log)} ELSE {}
        /\ done = IF run[e] \in TERMINAL_STATUSES THEN {Len(log) - 1} ELSE {}
        /\ e \in marker <=> At({"action.execution_started"}) # {}

-----------------------------------------------------------------------------
(* Steps.                                                                   *)

(* A receipt is written once, with the end of its Run: late answers, late   *)
(* cancels, the engine's fallback and the sweeps leave both alone.          *)
SettledIsFinal ==
  [][\A e \in Execs : receipt[e] # "none" =>
       /\ receipt'[e] = receipt[e]
       /\ stage'[e] = stage[e]
       /\ run'[e] = run[e]
       /\ journal'[e] = journal[e]]_vars

ReceiptOf(p) ==
  LET es == {e \in Execs : proposalOf[e] = p}
  IN  IF es = {} THEN "none" ELSE receipt[CHOOSE e \in es : TRUE]

Promise ==
  INSTANCE ActionPromise WITH
    attempted <- {p \in Proposals : calls[p] > 0},
    report <- [p \in Proposals |-> ReceiptOf(p)]

(* Every step is a step of what the action path promises the user.          *)
RefinesPromise == Promise!PromiseSpec

-----------------------------------------------------------------------------
(* Progress.                                                                *)

(* Every approved proposal gets its receipt, though the provider may never  *)
(* answer, the process may die at any point and one storage failure may     *)
(* hit the strategy; only a shutdown, or a second failure that hits the     *)
(* fallback, may leave it to the next start.                                *)
ApprovedIsReported ==
  \A p \in Proposals :
    decision[p] = "approved" ~>
      (ReceiptOf(p) # "none" \/ phase = "stopped" \/ faults > 1)
=============================================================================
