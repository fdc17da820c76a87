------------------------ MODULE ActionExecutionProofs ------------------------
(***************************************************************************)
(* Theorems about ActionExecution, for any proposals and executions and any *)
(* number of failures, restarts and edits.                                  *)
(***************************************************************************)
EXTENDS ActionExecution, SequenceTheorems, TLAPS

-----------------------------------------------------------------------------
(* The inductive invariant.                                                 *)

(* An execution belongs to one approved proposal, from its INSERT on.       *)
Linked(e) ==
  /\ stage[e] = "none" => proposalOf[e] = None /\ pc[e] = "idle"
  /\ stage[e] # "none" => /\ proposalOf[e] \in Proposals
                          /\ decision[proposalOf[e]] = "approved"

OneExecPerProposal ==
  \A e, f \in Execs : proposalOf[e] # None /\ proposalOf[e] = proposalOf[f] => e = f

(* The grant is consumed exactly with the marker, a receipt exists exactly  *)
(* at the end, and a cancelled Run never had the marker.                    *)
RowsAgree(e) ==
  /\ Recoverable(e)
  /\ stage[e] = "none" => e \notin marker
  /\ e \in consumed <=> e \in marker
  /\ run[e] \notin TERMINAL_STATUSES => receipt[e] = "none"
  /\ run[e] = "cancelled" => e \notin marker

(* Where the strategy is agrees with the marker and with the wire.          *)
Placed(e) ==
  /\ pc[e] # "idle" => run[e] \notin {"none", "queued"}
  /\ pc[e] \in {"picked", "reading"} => e \notin marker
  /\ pc[e] = "granted" => e \in marker /\ wire[e] = "none"
  /\ pc[e] = "writing" => e \in marker /\ wire[e] # "none"
  /\ pc[e] = "checking" => e \in marker /\ wire[e] = "applied"
  /\ wire[e] # "none" => e \in marker

(* A write is counted for its proposal when it goes out.                    *)
Counted ==
  /\ \A e \in Execs : stage[e] # "none" =>
       calls[proposalOf[e]] = IF wire[e] = "none" THEN 0 ELSE 1
  /\ \A p \in Proposals : (\A e \in Execs : proposalOf[e] # p) => calls[p] = 0

IInv ==
  /\ TypeOK
  /\ \A e \in Execs : Linked(e) /\ RowsAgree(e) /\ Placed(e)
  /\ OneExecPerProposal
  /\ Counted
  /\ ReceiptIsHonest

-----------------------------------------------------------------------------
(* Type correctness, by groups of variables.                                *)

(* The empty database is well typed.                                        *)
LEMMA InitType == Init => TypeOK
<1> SUFFICES ASSUME Init PROVE TypeOK
  OBVIOUS
<1>1. journal \in [Execs -> Seq(EventType)]
  <2>1. << >> \in Seq(EventType)
    OBVIOUS
  <2> QED
    BY <2>1 DEF Init
<1>2. event \in Event
  BY DEF Init, Event
<1> QED
  BY <1>1, <1>2, ActionAssumption DEF Init, TypeOK

-----------------------------------------------------------------------------
(* What a step does to the rows, the journal aside.                         *)

(* The ends an execution may take, and from where.                          *)
Ending(e, outcome, runStatus) ==
  \/ /\ Preflighting(e)
     /\ \/ outcome = "failed" /\ runStatus = "failed"
        \/ outcome = "blocked_stale" /\ runStatus = "completed"
  \/ /\ Is(e, "running", "executing")
     /\ e \in marker
     /\ \/ outcome \in {"failed", "unknown"} /\ runStatus = "failed"
        \/ outcome \in {"succeeded", "succeeded_unverified"} /\ runStatus = "completed"
  \/ /\ run[e] \in {"queued", "running"}
     /\ stage[e] \in {"queued", "preflight"}
     /\ e \notin marker
     /\ outcome = "failed" /\ runStatus = "cancelled"

Settled(e, outcome, runStatus) ==
  /\ stage' = [stage EXCEPT ![e] = outcome]
  /\ receipt' = [receipt EXCEPT ![e] = outcome]
  /\ run' = [run EXCEPT ![e] = runStatus]
  /\ UNCHANGED <<proposalOf, marker, consumed>>

Opened(e) ==
  /\ Preflighting(e)
  /\ consumed' = consumed \union {e}
  /\ marker' = marker \union {e}
  /\ stage' = [stage EXCEPT ![e] = "executing"]
  /\ pc' = [pc EXCEPT ![e] = "granted"]
  /\ UNCHANGED <<proposalOf, run, receipt>>

Started(e) ==
  /\ Is(e, "queued", "queued")
  /\ run' = [run EXCEPT ![e] = "running"]
  /\ stage' = [stage EXCEPT ![e] = "preflight"]
  /\ UNCHANGED <<proposalOf, marker, consumed, receipt>>

Inserted(p, e) ==
  /\ stage[e] = "none"
  /\ decision[p] = "pending"
  /\ decision' = [decision EXCEPT ![p] = "approved"]
  /\ proposalOf' = [proposalOf EXCEPT ![e] = p]
  /\ run' = [run EXCEPT ![e] = "queued"]
  /\ stage' = [stage EXCEPT ![e] = "queued"]
  /\ UNCHANGED <<marker, consumed, receipt>>

Abandoned(S) ==
  /\ \A e \in S : run[e] = "running"
  /\ stage' = [e \in Execs |-> IF e \in S THEN (IF e \in marker THEN "unknown" ELSE "failed")
                               ELSE stage[e]]
  /\ receipt' = [e \in Execs |-> IF e \in S THEN (IF e \in marker THEN "unknown" ELSE "failed")
                                 ELSE receipt[e]]
  /\ run' = [e \in Execs |-> IF e \in S THEN "abandoned" ELSE run[e]]
  /\ UNCHANGED <<proposalOf, marker, consumed>>

RowsKept == UNCHANGED <<proposalOf, run, stage, marker, consumed, receipt>>

RowEffect ==
  \/ RowsKept
  \/ \E p \in Proposals, e \in Execs : Inserted(p, e)
  \/ \E e \in Execs : Started(e) \/ Opened(e)
  \/ \E e \in Execs, outcome \in TERMINAL_EXECUTION_STATUSES, runStatus \in TERMINAL_STATUSES :
       Ending(e, outcome, runStatus) /\ Settled(e, outcome, runStatus)
  \/ \E S \in SUBSET Execs : Abandoned(S)

(* Finish settles as Ending allows, or not at all.                          *)
LEMMA FinishEffect ==
  ASSUME NEW e \in Execs, NEW outcome \in {"succeeded", "succeeded_unverified", "failed", "unknown"},
         Finish(e, outcome)
  PROVE  \/ RowsKept
         \/ \E runStatus \in TERMINAL_STATUSES :
              Ending(e, outcome, runStatus) /\ Settled(e, outcome, runStatus)
<1>1. CASE Is(e, "running", "executing") /\ e \in marker
  <2> DEFINE to == IF outcome \in {"failed", "unknown"} THEN "failed" ELSE "completed"
  <2>1. to \in TERMINAL_STATUSES
    BY DEF TERMINAL_STATUSES
  <2>2. Ending(e, outcome, to)
    BY <1>1 DEF Ending
  <2>3. Settled(e, outcome, to)
    BY <1>1 DEF Finish, Settle, Settled
  <2> QED
    BY <2>1, <2>2, <2>3
<1>2. CASE ~(Is(e, "running", "executing") /\ e \in marker)
  BY <1>2 DEF Finish, RowsKept, rowVars
<1> QED
  BY <1>1, <1>2

(* The two preflight terminals settle as Ending allows, or not at all.      *)
LEMMA PreflightEffect ==
  ASSUME NEW e \in Execs, PreflightFailed(e) \/ PreflightBlocked(e)
  PROVE  \/ RowsKept
         \/ \E outcome \in {"failed", "blocked_stale"}, runStatus \in TERMINAL_STATUSES :
              Ending(e, outcome, runStatus) /\ Settled(e, outcome, runStatus)
<1>1. CASE Preflighting(e) /\ PreflightFailed(e)
  BY <1>1 DEF PreflightFailed, Ending, Settle, Settled, TERMINAL_STATUSES
<1>2. CASE Preflighting(e) /\ PreflightBlocked(e)
  BY <1>2 DEF PreflightBlocked, Ending, Settle, Settled, TERMINAL_STATUSES
<1>3. CASE ~Preflighting(e)
  BY <1>3 DEF PreflightFailed, PreflightBlocked, RowsKept, rowVars
<1> QED
  BY <1>1, <1>2, <1>3

(* The gate opens from preflight only.                                      *)
LEMMA GateEffect ==
  ASSUME NEW e \in Execs, Gate(e)
  PROVE  \/ RowsKept /\ pc' = [pc EXCEPT ![e] = "idle"]
         \/ Opened(e)
BY DEF Gate, Ends, Waits, RowsKept, Opened, rowVars

(* The sweep and the engine's fallback abandon running executions only.     *)
LEMMA AbandonEffect ==
  ASSUME NEW S \in SUBSET Execs, \A e \in S : run[e] = "running", Abandon(S)
  PROVE  Abandoned(S)
BY DEF Abandon, Abandoned

(* Every step moves the rows in one of these ways.                          *)
LEMMA RowStep ==
  ASSUME Next
  PROVE  RowEffect
<1> USE DEF Outside, rowVars, RowsKept
<1>1. CASE ChatStarts \/ ChatEnds \/ Crash \/ UserEdits
  BY <1>1 DEF ChatStarts, ChatEnds, Crash, UserEdits, RowEffect
<1>2. CASE Start \/ Drain
  <2>1. Abandon({e \in Execs : run[e] = "running"})
    BY <1>2 DEF Start, Drain, Sweep
  <2> QED
    BY <2>1, AbandonEffect DEF RowEffect
<1>3. ASSUME NEW p \in Proposals,
             Propose(p) \/ BecomesOverdue(p) \/ Reject(p) \/ DecideOverdue(p)
      PROVE  RowEffect
  BY <1>3 DEF Propose, BecomesOverdue, Reject, DecideOverdue, RowEffect
<1>4. ASSUME NEW p \in Proposals, NEW e \in Execs, Approve(p, e)
      PROVE  RowEffect
  BY <1>4 DEF Approve, Inserted, RowEffect
<1>5. ASSUME NEW e \in Execs, PickUp(e)
      PROVE  RowEffect
  BY <1>5 DEF PickUp, Started, RowEffect
<1>6. ASSUME NEW e \in Execs, BindingFails(e) \/ ReadFails(e) \/ PreflightBlocked(e)
      PROVE  RowEffect
  <2>1. PreflightFailed(e) \/ PreflightBlocked(e)
    BY <1>6 DEF BindingFails, ReadFails
  <2> QED
    BY <2>1, PreflightEffect DEF RowEffect, TERMINAL_EXECUTION_STATUSES
<1>7. ASSUME NEW e \in Execs, Binds(e) \/ ReadReturns(e)
      PROVE  RowEffect
  <2>1. Gate(e) \/ UNCHANGED rowVars \/ PreflightBlocked(e)
    BY <1>7 DEF Binds, ReadReturns
  <2> QED
    BY <2>1, <1>6, GateEffect DEF RowEffect
<1>8. ASSUME NEW e \in Execs, PortRefuses(e) \/ PortReturns(e) \/ CheckReturns(e)
      PROVE  RowEffect
  <2>1. \/ UNCHANGED rowVars
        \/ \E outcome \in {"succeeded", "succeeded_unverified", "failed", "unknown"} :
             Finish(e, outcome)
    BY <1>8 DEF PortRefuses, PortReturns, CheckReturns
  <2> QED
    BY <2>1, FinishEffect DEF RowEffect, TERMINAL_EXECUTION_STATUSES
<1>9. ASSUME NEW e \in Execs, StrategyThrows(e)
      PROVE  RowEffect
  <2>1. UNCHANGED rowVars \/ (run[e] = "running" /\ Abandon({e}))
    BY <1>9 DEF StrategyThrows
  <2> QED
    BY <2>1, AbandonEffect DEF RowEffect
<1>10. ASSUME NEW e \in Execs, Cancel(e)
       PROVE  RowEffect
  <2>1. Ending(e, "failed", "cancelled") /\ Settled(e, "failed", "cancelled")
    BY <1>10 DEF Cancel, Ending, Settle, Settled
  <2> QED
    BY <2>1 DEF RowEffect, TERMINAL_EXECUTION_STATUSES, TERMINAL_STATUSES
<1>11. ASSUME NEW e \in Execs,
              Send(e) \/ ProviderReads(e) \/ ProviderApplies(e) \/ ProviderRefuses(e)
       PROVE  RowEffect
  BY <1>11 DEF Send, ProviderReads, ProviderApplies, ProviderRefuses, RowEffect
<1> QED
  BY <1>1, <1>2, <1>3, <1>4, <1>5, <1>6, <1>7, <1>8, <1>9, <1>10, <1>11 DEF Next

-----------------------------------------------------------------------------
(* Decisions: an approval is never taken back.                              *)
LEMMA DecisionStep ==
  ASSUME TypeOK, Next
  PROVE  \A p \in Proposals :
           \/ decision'[p] = decision[p]
           \/ decision[p] \in {"none", "pending"} /\ decision'[p] # "none"
<1> USE DEF TypeOK, Outside, decisionVars
<1>1. ASSUME NEW p \in Proposals,
             \/ Propose(p) \/ BecomesOverdue(p) \/ Reject(p) \/ DecideOverdue(p)
             \/ \E e \in Execs : Approve(p, e)
      PROVE  \A q \in Proposals :
               \/ decision'[q] = decision[q]
               \/ decision[q] \in {"none", "pending"} /\ decision'[q] # "none"
  BY <1>1 DEF Propose, BecomesOverdue, Reject, DecideOverdue, Approve
<1>2. CASE ~\E p \in Proposals :
             \/ Propose(p) \/ BecomesOverdue(p) \/ Reject(p) \/ DecideOverdue(p)
             \/ \E e \in Execs : Approve(p, e)
  <2>1. decision' = decision
    BY <1>2 DEF Next, ChatStarts, ChatEnds, Crash, Start, Drain, UserEdits, PickUp,
       BindingFails, Binds, ReadFails, ReadReturns, Send, PortRefuses, PortReturns,
       CheckReturns, StrategyThrows, Cancel, ProviderReads, ProviderApplies,
       ProviderRefuses
  <2> QED
    BY <2>1
<1> QED
  BY <1>1, <1>2

-----------------------------------------------------------------------------
(* Types are kept, group by group.                                          *)

(* The columns of an execution and of its Run hold declared values.         *)
LEMMA RowColumnsTyped ==
  ASSUME IInv, RowEffect
  PROVE  /\ proposalOf' \in [Execs -> Proposals \union {None}]
         /\ run' \in [Execs -> {"none", "queued", "running"} \union TERMINAL_STATUSES]
         /\ stage' \in [Execs -> {"none", "queued", "preflight", "executing"}
                                  \union TERMINAL_EXECUTION_STATUSES]
         /\ marker' \subseteq Execs
         /\ consumed' \subseteq Execs
         /\ receipt' \in [Execs -> {"none"} \union TERMINAL_EXECUTION_STATUSES]
<1> USE DEF IInv, TypeOK, TERMINAL_STATUSES, TERMINAL_EXECUTION_STATUSES
<1>1. CASE RowsKept
  BY <1>1 DEF RowsKept
<1>3. CASE \E p \in Proposals, e \in Execs : Inserted(p, e)
  BY <1>3 DEF Inserted
<1>4. CASE \E e \in Execs : Started(e) \/ Opened(e)
  BY ZenonT(60), <1>4 DEF Started, Opened
<1>5. CASE \E e \in Execs, outcome \in TERMINAL_EXECUTION_STATUSES,
              runStatus \in TERMINAL_STATUSES : Settled(e, outcome, runStatus)
  BY <1>5 DEF Settled
<1>6. CASE \E S \in SUBSET Execs : Abandoned(S)
  BY <1>6 DEF Abandoned
<1> QED
  BY <1>1, <1>3, <1>4, <1>5, <1>6 DEF RowEffect

(* The operations that write to a journal.                                  *)
JournalWriter ==
  \/ journal' = journal
  \/ \E p \in Proposals, e \in Execs : Approve(p, e)
  \/ \E S \in SUBSET Execs : (\A e \in S : run[e] = "running") /\ Abandon(S)
  \/ \E e \in Execs :
       \/ PickUp(e) \/ Cancel(e) \/ Gate(e)
       \/ PreflightFailed(e) \/ PreflightBlocked(e)
       \/ \E outcome \in TERMINAL_EXECUTION_STATUSES : Finish(e, outcome)

(* No other step touches a journal.                                         *)
LEMMA JournalStep ==
  ASSUME Next
  PROVE  JournalWriter
<1> USE DEF JournalWriter, Outside, rowVars
<1>1. CASE Start \/ Drain
  <2>1. Abandon({e \in Execs : run[e] = "running"})
    BY <1>1 DEF Start, Drain, Sweep
  <2> QED
    BY <2>1
<1>2. CASE \E e \in Execs : StrategyThrows(e)
  <2>1. PICK e \in Execs : UNCHANGED rowVars \/ (run[e] = "running" /\ Abandon({e}))
    BY <1>2 DEF StrategyThrows
  <2> QED
    BY <2>1
<1>3. CASE ~(Start \/ Drain \/ \E e \in Execs : StrategyThrows(e))
  BY <1>3 DEF Next, ChatStarts, ChatEnds, Crash, UserEdits, Propose, BecomesOverdue, Reject,
     DecideOverdue, BindingFails, Binds, ReadFails, ReadReturns, Send, PortRefuses, PortReturns,
     CheckReturns, ProviderReads, ProviderApplies, ProviderRefuses, TERMINAL_EXECUTION_STATUSES
<1> QED
  BY <1>1, <1>2, <1>3

(* A terminal transaction appends known events.                             *)
LEMMA JournalTyped ==
  ASSUME TypeOK, Next
  PROVE  journal' \in [Execs -> Seq(EventType)]
<1> DEFINE Grows(e) == \E log \in Seq(EventType) : journal' = [journal EXCEPT ![e] = @ \o log]
<1> USE DEF TypeOK, Outside, rowVars
<1>1. ASSUME NEW e \in Execs, Grows(e)
      PROVE  journal' \in [Execs -> Seq(EventType)]
  BY <1>1
<1>2. ASSUME NEW S \in SUBSET Execs, Abandon(S)
      PROVE  journal' \in [Execs -> Seq(EventType)]
  <2>1. <<"action.execution_finished", "run.abandoned">> \in Seq(EventType)
    BY DEF EventType
  <2>2. \A e \in Execs :
          journal[e] \o <<"action.execution_finished", "run.abandoned">> \in Seq(EventType)
    BY <2>1
  <2> QED
    BY <1>2, <2>2 DEF Abandon
<1>3. ASSUME NEW e \in Execs, PreflightFailed(e) \/ PreflightBlocked(e)
      PROVE  Grows(e) \/ journal' = journal
  <2>1. /\ <<"action.preflight_failed", "run.failed">> \in Seq(EventType)
        /\ <<"action.preflight_blocked", "action.execution_finished", "run.completed">>
              \in Seq(EventType)
    BY DEF EventType
  <2> QED
    BY <1>3, <2>1 DEF PreflightFailed, PreflightBlocked, Settle
<1>4. ASSUME NEW e \in Execs, NEW outcome, Finish(e, outcome)
      PROVE  Grows(e) \/ journal' = journal
  <2> DEFINE last == IF outcome \in {"failed", "unknown"} THEN "run.failed" ELSE "run.completed"
  <2>1. <<"action.execution_finished", last>> \in Seq(EventType)
    BY DEF EventType
  <2> QED
    BY <1>4, <2>1 DEF Finish, Settle
<1>5. ASSUME NEW e \in Execs, Gate(e)
      PROVE  journal' \in [Execs -> Seq(EventType)]
  <2>1. "action.execution_started" \in EventType
    BY DEF EventType
  <2>2. \A f \in Execs : Append(journal[f], "action.execution_started") \in Seq(EventType)
    BY <2>1
  <2> QED
    BY <1>5, <2>2 DEF Gate
<1>6. ASSUME NEW e \in Execs, PickUp(e) \/ Cancel(e)
      PROVE  Grows(e)
  <2>1. /\ <<"run.started", "action.preflight_started">> \in Seq(EventType)
        /\ <<"action.execution_finished", "run.cancelled">> \in Seq(EventType)
    BY DEF EventType
  <2> QED
    BY <1>6, <2>1 DEF PickUp, Cancel, Settle
<1>7. ASSUME NEW p \in Proposals, NEW e \in Execs, Approve(p, e)
      PROVE  journal' \in [Execs -> Seq(EventType)]
  <2>1. <<"run.queued", "action.approved">> \in Seq(EventType)
    BY DEF EventType
  <2> QED
    BY <1>7, <2>1 DEF Approve
<1>8. JournalWriter
  BY JournalStep
<1> QED
  BY <1>1, <1>2, <1>3, <1>4, <1>5, <1>6, <1>7, <1>8 DEF JournalWriter

(* Decisions, the process and the bounds.                                   *)
LEMMA RestTyped ==
  ASSUME IInv, Next
  PROVE  /\ decision' \in [Proposals -> {"none", "pending", "approved", "rejected", "expired"}]
         /\ overdue' \subseteq Proposals
         /\ expected' \in [Proposals -> Nat]
         /\ chat' \in BOOLEAN
         /\ phase' \in {"up", "stopped", "down"}
         /\ faults' \in Nat
         /\ restarts' \in Nat
<1> USE DEF IInv, TypeOK, Outside, decisionVars, boundVars, Event
<1>1. CASE \E p \in Proposals : Propose(p)
  <2>1. PICK p \in Proposals : Propose(p)
    BY <1>1
  <2>2. decision' \in [Proposals -> {"none", "pending", "approved", "rejected", "expired"}]
    BY <2>1 DEF Propose
  <2>3. expected' \in [Proposals -> Nat]
    <3>1. event.rev \in Nat
      OBVIOUS
    <3>2. PICK rev \in 0 .. event.rev : expected' = [expected EXCEPT ![p] = rev]
      BY <2>1 DEF Propose
    <3> QED
      BY <3>1, <3>2
  <2> QED
    BY <2>1, <2>2, <2>3 DEF Propose
<1>2. CASE \E p \in Proposals :
             \/ BecomesOverdue(p) \/ Reject(p) \/ DecideOverdue(p)
             \/ \E e \in Execs : Approve(p, e)
  BY ZenonT(60), <1>2 DEF BecomesOverdue, Reject, DecideOverdue, Approve
<1>4. CASE ChatStarts \/ ChatEnds \/ UserEdits
  BY <1>4 DEF ChatStarts, ChatEnds, UserEdits
<1>5. CASE Crash \/ Start \/ Drain
  BY <1>5 DEF Crash, Start, Drain
<1>3. CASE \E e \in Execs :
             \/ PickUp(e) \/ BindingFails(e) \/ Binds(e) \/ ReadFails(e) \/ ReadReturns(e)
             \/ Send(e) \/ PortRefuses(e) \/ PortReturns(e) \/ CheckReturns(e)
             \/ StrategyThrows(e) \/ Cancel(e)
             \/ ProviderReads(e) \/ ProviderApplies(e) \/ ProviderRefuses(e)
  BY <1>3 DEF PickUp, BindingFails, Binds, ReadFails, ReadReturns, Send, PortRefuses,
     PortReturns, CheckReturns, StrategyThrows, Cancel, ProviderReads, ProviderApplies,
     ProviderRefuses
<1> QED
  BY <1>1, <1>2, <1>3, <1>4, <1>5 DEF Next

(* How a step moves the strategy and the provider.                          *)
WireKept == UNCHANGED <<event, wire, calls>>

PcMoves(e, point) == pc' = [pc EXCEPT ![e] = point] /\ sample' = [sample EXCEPT ![e] = None]

OutsideEffect ==
  \/ UNCHANGED <<pc, sample>> /\ WireKept
  \/ /\ pc' = [e \in Execs |-> "idle"] /\ sample' = [e \in Execs |-> None] /\ WireKept
     /\ RowsKept
  \/ \E e \in Execs : PcMoves(e, "idle") /\ WireKept
  \/ \E e \in Execs : Started(e) /\ PcMoves(e, "picked") /\ WireKept
  \/ \E e \in Execs : Opened(e) /\ PcMoves(e, "granted") /\ WireKept
  \/ \E e \in Execs : pc[e] = "picked" /\ PcMoves(e, "reading") /\ RowsKept /\ WireKept
  \/ \E e \in Execs : /\ pc[e] = "writing" /\ wire[e] = "applied"
                      /\ PcMoves(e, "checking") /\ RowsKept /\ WireKept
  \/ \E e \in Execs : Send(e)
  \/ \E e \in Execs : ProviderReads(e) \/ ProviderApplies(e) \/ ProviderRefuses(e)
  \/ UserEdits

(* Every step moves strategies and requests in one of these ways.           *)
LEMMA OutsideStep ==
  ASSUME Next
  PROVE  OutsideEffect
<1> USE DEF Outside, WireKept, PcMoves, RowsKept, rowVars, providerVars
<1>1. CASE ChatStarts \/ ChatEnds \/ Start \/ Drain
  BY <1>1 DEF ChatStarts, ChatEnds, Start, Drain, OutsideEffect
<1>2. CASE Crash
  BY <1>2 DEF Crash, OutsideEffect
<1>3. CASE \E p \in Proposals : \/ Propose(p) \/ BecomesOverdue(p) \/ Reject(p) \/ DecideOverdue(p)
                                \/ \E e \in Execs : Approve(p, e)
  BY <1>3 DEF Propose, BecomesOverdue, Reject, DecideOverdue, Approve, OutsideEffect
<1>4. ASSUME NEW e \in Execs, Gate(e)
      PROVE  OutsideEffect
  BY <1>4, GateEffect DEF Gate, Ends, Waits, OutsideEffect, Opened
<1>5. ASSUME NEW e \in Execs, PickUp(e)
      PROVE  OutsideEffect
  BY <1>5 DEF PickUp, Started, Waits, OutsideEffect
<1>6. ASSUME NEW e \in Execs,
             \/ BindingFails(e) \/ ReadFails(e) \/ PortRefuses(e) \/ CheckReturns(e)
             \/ StrategyThrows(e) \/ Cancel(e)
      PROVE  OutsideEffect
  BY <1>6 DEF BindingFails, ReadFails, PortRefuses, CheckReturns, StrategyThrows, Cancel,
     Ends, OutsideEffect
<1>7. ASSUME NEW e \in Execs, Binds(e)
      PROVE  OutsideEffect
  BY <1>7, <1>4 DEF Binds, Ends, Waits, OutsideEffect
<1>8. ASSUME NEW e \in Execs, ReadReturns(e)
      PROVE  OutsideEffect
  BY <1>8, <1>4 DEF ReadReturns, Ends, OutsideEffect
<1>9. ASSUME NEW e \in Execs, PortReturns(e)
      PROVE  OutsideEffect
  BY <1>9 DEF PortReturns, Ends, Waits, OutsideEffect
<1> QED
  BY <1>1, <1>2, <1>3, <1>5, <1>6, <1>7, <1>8, <1>9 DEF Next, OutsideEffect

(* Strategies, requests and the provider's event keep their types.          *)
LEMMA ProviderTyped ==
  ASSUME IInv, OutsideEffect
  PROVE  /\ pc' \in [Execs -> {"idle", "picked", "reading", "granted", "writing", "checking"}]
         /\ event' \in Event
         /\ sample' \in [Execs -> Event \union {None}]
         /\ wire' \in [Execs -> {"none", "sent", "applied", "refused"}]
         /\ calls' \in [Proposals -> Nat]
<1> USE DEF IInv, TypeOK, WireKept, PcMoves
<1>1. CASE \E e \in Execs : Send(e)
  <2>1. PICK e \in Execs : Send(e)
    BY <1>1
  <2>2. proposalOf[e] \in Proposals
    <3>1. Linked(e) /\ pc[e] = "granted"
      BY <2>1 DEF Send
    <3> QED
      BY <3>1 DEF Linked
  <2>3. calls' \in [Proposals -> Nat]
    BY <2>1, <2>2 DEF Send
  <2> QED
    BY <2>1, <2>3 DEF Send
<1>2. CASE \E e \in Execs : ProviderReads(e) \/ ProviderRefuses(e)
  BY ZenonT(60), <1>2 DEF ProviderReads, ProviderRefuses
<1>3. ASSUME NEW e \in Execs, ProviderApplies(e)
      PROVE  wire' \in [Execs -> {"none", "sent", "applied", "refused"}] /\ event' \in Event
  <2>1. event.rev \in Nat /\ event.deleted \in BOOLEAN /\ event.holder \in Proposals \union {None}
    BY DEF Event
  <2>2. proposalOf[e] \in Proposals \union {None}
    OBVIOUS
  <2>3. [rev |-> event.rev + 1, holder |-> proposalOf[e], deleted |-> FALSE] \in Event
    BY <2>1, <2>2 DEF Event
  <2> QED
    BY <1>3, <2>3 DEF ProviderApplies
<1>4. CASE \E e \in Execs : ProviderApplies(e)
  BY <1>3, <1>4 DEF ProviderApplies
<1>5. CASE UserEdits
  <2>1. event.rev + 1 \in Nat /\ event.holder \in Proposals \union {None}
    BY DEF Event
  <2>2. PICK gone \in BOOLEAN, holder \in {None, event.holder} :
          event' = [rev |-> event.rev + 1, holder |-> holder, deleted |-> gone]
    BY <1>5 DEF UserEdits
  <2>3. event' \in Event
    BY <2>1, <2>2 DEF Event
  <2> QED
    BY <1>5, <2>3 DEF UserEdits
<1>6. CASE ~\/ UserEdits
            \/ \E e \in Execs : \/ Send(e) \/ ProviderReads(e)
                                \/ ProviderRefuses(e) \/ ProviderApplies(e)
  BY <1>6 DEF OutsideEffect
<1> QED
  BY <1>1, <1>2, <1>4, <1>5, <1>6

(* Every step keeps the types.                                              *)
LEMMA TypeStep ==
  ASSUME IInv, Next
  PROVE  TypeOK'
BY RowStep, RowColumnsTyped, JournalTyped, RestTyped, OutsideStep, ProviderTyped
   DEF TypeOK, IInv
-----------------------------------------------------------------------------
(* An approval inserts the only execution of its proposal.                  *)

(* Rows: an execution never changes its proposal, and no step removes one.  *)
LEMMA LinkStep ==
  ASSUME IInv, Next, NEW e \in Execs
  PROVE  /\ stage[e] # "none" => stage'[e] # "none" /\ proposalOf'[e] = proposalOf[e]
         /\ stage'[e] = "none" => proposalOf'[e] = None
         /\ stage'[e] # "none" => /\ proposalOf'[e] \in Proposals
                                  /\ decision'[proposalOf'[e]] = "approved"
<1> USE DEF TERMINAL_EXECUTION_STATUSES
<1>1. Linked(e) /\ TypeOK
  BY DEF IInv
<1>2. \A p \in Proposals : decision[p] = "approved" => decision'[p] = "approved"
  BY <1>1, DecisionStep
<1>3. RowEffect
  BY RowStep
<1>4. CASE RowsKept
  BY <1>1, <1>2, <1>4 DEF RowsKept, Linked
<1>5. CASE \E p \in Proposals, f \in Execs : Inserted(p, f)
  BY <1>1, <1>2, <1>5 DEF Inserted, Linked, TypeOK
<1>6. CASE \E f \in Execs : Started(f) \/ Opened(f)
  BY <1>1, <1>2, <1>6 DEF Started, Opened, Is, Preflighting, Linked, TypeOK
<1>7. ASSUME NEW f \in Execs, NEW outcome \in TERMINAL_EXECUTION_STATUSES,
             NEW runStatus \in TERMINAL_STATUSES,
             Ending(f, outcome, runStatus), Settled(f, outcome, runStatus)
      PROVE  /\ stage[f] # "none"
             /\ stage' = [stage EXCEPT ![f] = outcome]
             /\ proposalOf' = proposalOf
  BY <1>7 DEF Ending, Settled, Is, Preflighting
<1>8. ASSUME NEW S \in SUBSET Execs, Abandoned(S)
      PROVE  /\ e \in S => stage[e] # "none" /\ stage'[e] # "none"
             /\ e \notin S => stage'[e] = stage[e]
             /\ proposalOf' = proposalOf
  <2>1. Recoverable(e)
    BY DEF IInv, RowsAgree
  <2> QED
    BY <1>8, <2>1 DEF Abandoned, Recoverable, Is, TERMINAL_STATUSES
<1>9. CASE \E f \in Execs, outcome \in TERMINAL_EXECUTION_STATUSES,
              runStatus \in TERMINAL_STATUSES :
             Ending(f, outcome, runStatus) /\ Settled(f, outcome, runStatus)
  BY <1>1, <1>2, <1>7, <1>9 DEF Linked, TypeOK
<1>10. CASE \E S \in SUBSET Execs : Abandoned(S)
  BY <1>1, <1>2, <1>8, <1>10 DEF Linked
<1> QED
  BY <1>3, <1>4, <1>5, <1>6, <1>9, <1>10 DEF RowEffect

(* A strategy runs only for an execution that exists.                       *)
LEMMA LinkedStep ==
  ASSUME IInv, Next, NEW e \in Execs
  PROVE  Linked(e)'
<1>1. TypeOK /\ Linked(e) /\ OutsideEffect
  BY OutsideStep DEF IInv
<1>2. stage'[e] = "none" => pc'[e] = "idle"
  <2> SUFFICES ASSUME stage'[e] = "none" PROVE pc'[e] = "idle"
    OBVIOUS
  <2>1. stage[e] = "none" /\ pc[e] = "idle"
    BY <1>1, LinkStep DEF Linked
  <2>2. ASSUME NEW f \in Execs, Started(f) \/ Opened(f)
        PROVE  f # e
    BY <1>1, <2>1, <2>2 DEF Started, Opened, Is, Preflighting
  <2> QED
    BY <1>1, <2>1, <2>2 DEF OutsideEffect, PcMoves, TypeOK, Send, ProviderReads, ProviderApplies,
       ProviderRefuses, UserEdits
<1> QED
  BY <1>2, LinkStep DEF Linked

(* The approved row stops a second approval.                                *)
LEMMA OneExecStep ==
  ASSUME IInv, Next
  PROVE  OneExecPerProposal'
<1>1. TypeOK /\ OneExecPerProposal /\ \A f \in Execs : Linked(f)
  BY DEF IInv
<1>2. CASE proposalOf' = proposalOf
  BY <1>1, <1>2 DEF OneExecPerProposal
<1>3. CASE \E p \in Proposals, e \in Execs : Inserted(p, e)
  <2>1. PICK p \in Proposals, e \in Execs : Inserted(p, e)
    BY <1>3
  <2>2. \A f \in Execs : proposalOf[f] # p
    BY <1>1, <2>1, ActionAssumption DEF Inserted, Linked
  <2>3. \A f \in Execs : proposalOf'[f] = IF f = e THEN p ELSE proposalOf[f]
    BY <1>1, <2>1 DEF Inserted, TypeOK
  <2> QED
    BY <1>1, <2>2, <2>3 DEF OneExecPerProposal
<1> QED
  BY <1>2, <1>3, RowStep DEF RowEffect, RowsKept, Started, Opened, Settled, Abandoned

(* No step makes a pair that recovery refuses.                              *)
LEMMA RowsAgreeStep ==
  ASSUME IInv, Next, NEW e \in Execs
  PROVE  RowsAgree(e)'
<1> USE DEF TERMINAL_EXECUTION_STATUSES, TERMINAL_STATUSES
<1>1. TypeOK /\ RowsAgree(e) /\ RowEffect
  BY RowStep DEF IInv
<1>2. CASE RowsKept
  BY <1>1, <1>2 DEF RowsKept, RowsAgree, Recoverable, Is
<1>3. CASE \E p \in Proposals, f \in Execs : Inserted(p, f)
  BY <1>1, <1>3 DEF Inserted, RowsAgree, Recoverable, Is, TypeOK
<1>4. CASE \E f \in Execs : Started(f)
  BY <1>1, <1>4 DEF Started, RowsAgree, Recoverable, Is, TypeOK
<1>5. CASE \E f \in Execs : Opened(f)
  <2>1. PICK f \in Execs : Opened(f)
    BY <1>5
  <2>2. /\ stage'[e] = IF e = f THEN "executing" ELSE stage[e]
        /\ receipt'[e] = receipt[e] /\ run'[e] = run[e]
        /\ e \in marker' <=> e \in marker \/ e = f
        /\ e \in consumed' <=> e \in consumed \/ e = f
    BY <1>1, <2>1 DEF Opened, TypeOK
  <2>3. CASE e # f
    BY <1>1, <2>2, <2>3 DEF RowsAgree, Recoverable, Is
  <2>4. CASE e = f
    BY <1>1, <2>1, <2>2, <2>4 DEF Opened, Preflighting, RowsAgree, Recoverable, Is
  <2> QED
    BY <2>3, <2>4
<1>6. ASSUME NEW f \in Execs, NEW outcome \in TERMINAL_EXECUTION_STATUSES,
             NEW runStatus \in TERMINAL_STATUSES,
             Ending(f, outcome, runStatus), Settled(f, outcome, runStatus)
      PROVE  RowsAgree(e)'
  <2>1. /\ stage'[e] = IF e = f THEN outcome ELSE stage[e]
        /\ receipt'[e] = IF e = f THEN outcome ELSE receipt[e]
        /\ run'[e] = IF e = f THEN runStatus ELSE run[e]
        /\ marker' = marker /\ consumed' = consumed
    BY <1>1, <1>6 DEF Settled, TypeOK
  <2>2. CASE e # f
    BY <1>1, <2>1, <2>2 DEF RowsAgree, Recoverable, Is
  <2>3. CASE e = f
    BY <1>1, <1>6, <2>1, <2>3 DEF Ending, Preflighting, RowsAgree, Recoverable, Is
  <2> QED
    BY <2>2, <2>3
<1>7. ASSUME NEW S \in SUBSET Execs, Abandoned(S)
      PROVE  RowsAgree(e)'
  <2>1. /\ stage'[e] = IF e \in S THEN (IF e \in marker THEN "unknown" ELSE "failed") ELSE stage[e]
        /\ receipt'[e] = IF e \in S THEN (IF e \in marker THEN "unknown" ELSE "failed")
                         ELSE receipt[e]
        /\ run'[e] = IF e \in S THEN "abandoned" ELSE run[e]
        /\ marker' = marker /\ consumed' = consumed
    BY <1>7 DEF Abandoned
  <2>2. CASE e \notin S
    BY <1>1, <2>1, <2>2 DEF RowsAgree, Recoverable, Is
  <2>3. CASE e \in S
    BY <1>1, <1>7, <2>1, <2>3 DEF Abandoned, RowsAgree, Recoverable, Is
  <2> QED
    BY <2>2, <2>3
<1> QED
  BY <1>1, <1>2, <1>3, <1>4, <1>5, <1>6, <1>7 DEF RowEffect
-----------------------------------------------------------------------------
(* The strategy and the wire.                                               *)

(* The moves of one strategy and of its request.                            *)
StrategyMove(e) ==
  \/ pc'[e] \in {pc[e], "idle"} /\ wire'[e] = wire[e]
  \/ Started(e) /\ pc'[e] = "picked" /\ wire'[e] = wire[e]
  \/ Opened(e) /\ pc'[e] = "granted" /\ wire'[e] = wire[e]
  \/ pc[e] = "picked" /\ pc'[e] = "reading" /\ RowsKept /\ wire'[e] = wire[e]
  \/ /\ pc[e] = "writing" /\ pc'[e] = "checking" /\ RowsKept
     /\ wire[e] = "applied" /\ wire'[e] = wire[e]
  \/ pc[e] = "granted" /\ pc'[e] = "writing" /\ RowsKept /\ wire'[e] = "sent"
  \/ pc'[e] = pc[e] /\ RowsKept /\ wire[e] = "sent" /\ wire'[e] \in {"applied", "refused"}

(* Every step is one of these for every execution.                          *)
LEMMA StrategyStep ==
  ASSUME IInv, Next, NEW e \in Execs
  PROVE  StrategyMove(e)
<1>1. TypeOK /\ OutsideEffect
  BY OutsideStep DEF IInv
<1>2. CASE \E f \in Execs : Send(f) \/ ProviderReads(f) \/ ProviderApplies(f) \/ ProviderRefuses(f)
  BY <1>1, <1>2 DEF Send, ProviderReads, ProviderApplies, ProviderRefuses, TypeOK, StrategyMove,
     RowsKept, rowVars
<1>3. CASE UserEdits
  BY <1>3 DEF UserEdits, StrategyMove
<1>4. CASE ~\/ UserEdits
            \/ \E f \in Execs : \/ Send(f) \/ ProviderReads(f)
                                \/ ProviderApplies(f) \/ ProviderRefuses(f)
  BY <1>1, <1>4 DEF OutsideEffect, PcMoves, WireKept, TypeOK, StrategyMove
<1> QED
  BY <1>2, <1>3, <1>4

(* The marker is set at the gate and never cleared; a Run leaves its queue  *)
(* before its strategy starts.                                              *)
LEMMA MarkerStep ==
  ASSUME IInv, Next, NEW e \in Execs
  PROVE  /\ e \in marker => e \in marker'
         /\ e \in marker' => e \in marker \/ (Opened(e) /\ pc'[e] = "granted")
         /\ run'[e] \in {"none", "queued"} => pc[e] = "idle" /\ ~Started(e) /\ ~Opened(e)
<1>1. TypeOK /\ Linked(e) /\ Placed(e) /\ RowEffect
  BY RowStep DEF IInv
<1>2. CASE RowsKept
  BY <1>1, <1>2 DEF RowsKept, Placed, Started, Opened, Is, Preflighting, TypeOK
<1>3. CASE \E p \in Proposals, f \in Execs : Inserted(p, f)
  BY <1>1, <1>3 DEF Inserted, Linked, Placed, Started, Opened, Is, Preflighting, TypeOK
<1>4. CASE \E f \in Execs : Started(f) \/ Opened(f)
  BY <1>1, <1>4 DEF Placed, Started, Opened, Is, Preflighting, TypeOK
<1>5. CASE \E f \in Execs, outcome \in TERMINAL_EXECUTION_STATUSES,
              runStatus \in TERMINAL_STATUSES : Settled(f, outcome, runStatus)
  BY <1>1, <1>5 DEF Settled, Placed, Started, Opened, Is, Preflighting, TypeOK, TERMINAL_STATUSES
<1>6. CASE \E S \in SUBSET Execs : Abandoned(S)
  BY <1>1, <1>6 DEF Abandoned, Placed, Started, Opened, Is, Preflighting, TypeOK
<1> QED
  BY <1>1, <1>2, <1>3, <1>4, <1>5, <1>6 DEF RowEffect

(* A strategy past the gate holds the marker and its request is where the   *)
(* strategy thinks it is.                                                   *)
LEMMA PlacedStep ==
  ASSUME IInv, Next, NEW e \in Execs
  PROVE  Placed(e)'
<1>1. TypeOK /\ RowsAgree(e) /\ Placed(e) /\ StrategyMove(e)
  BY StrategyStep DEF IInv
<1>2. pc'[e] # "idle" => run'[e] \notin {"none", "queued"}
  BY <1>1, MarkerStep DEF StrategyMove
<1>3. Started(e) => e \notin marker
  BY <1>1 DEF Started, Is, RowsAgree, Recoverable, TERMINAL_STATUSES
<1>4. Opened(e) => e \notin marker /\ e \in marker'
  BY DEF Opened, Preflighting
<1>5. e \notin marker => wire[e] = "none"
  BY <1>1 DEF Placed
<1>6. pc'[e] \in {"picked", "reading"} => e \notin marker'
  BY <1>1, <1>3, MarkerStep DEF StrategyMove, Placed
<1>7. pc'[e] = "granted" => e \in marker' /\ wire'[e] = "none"
  BY <1>1, <1>4, <1>5, MarkerStep DEF StrategyMove, Placed
<1>8. pc'[e] = "writing" => e \in marker' /\ wire'[e] # "none"
  BY <1>1, MarkerStep DEF StrategyMove, Placed
<1>9. pc'[e] = "checking" => e \in marker' /\ wire'[e] = "applied"
  BY <1>1, MarkerStep DEF StrategyMove, Placed
<1>10. wire'[e] # "none" => e \in marker'
  BY <1>1, MarkerStep DEF StrategyMove, Placed
<1> QED
  BY <1>2, <1>6, <1>7, <1>8, <1>9, <1>10 DEF Placed

(* The count of a proposal follows the request of its only execution.       *)
LEMMA CountedStep ==
  ASSUME IInv, Next
  PROVE  Counted'
<1>1. /\ TypeOK /\ OneExecPerProposal /\ Counted
      /\ \A e \in Execs : Linked(e) /\ RowsAgree(e) /\ Placed(e)
  BY DEF IInv
<1>2. \A e \in Execs : proposalOf[e] # None => proposalOf'[e] = proposalOf[e]
  BY <1>1, LinkStep DEF Linked
<1>3. CASE \E e \in Execs : Send(e)
  <2>1. PICK e \in Execs : Send(e)
    BY <1>3
  <2>2. /\ stage[e] # "none" /\ wire[e] = "none" /\ proposalOf[e] \in Proposals
        /\ calls[proposalOf[e]] = 0
    BY <1>1, <2>1 DEF Send, Linked, Placed, Counted
  <2>3. /\ \A p \in Proposals : calls'[p] = IF p = proposalOf[e] THEN 1 ELSE calls[p]
        /\ \A f \in Execs : wire'[f] = IF f = e THEN "sent" ELSE wire[f]
        /\ stage' = stage /\ proposalOf' = proposalOf
    BY <1>1, <2>1, <2>2 DEF Send, TypeOK, rowVars
  <2>4. \A f \in Execs : f # e /\ stage[f] # "none" =>
          proposalOf[f] \in Proposals /\ proposalOf[f] # proposalOf[e]
    BY <1>1, <2>2, ActionAssumption DEF Linked, OneExecPerProposal
  <2> QED
    BY <1>1, <2>2, <2>3, <2>4 DEF Counted
<1>4. CASE ~\E e \in Execs : Send(e)
  <2>1. calls' = calls
    BY <1>4, OutsideStep DEF OutsideEffect, WireKept, ProviderReads, ProviderApplies,
       ProviderRefuses, UserEdits
  <2>2. \A e \in Execs : stage[e] # "none" => (wire'[e] = "none" <=> wire[e] = "none")
    <3>1. \A e \in Execs : wire'[e] = wire[e] \/ (wire[e] = "sent" /\ wire'[e] # "none")
      BY <1>1, <1>4, OutsideStep DEF OutsideEffect, WireKept, ProviderReads, ProviderApplies,
         ProviderRefuses, UserEdits, TypeOK
    <3> QED
      BY <3>1
  <2>3. ASSUME NEW e \in Execs, stage[e] = "none", stage'[e] # "none"
        PROVE  calls[proposalOf'[e]] = 0 /\ wire'[e] = "none"
    <3>1. proposalOf'[e] \in Proposals /\ proposalOf[e] = None
      BY <1>1, <2>3, LinkStep DEF Linked
    <3>2. \A f \in Execs : proposalOf[f] # proposalOf'[e]
      <4>1. OneExecPerProposal'
        BY OneExecStep
      <4>2. SUFFICES ASSUME NEW f \in Execs, proposalOf[f] = proposalOf'[e] PROVE FALSE
        OBVIOUS
      <4>3. proposalOf[f] # None /\ f # e
        BY <3>1, <4>2, ActionAssumption
      <4>4. proposalOf'[f] = proposalOf'[e] /\ proposalOf'[f] # None
        BY <1>2, <4>2, <4>3
      <4> QED
        BY <4>1, <4>3, <4>4 DEF OneExecPerProposal
    <3>3. wire[e] = "none" /\ pc[e] = "idle"
      BY <1>1, <2>3 DEF RowsAgree, Placed, Linked
    <3>4. wire'[e] = "none"
      BY <3>3, StrategyStep DEF StrategyMove
    <3> QED
      BY <1>1, <3>1, <3>2, <3>4 DEF Counted
  <2>4. \A e \in Execs : stage[e] # "none" => proposalOf'[e] = proposalOf[e]
    BY LinkStep
  <2>5. \A p \in Proposals : (\A e \in Execs : proposalOf'[e] # p) => calls[p] = 0
    BY <1>1, <1>2, ActionAssumption DEF Counted
  <2> QED
    BY <1>1, <2>1, <2>2, <2>3, <2>4, <2>5 DEF Counted
<1> QED
  BY <1>3, <1>4
-----------------------------------------------------------------------------
(* Receipts.                                                                *)

(* What a step that writes the receipt of e knows about its request.        *)
Reported(e) ==
  /\ receipt[e] = "none"
  /\ stage[e] # "none"
  /\ UNCHANGED <<decision, proposalOf, wire, calls>>
  /\ receipt'[e] \in {"succeeded", "succeeded_unverified"} => wire[e] = "applied"
  /\ receipt'[e] = "failed" => wire[e] \in {"none", "refused"} /\ pc'[e] # "granted"
  /\ receipt'[e] = "blocked_stale" => wire[e] = "none" /\ pc'[e] # "granted"

(* A step that writes a receipt has the evidence for it.                    *)
LEMMA ReceiptStep ==
  ASSUME IInv, Next, NEW e \in Execs
  PROVE  receipt'[e] = receipt[e] \/ Reported(e)
<1> USE DEF rowVars, Outside, decisionVars, providerVars
<1>1. TypeOK /\ Linked(e) /\ RowsAgree(e) /\ Placed(e)
  BY DEF IInv
<1>2. e \notin marker => wire[e] = "none" /\ pc[e] # "granted"
  BY <1>1 DEF Placed
<1>3. run[e] \in {"queued", "running"} => receipt[e] = "none" /\ stage[e] # "none"
  BY <1>1 DEF RowsAgree, Recoverable, Is, TERMINAL_STATUSES
<1>4. ASSUME Start \/ Drain
      PROVE  receipt'[e] = receipt[e] \/ Reported(e)
  <2>1. /\ Abandon({f \in Execs : run[f] = "running"})
        /\ UNCHANGED <<decision, pc, wire, calls>>
    BY <1>4 DEF Start, Drain, Sweep
  <2> QED
    BY <1>2, <1>3, <2>1 DEF Abandon, Reported
<1>5. ASSUME NEW f \in Execs, StrategyThrows(f)
      PROVE  receipt'[e] = receipt[e] \/ Reported(e)
  <2>1. UNCHANGED rowVars \/ (run[f] = "running" /\ Abandon({f}))
    BY <1>5 DEF StrategyThrows
  <2>2. pc'[e] \in {pc[e], "idle"} /\ UNCHANGED <<decision, wire, calls>>
    BY <1>1, <1>5 DEF StrategyThrows, Ends, TypeOK
  <2> QED
    BY <1>2, <1>3, <2>1, <2>2 DEF Abandon, Reported
<1>6. ASSUME NEW f \in Execs, Cancel(f)
      PROVE  receipt'[e] = receipt[e] \/ Reported(e)
  BY <1>1, <1>2, <1>3, <1>6 DEF Cancel, Settle, Reported, TypeOK
<1>7. ASSUME NEW f \in Execs, PreflightFailed(f) \/ PreflightBlocked(f), Ends(f), UNCHANGED decision
      PROVE  receipt'[e] = receipt[e] \/ Reported(e)
  <2>1. pc'[e] \in {pc[e], "idle"} /\ UNCHANGED <<wire, calls>>
    BY <1>1, <1>7 DEF Ends, TypeOK
  <2> QED
    BY <1>1, <1>2, <1>3, <1>7, <2>1 DEF PreflightFailed, PreflightBlocked, Preflighting, Is, Settle,
       Reported, TypeOK
<1>8. ASSUME NEW f \in Execs, Gate(f)
      PROVE  receipt'[e] = receipt[e]
  BY <1>8 DEF Gate
<1>9. ASSUME NEW f \in Execs, BindingFails(f) \/ Binds(f) \/ ReadFails(f) \/ ReadReturns(f)
      PROVE  receipt'[e] = receipt[e] \/ Reported(e)
  BY <1>7, <1>8, <1>9 DEF BindingFails, Binds, ReadFails, ReadReturns
<1>10. ASSUME NEW f \in Execs, NEW outcome, Finish(f, outcome), Ends(f), UNCHANGED decision,
              outcome \in {"succeeded", "succeeded_unverified"} => wire[f] = "applied",
              outcome = "failed" => wire[f] \in {"none", "refused"},
              outcome # "blocked_stale"
       PROVE  receipt'[e] = receipt[e] \/ Reported(e)
  <2>1. UNCHANGED <<wire, calls>> /\ (e = f => pc'[e] = "idle")
    BY <1>1, <1>10 DEF Ends, TypeOK
  <2>2. CASE ~(Is(f, "running", "executing") /\ f \in marker)
    BY <1>10, <2>2 DEF Finish
  <2>3. CASE Is(f, "running", "executing") /\ f \in marker
    <3>1. receipt' = [receipt EXCEPT ![f] = outcome] /\ proposalOf' = proposalOf
      BY <1>10, <2>3 DEF Finish, Settle
    <3> QED
      BY <1>1, <1>3, <1>10, <2>1, <2>3, <3>1 DEF Is, Reported, TypeOK
  <2> QED
    BY <2>2, <2>3
<1>11. ASSUME NEW f \in Execs, PortRefuses(f) \/ PortReturns(f) \/ CheckReturns(f)
       PROVE  receipt'[e] = receipt[e] \/ Reported(e)
  <2>1. Placed(f)
    BY DEF IInv
  <2>2. CASE UNCHANGED rowVars
    BY <2>2
  <2>3. CASE ~UNCHANGED rowVars
    <3>1. /\ Ends(f) /\ UNCHANGED decision
          /\ \E outcome \in {"succeeded", "succeeded_unverified", "failed", "unknown"} :
               /\ Finish(f, outcome)
               /\ outcome \in {"succeeded", "succeeded_unverified"} => wire[f] = "applied"
               /\ outcome = "failed" => wire[f] \in {"none", "refused"}
      BY <1>11, <2>1, <2>3 DEF PortRefuses, PortReturns, CheckReturns, Placed
    <3> QED
      BY <3>1, <1>10
  <2> QED
    BY <2>2, <2>3
<1>12. CASE \E f \in Execs : \/ PickUp(f) \/ Send(f)
                             \/ ProviderReads(f) \/ ProviderApplies(f) \/ ProviderRefuses(f)
  BY <1>12 DEF PickUp, Send, ProviderReads, ProviderApplies, ProviderRefuses
<1>13. CASE \E p \in Proposals : \/ Propose(p) \/ BecomesOverdue(p) \/ Reject(p) \/ DecideOverdue(p)
                                 \/ \E f \in Execs : Approve(p, f)
  BY <1>13 DEF Propose, BecomesOverdue, Reject, DecideOverdue, Approve
<1>14. CASE ChatStarts \/ ChatEnds \/ Crash \/ UserEdits
  BY <1>14 DEF ChatStarts, ChatEnds, Crash, UserEdits
<1> QED
  BY <1>4, <1>5, <1>6, <1>9, <1>11, <1>12, <1>13, <1>14 DEF Next

(* Once a receipt is written, neither the strategy nor the provider can     *)
(* make it false.                                                           *)
LEMMA HonestStep ==
  ASSUME IInv, Next
  PROVE  ReceiptIsHonest'
<1> SUFFICES ASSUME NEW e \in Execs
    PROVE /\ receipt'[e] \in {"succeeded", "succeeded_unverified"} => wire'[e] = "applied"
          /\ receipt'[e] = "failed" => wire'[e] \in {"none", "refused"} /\ pc'[e] # "granted"
          /\ receipt'[e] = "blocked_stale" => wire'[e] = "none" /\ pc'[e] # "granted"
  BY DEF ReceiptIsHonest
<1>1. CASE Reported(e)
  BY <1>1 DEF Reported
<1>2. CASE receipt'[e] = receipt[e]
  <2>1. RowsAgree(e) /\ Placed(e) /\ StrategyMove(e)
    BY StrategyStep DEF IInv
  <2>2. Started(e) \/ Opened(e) => receipt[e] = "none"
    BY <2>1 DEF Started, Opened, Preflighting, Is, RowsAgree, TERMINAL_STATUSES
  <2>3. /\ receipt[e] \in {"succeeded", "succeeded_unverified"} => wire[e] = "applied"
        /\ receipt[e] = "failed" => wire[e] \in {"none", "refused"} /\ pc[e] # "granted"
        /\ receipt[e] = "blocked_stale" => wire[e] = "none" /\ pc[e] # "granted"
    BY DEF IInv, ReceiptIsHonest
  <2> QED
    BY <1>2, <2>1, <2>2, <2>3 DEF StrategyMove, Placed
<1> QED
  BY <1>1, <1>2, ReceiptStep
-----------------------------------------------------------------------------
(* The invariant, and what follows from it.                                 *)

(* It holds of the empty database.                                          *)
LEMMA InitIInv == Init => IInv
<1> SUFFICES ASSUME Init PROVE IInv
  OBVIOUS
<1>1. \A e \in Execs : Linked(e) /\ RowsAgree(e) /\ Placed(e)
  BY DEF Init, Linked, RowsAgree, Recoverable, Is, Placed, TERMINAL_STATUSES
<1>2. OneExecPerProposal /\ Counted /\ ReceiptIsHonest
  BY DEF Init, OneExecPerProposal, Counted, ReceiptIsHonest
<1> QED
  BY <1>1, <1>2, InitType DEF IInv

(* Every step keeps it.                                                     *)
LEMMA NextIInv == IInv /\ [Next]_vars => IInv'
<1>1. CASE Next /\ IInv
  BY <1>1, TypeStep, LinkedStep, RowsAgreeStep, PlacedStep, OneExecStep, CountedStep, HonestStep
     DEF IInv
<1>2. CASE UNCHANGED vars /\ IInv
  <2> USE <1>2 DEF vars, decisionVars, rowVars, providerVars, boundVars
  <2>1. TypeOK'
    BY DEF IInv, TypeOK
  <2>2. \A e \in Execs : Linked(e)' /\ RowsAgree(e)' /\ Placed(e)'
    BY DEF IInv, Linked, RowsAgree, Recoverable, Is, Placed
  <2>3. OneExecPerProposal' /\ Counted' /\ ReceiptIsHonest'
    BY DEF IInv, OneExecPerProposal, Counted, ReceiptIsHonest
  <2> QED
    BY <2>1, <2>2, <2>3 DEF IInv
<1> QED
  BY <1>1, <1>2

(* The inductive invariant holds throughout.                                *)
THEOREM Invariance == Spec => []IInv
  BY InitIInv, NextIInv, PTL DEF Spec

(* Rows, strategies and the provider's state keep their types.              *)
THEOREM TypeCorrect == Spec => []TypeOK
<1>1. IInv => TypeOK
  BY DEF IInv
<1> QED
  BY <1>1, Invariance, PTL

(* The write of a proposal leaves the process at most once, for any number  *)
(* of crashes, storage failures and recovery sweeps.                        *)
THEOREM WriteOnce == Spec => []AtMostOneWrite
<1>1. IInv => AtMostOneWrite
  <2> SUFFICES ASSUME IInv, NEW p \in Proposals PROVE calls[p] <= 1
    BY DEF AtMostOneWrite
  <2>1. CASE \A e \in Execs : proposalOf[e] # p
    BY <2>1 DEF IInv, Counted
  <2>2. ASSUME NEW e \in Execs, proposalOf[e] = p PROVE calls[p] <= 1
    <3>1. stage[e] # "none"
      BY <2>2, ActionAssumption DEF IInv, Linked
    <3> QED
      BY <2>2, <3>1 DEF IInv, Counted
  <2> QED
    BY <2>1, <2>2
<1> QED
  BY <1>1, Invariance, PTL

(* A cancelled Run never wrote and never will.                              *)
THEOREM HonestCancel == Spec => []CancelIsHonest
<1>1. IInv => CancelIsHonest
  <2> SUFFICES ASSUME IInv, NEW e \in Execs, run[e] = "cancelled"
               PROVE  /\ wire[e] = "none"
                      /\ calls[proposalOf[e]] = 0
                      /\ pc[e] \in {"idle", "picked", "reading"}
    BY DEF CancelIsHonest
  <2>1. e \notin marker /\ stage[e] # "none"
    BY DEF IInv, RowsAgree, Recoverable, Is, TERMINAL_STATUSES, TERMINAL_EXECUTION_STATUSES
  <2>2. wire[e] = "none"
    BY <2>1 DEF IInv, Placed
  <2>3. pc[e] \in {"idle", "picked", "reading"}
    BY <2>1 DEF IInv, TypeOK, Placed
  <2> QED
    BY <2>1, <2>2, <2>3 DEF IInv, Counted
<1> QED
  BY <1>1, Invariance, PTL

(* A receipt never claims more than what happened at the provider.          *)
THEOREM HonestReceipt == Spec => []ReceiptIsHonest
<1>1. IInv => ReceiptIsHonest
  BY DEF IInv
<1> QED
  BY <1>1, Invariance, PTL

(* Startup and shutdown never meet a pair they refuse.                      *)
THEOREM RecoverySucceeds == Spec => []RecoveryNeverWedges
<1>1. IInv => RecoveryNeverWedges
  BY DEF IInv, RowsAgree, RecoveryNeverWedges
<1> QED
  BY <1>1, Invariance, PTL

-----------------------------------------------------------------------------
(* A settled execution is never touched again.                              *)

(* No late answer, cancel, fallback or sweep reaches a settled row.         *)
LEMMA SettledStep ==
  ASSUME IInv, Next, NEW e \in Execs, receipt[e] # "none"
  PROVE  /\ receipt'[e] = receipt[e]
         /\ stage'[e] = stage[e]
         /\ run'[e] = run[e]
         /\ journal'[e] = journal[e]
<1>1. /\ TypeOK
      /\ run[e] \notin {"none", "queued", "running"}
      /\ stage[e] \notin {"none", "queued", "preflight", "executing"}
  BY DEF IInv, RowsAgree, Recoverable, Is, TERMINAL_STATUSES, TERMINAL_EXECUTION_STATUSES
<1>2. receipt'[e] = receipt[e]
  BY ReceiptStep DEF Reported
<1>3. stage'[e] = stage[e] /\ run'[e] = run[e]
  <2>1. ASSUME NEW f \in Execs, NEW outcome, NEW runStatus,
               Ending(f, outcome, runStatus), Settled(f, outcome, runStatus)
        PROVE  stage'[e] = stage[e] /\ run'[e] = run[e]
    <3>1. f # e
      BY <1>1, <2>1 DEF Ending, Preflighting, Is
    <3> QED
      BY <1>1, <2>1, <3>1 DEF Settled, TypeOK
  <2>2. ASSUME NEW S \in SUBSET Execs, Abandoned(S)
        PROVE  stage'[e] = stage[e] /\ run'[e] = run[e]
    BY <1>1, <2>2 DEF Abandoned
  <2>3. CASE \E p \in Proposals, f \in Execs : Inserted(p, f)
    BY <1>1, <2>3 DEF Inserted, TypeOK
  <2>4. CASE \E f \in Execs : Started(f) \/ Opened(f)
    BY <1>1, <2>4 DEF Started, Opened, Preflighting, Is, TypeOK
  <2> QED
    BY <2>1, <2>2, <2>3, <2>4, RowStep DEF RowEffect, RowsKept
<1>4. journal'[e] = journal[e]
  <2> USE DEF TypeOK, Is, Preflighting, rowVars
  <2>1. ASSUME NEW f \in Execs,
               \/ PickUp(f) \/ Cancel(f) \/ Gate(f) \/ PreflightFailed(f) \/ PreflightBlocked(f)
               \/ \E outcome \in TERMINAL_EXECUTION_STATUSES : Finish(f, outcome)
        PROVE  journal'[e] = journal[e]
    <3>1. CASE f = e
      BY <1>1, <2>1, <3>1 DEF PickUp, Cancel, Gate, PreflightFailed, PreflightBlocked, Finish
    <3>2. CASE f # e
      BY <1>1, <2>1, <3>2 DEF PickUp, Cancel, Gate, PreflightFailed, PreflightBlocked, Finish,
         Settle
    <3> QED
      BY <3>1, <3>2
  <2>2. ASSUME NEW p \in Proposals, NEW f \in Execs, Approve(p, f)
        PROVE  journal'[e] = journal[e]
    BY <1>1, <2>2 DEF Approve
  <2>3. ASSUME NEW S \in SUBSET Execs, \A f \in S : run[f] = "running", Abandon(S)
        PROVE  journal'[e] = journal[e]
    BY <1>1, <2>3 DEF Abandon
  <2> QED
    BY <2>1, <2>2, <2>3, JournalStep DEF JournalWriter
<1> QED
  BY <1>2, <1>3, <1>4

(* A receipt, its Run and its journal are written once.                     *)
THEOREM SettledFinality == Spec => SettledIsFinal
<1>1. IInv /\ [Next]_vars =>
        [\A e \in Execs : receipt[e] # "none" =>
           /\ receipt'[e] = receipt[e]
           /\ stage'[e] = stage[e]
           /\ run'[e] = run[e]
           /\ journal'[e] = journal[e]]_vars
  BY SettledStep
<1> QED
  BY <1>1, Invariance, PTL DEF Spec, SettledIsFinal
-----------------------------------------------------------------------------
(* Refinement of ActionPromise: a proposal reports through its execution.   *)

(* Decisions follow the edges of the promise.                               *)
LEMMA DecisionEdges ==
  ASSUME TypeOK, Next, NEW p \in Proposals, decision'[p] # decision[p]
  PROVE  <<decision[p], decision'[p]>> \in Promise!DecisionEdge
<1> USE DEF TypeOK, Outside, decisionVars, Promise!DecisionEdge
<1>1. ASSUME NEW q \in Proposals, Propose(q)
      PROVE  <<decision[p], decision'[p]>> \in Promise!DecisionEdge
  BY <1>1 DEF Propose
<1>2. ASSUME NEW q \in Proposals, Reject(q) \/ DecideOverdue(q) \/ \E e \in Execs : Approve(q, e)
      PROVE  <<decision[p], decision'[p]>> \in Promise!DecisionEdge
  BY <1>2 DEF Reject, DecideOverdue, Approve
<1>3. CASE ~\E q \in Proposals : \/ Propose(q) \/ Reject(q) \/ DecideOverdue(q)
                                 \/ \E e \in Execs : Approve(q, e)
  <2>1. decision' = decision
    BY <1>3 DEF Next, ChatStarts, ChatEnds, Crash, Start, Drain, UserEdits, BecomesOverdue,
       PickUp, BindingFails, Binds, ReadFails, ReadReturns, Send, PortRefuses, PortReturns,
       CheckReturns, StrategyThrows, Cancel, ProviderReads, ProviderApplies, ProviderRefuses
  <2> QED
    BY <2>1
<1> QED
  BY <1>1, <1>2, <1>3

(* What a proposal reports is the receipt of its only execution.            *)
LEMMA ReceiptOfLinked ==
  ASSUME OneExecPerProposal, NEW p \in Proposals, NEW e \in Execs, proposalOf[e] = p
  PROVE  ReceiptOf(p) = receipt[e]
<1>1. {f \in Execs : proposalOf[f] = p} = {e}
  BY ActionAssumption DEF OneExecPerProposal
<1> QED
  BY <1>1 DEF ReceiptOf

(* The same of the next state.                                              *)
LEMMA ReceiptOfLinkedNext ==
  ASSUME OneExecPerProposal', NEW p \in Proposals, NEW e \in Execs, proposalOf'[e] = p
  PROVE  ReceiptOf(p)' = receipt'[e]
<1>1. {f \in Execs : proposalOf'[f] = p} = {e}
  BY ActionAssumption DEF OneExecPerProposal
<1> QED
  BY <1>1 DEF ReceiptOf

(* A report changes only when the receipt behind it is written.             *)
LEMMA ReportStep ==
  ASSUME IInv, Next, NEW p \in Proposals
  PROVE  \/ ReceiptOf(p)' = ReceiptOf(p)
         \/ \E e \in Execs : /\ Reported(e)
                             /\ proposalOf[e] = p
                             /\ ReceiptOf(p) = "none"
                             /\ ReceiptOf(p)' = receipt'[e]
<1>1. /\ TypeOK /\ OneExecPerProposal /\ OneExecPerProposal'
      /\ \A e \in Execs : Linked(e) /\ RowsAgree(e)
  BY OneExecStep DEF IInv
<1>2. \A e \in Execs : proposalOf[e] # None => proposalOf'[e] = proposalOf[e]
  BY <1>1, LinkStep DEF Linked
<1>3. CASE \A e \in Execs : proposalOf'[e] # p
  <2>1. \A e \in Execs : proposalOf[e] # p
    BY <1>2, <1>3, ActionAssumption
  <2>2. {e \in Execs : proposalOf[e] = p} = {} /\ {e \in Execs : proposalOf'[e] = p} = {}
    BY <1>3, <2>1
  <2>3. ReceiptOf(p) = "none"
    BY <2>2 DEF ReceiptOf
  <2>4. ReceiptOf(p)' = "none"
    BY <2>2 DEF ReceiptOf
  <2> QED
    BY <2>3, <2>4
<1>4. ASSUME NEW e \in Execs, proposalOf[e] = p
      PROVE  \/ ReceiptOf(p)' = ReceiptOf(p)
             \/ Reported(e) /\ ReceiptOf(p) = "none" /\ ReceiptOf(p)' = receipt'[e]
  <2>1. proposalOf'[e] = p
    BY <1>2, <1>4, ActionAssumption
  <2>2. ReceiptOf(p) = receipt[e] /\ ReceiptOf(p)' = receipt'[e]
    BY <1>1, <1>4, <2>1, ReceiptOfLinked, ReceiptOfLinkedNext
  <2> QED
    BY <2>2, ReceiptStep DEF Reported
<1>5. ASSUME NEW e \in Execs, proposalOf'[e] = p, proposalOf[e] # p
      PROVE  ReceiptOf(p)' = ReceiptOf(p)
  <2>1. proposalOf[e] = None /\ stage[e] = "none"
    BY <1>1, <1>2, <1>5, ActionAssumption DEF Linked
  <2>2. \A f \in Execs : proposalOf[f] # p
    <3> SUFFICES ASSUME NEW f \in Execs, proposalOf[f] = p PROVE FALSE
      OBVIOUS
    <3>1. proposalOf'[f] = p /\ p # None
      BY <1>2, ActionAssumption
    <3>2. f = e
      BY <1>1, <1>5, <3>1 DEF OneExecPerProposal
    <3> QED
      BY <1>5, <3>2
  <2>3. ReceiptOf(p) = "none"
    <3>1. {f \in Execs : proposalOf[f] = p} = {}
      BY <2>2
    <3> QED
      BY <3>1 DEF ReceiptOf
  <2>4. receipt[e] = "none"
    BY <1>1, <2>1 DEF RowsAgree, Recoverable, Is, TERMINAL_STATUSES, TERMINAL_EXECUTION_STATUSES
  <2>5. receipt'[e] = "none"
    BY <2>1, <2>4, ReceiptStep DEF Reported
  <2>6. ReceiptOf(p)' = receipt'[e]
    BY <1>1, <1>5, ReceiptOfLinkedNext
  <2> QED
    BY <2>3, <2>5, <2>6
<1> QED
  BY <1>3, <1>4, <1>5
(* Reports are outcomes.                                                    *)
LEMMA ReportTyped ==
  ASSUME IInv, IInv', NEW p \in Proposals
  PROVE  ReceiptOf(p)' \in {"none"} \union TERMINAL_EXECUTION_STATUSES
<1>1. CASE \A e \in Execs : proposalOf'[e] # p
  <2>1. {e \in Execs : proposalOf'[e] = p} = {}
    BY <1>1
  <2> QED
    BY <2>1 DEF ReceiptOf
<1>2. ASSUME NEW e \in Execs, proposalOf'[e] = p
      PROVE  ReceiptOf(p)' \in {"none"} \union TERMINAL_EXECUTION_STATUSES
  <2>1. OneExecPerProposal' /\ TypeOK'
    BY DEF IInv
  <2> QED
    BY <1>2, <2>1, ReceiptOfLinkedNext DEF TypeOK
<1> QED
  BY <1>1, <1>2

(* Sending the request is the one attempt of its proposal.                  *)
LEMMA SendRefines ==
  ASSUME IInv, Next, NEW e \in Execs, Send(e)
  PROVE  \E p \in Proposals : Promise!Attempt(p)
<1>1. /\ TypeOK /\ OneExecPerProposal /\ Counted /\ ReceiptIsHonest
      /\ Linked(e) /\ RowsAgree(e) /\ Placed(e)
  BY DEF IInv
<1>2. PICK p \in Proposals : p = proposalOf[e] /\ stage[e] # "none" /\ decision[p] = "approved"
  BY <1>1 DEF Send, Linked
<1>3. /\ wire[e] = "none"
      /\ calls[p] = 0
      /\ calls' = [calls EXCEPT ![p] = 1]
  <2>1. wire[e] = "none"
    BY <1>1 DEF Send, Placed
  <2>2. calls[p] = 0
    BY <1>1, <1>2, <2>1 DEF Counted
  <2>3. calls' = [calls EXCEPT ![p] = calls[p] + 1]
    BY <1>2 DEF Send
  <2> QED
    BY <2>1, <2>2, <2>3
<1>4. receipt[e] \in {"none", "unknown"}
  BY <1>1, <1>3 DEF ReceiptIsHonest, Send, TypeOK, TERMINAL_EXECUTION_STATUSES
<1>5. ReceiptOf(p) \in {"none", "unknown"}
  BY <1>1, <1>2, <1>4, ReceiptOfLinked
<1>6. {q \in Proposals : calls'[q] > 0} = {q \in Proposals : calls[q] > 0} \union {p}
  BY <1>1, <1>2, <1>3 DEF TypeOK
<1>7. UNCHANGED <<decision, proposalOf, receipt>>
  BY DEF Send, Outside, decisionVars, rowVars
<1>8. \A q \in Proposals : ReceiptOf(q)' = ReceiptOf(q)
  BY <1>7 DEF ReceiptOf
<1>9. p \notin {q \in Proposals : calls[q] > 0}
  BY <1>3
<1>10. [q \in Proposals |-> ReceiptOf(q)]' = [q \in Proposals |-> ReceiptOf(q)]
  BY <1>8
<1>11. Promise!Attempt(p)
  BY <1>2, <1>5, <1>6, <1>7, <1>9, <1>10 DEF Promise!Attempt
<1> QED
  BY <1>2, <1>11

(* Every other step decides or reports.                                     *)
LEMMA RefineStep ==
  ASSUME IInv, IInv', [Next]_vars
  PROVE  [Promise!PromiseNext]_(Promise!promiseVars)
<1>1. CASE \E e \in Execs : Next /\ Send(e)
  BY <1>1, SendRefines DEF Promise!PromiseNext
<1>2. CASE Next /\ ~\E e \in Execs : Send(e)
  <2>1. calls' = calls
    BY <1>2, OutsideStep DEF OutsideEffect, WireKept, ProviderReads, ProviderApplies,
       ProviderRefuses, UserEdits
  <2>2. {p \in Proposals : calls[p] > 0}' = {p \in Proposals : calls[p] > 0}
    BY <2>1
  <2>3. TypeOK /\ TypeOK' /\ Counted /\ \A e \in Execs : Linked(e)
    BY DEF IInv
  <2>4. CASE decision' # decision
    <3>1. \A p \in Proposals : ReceiptOf(p)' = ReceiptOf(p)
      BY <1>2, <2>4, ReportStep DEF Reported
    <3>2. [p \in Proposals |-> ReceiptOf(p)]' = [p \in Proposals |-> ReceiptOf(p)]
      BY <3>1
    <3>3. decision' \in [Proposals -> {"none", "pending", "approved", "rejected", "expired"}]
      BY <2>3 DEF TypeOK
    <3>4. \A p \in Proposals : decision'[p] # decision[p] =>
            <<decision[p], decision'[p]>> \in Promise!DecisionEdge
      BY <1>2, <2>3, DecisionEdges
    <3>5. Promise!Decide
      BY <2>2, <3>2, <3>3, <3>4 DEF Promise!Decide
    <3> QED
      BY <3>5 DEF Promise!PromiseNext
  <2>5. CASE decision' = decision
    <3> DEFINE report == [p \in Proposals |-> ReceiptOf(p)]
               attempted == {p \in Proposals : calls[p] > 0}
    <3>1. report' \in [Proposals -> {"none", "succeeded", "succeeded_unverified",
                                     "blocked_stale", "failed", "unknown"}]
      BY ReportTyped DEF TERMINAL_EXECUTION_STATUSES
    <3>2. ASSUME NEW p \in Proposals, report'[p] # report[p]
          PROVE  /\ decision[p] = "approved"
                 /\ report[p] = "none"
                 /\ report'[p] \in {"succeeded", "succeeded_unverified"} => p \in attempted
                 /\ report'[p] = "blocked_stale" => p \notin attempted
      <4>1. ReceiptOf(p)' # ReceiptOf(p)
        BY <3>2
      <4>2. PICK e \in Execs : /\ Reported(e) /\ proposalOf[e] = p
                               /\ ReceiptOf(p) = "none" /\ ReceiptOf(p)' = receipt'[e]
        BY <1>2, <4>1, ReportStep
      <4>3. stage[e] # "none" /\ decision[p] = "approved"
        BY <2>3, <4>2 DEF Reported, Linked
      <4>4. calls[p] = IF wire[e] = "none" THEN 0 ELSE 1
        BY <2>3, <4>2, <4>3 DEF Counted
      <4>5. receipt'[e] \in {"succeeded", "succeeded_unverified"} => calls[p] > 0
        BY <4>2, <4>4 DEF Reported
      <4>6. receipt'[e] = "blocked_stale" => ~(calls[p] > 0)
        BY <4>2, <4>4 DEF Reported
      <4> QED
        BY <4>2, <4>3, <4>5, <4>6
    <3>3. Promise!Report
      BY <2>2, <2>5, <3>1, <3>2 DEF Promise!Report
    <3> QED
      BY <3>3 DEF Promise!PromiseNext
  <2> QED
    BY <2>4, <2>5
<1>3. CASE UNCHANGED vars
  <2>1. UNCHANGED <<decision, proposalOf, receipt, calls>>
    BY <1>3 DEF vars, decisionVars, rowVars, providerVars
  <2>2. \A p \in Proposals : ReceiptOf(p)' = ReceiptOf(p)
    BY <2>1 DEF ReceiptOf
  <2> QED
    BY <2>1, <2>2 DEF Promise!promiseVars
<1> QED
  BY <1>1, <1>2, <1>3

(* The empty database promises nothing yet.                                 *)
LEMMA RefineInit == Init => Promise!PromiseInit
<1> SUFFICES ASSUME Init PROVE Promise!PromiseInit
  OBVIOUS
<1>1. \A p \in Proposals : {e \in Execs : proposalOf[e] = p} = {}
  BY ActionAssumption DEF Init
<1>2. \A p \in Proposals : ReceiptOf(p) = "none"
  BY <1>1 DEF ReceiptOf
<1>3. {p \in Proposals : calls[p] > 0} = {}
  BY DEF Init
<1> QED
  BY <1>2, <1>3 DEF Init, Promise!PromiseInit

(* The action path implements its promise: a proposal is decided once, its  *)
(* write attempted at most once and only after the approval, and reported   *)
(* once and truthfully.                                                     *)
THEOREM Refinement == Spec => RefinesPromise
<1>1. IInv /\ IInv' /\ [Next]_vars => [Promise!PromiseNext]_(Promise!promiseVars)
  BY RefineStep
<1> QED
  BY <1>1, RefineInit, Invariance, PTL DEF Spec, RefinesPromise, Promise!PromiseSpec
-----------------------------------------------------------------------------
(* The journal of an execution.                                             *)

RunEnds == {"run.completed", "run.failed", "run.cancelled", "run.abandoned"}

ExecEnds == {"action.execution_finished", "action.preflight_failed"}

Over(e) == run[e] \in TERMINAL_STATUSES

(* The story a journal tells of a Run that is over or not, and whose write  *)
(* was marked or not.                                                       *)
AuditOf(log, over, marked) ==
  /\ over => Len(log) >= 2
  /\ \A i \in 1 .. Len(log) : log[i] \in RunEnds <=> over /\ i = Len(log)
  /\ \A i \in 1 .. Len(log) : log[i] \in ExecEnds <=> over /\ i = Len(log) - 1
  /\ marked <=> \E i \in 1 .. Len(log) : log[i] = "action.execution_started"

AuditTold == \A e \in Execs : AuditOf(journal[e], Over(e), e \in marker)

(* What a step does to the journal, the Run and the marker of e.            *)
AuditKept(e) ==
  journal'[e] = journal[e] /\ run'[e] = run[e] /\ (e \in marker' <=> e \in marker)

AuditBegun(e) ==
  /\ journal'[e] = <<"run.queued", "action.approved">>
  /\ run'[e] = "queued" /\ stage[e] = "none" /\ marker' = marker

AuditStarted(e) ==
  /\ journal'[e] = journal[e] \o <<"run.started", "action.preflight_started">>
  /\ run[e] = "queued" /\ run'[e] = "running" /\ marker' = marker

AuditOpened(e) ==
  /\ journal'[e] = journal[e] \o <<"action.execution_started">>
  /\ run[e] = "running" /\ run'[e] = "running" /\ e \in marker'

AuditEnded(e) ==
  /\ run[e] \in {"queued", "running"} /\ run'[e] \in TERMINAL_STATUSES /\ marker' = marker
  /\ \E a \in ExecEnds, b \in RunEnds :
       \/ journal'[e] = journal[e] \o <<a, b>>
       \/ journal'[e] = journal[e] \o <<"action.preflight_blocked", a, b>>

AuditEffect(e) ==
  AuditKept(e) \/ AuditBegun(e) \/ AuditStarted(e) \/ AuditOpened(e) \/ AuditEnded(e)

(* The terminal transactions end the Run and its journal together.          *)
LEMMA SettleAudited ==
  ASSUME TypeOK, NEW e \in Execs, NEW q \in Execs, NEW outcome, NEW to \in TERMINAL_STATUSES,
         NEW log, Settle(e, outcome, to, log), run[e] \in {"queued", "running"},
         \E a \in ExecEnds, b \in RunEnds :
           log = <<a, b>> \/ log = <<"action.preflight_blocked", a, b>>
  PROVE  AuditEffect(q)
<1>1. CASE q = e
  <2>1. /\ run'[q] = to /\ marker' = marker
        /\ journal'[q] = journal[q] \o log
    BY <1>1 DEF Settle, TypeOK
  <2> QED
    BY <1>1, <2>1 DEF AuditEffect, AuditEnded
<1>2. CASE q # e
  BY <1>2 DEF Settle, TypeOK, AuditEffect, AuditKept
<1> QED
  BY <1>1, <1>2

LEMMA AbandonAudited ==
  ASSUME TypeOK, NEW S \in SUBSET Execs, NEW q \in Execs, \A e \in S : run[e] = "running",
         Abandon(S)
  PROVE  AuditEffect(q)
<1>1. CASE q \in S
  <2>1. /\ run'[q] = "abandoned" /\ marker' = marker /\ run[q] = "running"
        /\ journal'[q] = journal[q] \o <<"action.execution_finished", "run.abandoned">>
    BY <1>1 DEF Abandon, TypeOK
  <2> QED
    BY <2>1 DEF AuditEffect, AuditEnded, TERMINAL_STATUSES, ExecEnds, RunEnds
<1>2. CASE q \notin S
  BY <1>2 DEF Abandon, TypeOK, AuditEffect, AuditKept
<1> QED
  BY <1>1, <1>2

(* Every step writes to a journal in one of these ways.                     *)
LEMMA AuditStep ==
  ASSUME TypeOK, Next, NEW q \in Execs
  PROVE  AuditEffect(q)
<1> USE DEF Outside, rowVars
<1>a. UNCHANGED rowVars => AuditEffect(q)
  BY DEF AuditEffect, AuditKept
<1>1. CASE ChatStarts \/ ChatEnds \/ Crash \/ UserEdits
  BY <1>1, <1>a DEF ChatStarts, ChatEnds, Crash, UserEdits
<1>2. CASE Start \/ Drain
  <2>1. Abandon({e \in Execs : run[e] = "running"})
    BY <1>2 DEF Start, Drain, Sweep
  <2> QED
    BY <2>1, AbandonAudited
<1>3. ASSUME NEW p \in Proposals,
             Propose(p) \/ BecomesOverdue(p) \/ Reject(p) \/ DecideOverdue(p)
      PROVE  AuditEffect(q)
  BY <1>3, <1>a DEF Propose, BecomesOverdue, Reject, DecideOverdue
<1>4. ASSUME NEW p \in Proposals, NEW e \in Execs, Approve(p, e)
      PROVE  AuditEffect(q)
  <2>1. CASE q = e
    BY <1>4, <2>1 DEF Approve, TypeOK, AuditEffect, AuditBegun
  <2>2. CASE q # e
    BY <1>4, <2>2 DEF Approve, TypeOK, AuditEffect, AuditKept
  <2> QED
    BY <2>1, <2>2
<1>5. ASSUME NEW e \in Execs, PickUp(e)
      PROVE  AuditEffect(q)
  <2>1. CASE q = e
    BY <1>5, <2>1 DEF PickUp, Is, TypeOK, AuditEffect, AuditStarted
  <2>2. CASE q # e
    BY <1>5, <2>2 DEF PickUp, TypeOK, AuditEffect, AuditKept
  <2> QED
    BY <2>1, <2>2
<1>6. ASSUME NEW e \in Execs, PreflightFailed(e) \/ PreflightBlocked(e)
      PROVE  AuditEffect(q)
  <2>1. CASE Preflighting(e) /\ PreflightFailed(e)
    <3>1. /\ run[e] = "running"
          /\ Settle(e, "failed", "failed", <<"action.preflight_failed", "run.failed">>)
      BY <2>1 DEF PreflightFailed, Preflighting, Is
    <3>2. \E a \in ExecEnds, b \in RunEnds :
            <<"action.preflight_failed", "run.failed">> = <<a, b>>
      BY DEF ExecEnds, RunEnds
    <3> QED
      BY <3>1, <3>2, SettleAudited DEF TERMINAL_STATUSES
  <2>2. CASE Preflighting(e) /\ PreflightBlocked(e)
    <3>1. /\ run[e] = "running"
          /\ Settle(e, "blocked_stale", "completed",
                    <<"action.preflight_blocked", "action.execution_finished", "run.completed">>)
      BY <2>2 DEF PreflightBlocked, Preflighting, Is
    <3>2. \E a \in ExecEnds, b \in RunEnds :
            <<"action.preflight_blocked", "action.execution_finished", "run.completed">>
              = <<"action.preflight_blocked", a, b>>
      BY DEF ExecEnds, RunEnds
    <3> QED
      BY <3>1, <3>2, SettleAudited DEF TERMINAL_STATUSES
  <2>3. CASE ~Preflighting(e)
    BY <1>6, <1>a, <2>3 DEF PreflightFailed, PreflightBlocked
  <2> QED
    BY <1>6, <2>1, <2>2, <2>3
<1>7. ASSUME NEW e \in Execs, Gate(e)
      PROVE  AuditEffect(q)
  <2>1. CASE q = e /\ ~UNCHANGED rowVars
    <3>1. /\ journal'[q] = Append(journal[q], "action.execution_started")
          /\ run[q] = "running" /\ run'[q] = "running" /\ q \in marker'
      BY <1>7, <2>1 DEF Gate, Preflighting, Is, TypeOK
    <3>2. Append(journal[q], "action.execution_started")
            = journal[q] \o <<"action.execution_started">>
      <4>1. journal[q] \in Seq(EventType) /\ "action.execution_started" \in EventType
        BY DEF TypeOK, EventType
      <4> QED
        BY <4>1
    <3> QED
      BY <3>1, <3>2 DEF AuditEffect, AuditOpened
  <2>2. CASE q # e /\ ~UNCHANGED rowVars
    BY <1>7, <2>2 DEF Gate, TypeOK, AuditEffect, AuditKept
  <2> QED
    BY <1>a, <2>1, <2>2
<1>8. ASSUME NEW e \in Execs, NEW outcome, Finish(e, outcome)
      PROVE  AuditEffect(q)
  <2> DEFINE bad == outcome \in {"failed", "unknown"}
             to == IF bad THEN "failed" ELSE "completed"
             last == IF bad THEN "run.failed" ELSE "run.completed"
  <2>1. CASE Is(e, "running", "executing") /\ e \in marker
    <3>1. run[e] = "running" /\ Settle(e, outcome, to, <<"action.execution_finished", last>>)
      BY <1>8, <2>1 DEF Finish, Is
    <3>2. /\ to \in TERMINAL_STATUSES
          /\ last \in RunEnds /\ "action.execution_finished" \in ExecEnds
      BY DEF TERMINAL_STATUSES, RunEnds, ExecEnds
    <3> HIDE DEF to, last
    <3> QED
      BY <3>1, <3>2, SettleAudited
  <2>2. CASE ~(Is(e, "running", "executing") /\ e \in marker)
    BY <1>8, <1>a, <2>2 DEF Finish
  <2> QED
    BY <2>1, <2>2
<1>9. ASSUME NEW e \in Execs, BindingFails(e) \/ ReadFails(e) \/ Binds(e) \/ ReadReturns(e)
      PROVE  AuditEffect(q)
  <2>1. PreflightFailed(e) \/ PreflightBlocked(e) \/ Gate(e) \/ UNCHANGED rowVars
    BY <1>9 DEF BindingFails, ReadFails, Binds, ReadReturns
  <2> QED
    BY <1>a, <1>6, <1>7, <2>1
<1>10. ASSUME NEW e \in Execs, PortRefuses(e) \/ PortReturns(e) \/ CheckReturns(e)
       PROVE  AuditEffect(q)
  <2>1. UNCHANGED rowVars \/ \E outcome : Finish(e, outcome)
    BY <1>10 DEF PortRefuses, PortReturns, CheckReturns
  <2> QED
    BY <1>a, <1>8, <2>1
<1>11. ASSUME NEW e \in Execs, StrategyThrows(e)
       PROVE  AuditEffect(q)
  <2>1. UNCHANGED rowVars \/ (run[e] = "running" /\ Abandon({e}))
    BY <1>11 DEF StrategyThrows
  <2> QED
    BY <1>a, <2>1, AbandonAudited
<1>12. ASSUME NEW e \in Execs, Cancel(e)
       PROVE  AuditEffect(q)
  <2>1. /\ run[e] \in {"queued", "running"}
        /\ Settle(e, "failed", "cancelled", <<"action.execution_finished", "run.cancelled">>)
    BY <1>12 DEF Cancel
  <2>2. \E a \in ExecEnds, b \in RunEnds :
          <<"action.execution_finished", "run.cancelled">> = <<a, b>>
    BY DEF ExecEnds, RunEnds
  <2> QED
    BY <2>1, <2>2, SettleAudited DEF TERMINAL_STATUSES
<1>13. ASSUME NEW e \in Execs,
              Send(e) \/ ProviderReads(e) \/ ProviderApplies(e) \/ ProviderRefuses(e)
       PROVE  AuditEffect(q)
  BY <1>13, <1>a DEF Send, ProviderReads, ProviderApplies, ProviderRefuses
<1> QED
  BY <1>1, <1>2, <1>3, <1>4, <1>5, <1>9, <1>10, <1>11, <1>12, <1>13 DEF Next

(* Events added to the journal of a Run that is not over.                   *)
LEMMA AuditGrows ==
  ASSUME NEW log \in Seq(EventType), NEW more \in Seq(EventType),
         NEW over \in BOOLEAN, NEW marked \in BOOLEAN, AuditOf(log, FALSE, marked),
         over => Len(more) >= 2,
         \A i \in 1 .. Len(more) : more[i] \in RunEnds <=> over /\ i = Len(more),
         \A i \in 1 .. Len(more) : more[i] \in ExecEnds <=> over /\ i = Len(more) - 1
  PROVE  AuditOf(log \o more, over,
                 marked \/ \E i \in 1 .. Len(more) : more[i] = "action.execution_started")
<1> DEFINE new == log \o more
<1>1. /\ Len(log) \in Nat /\ Len(more) \in Nat /\ Len(new) = Len(log) + Len(more)
      /\ \A i \in 1 .. Len(log) + Len(more) :
           new[i] = IF i <= Len(log) THEN log[i] ELSE more[i - Len(log)]
  BY ConcatProperties
<1>2. \A i \in 1 .. Len(log) : new[i] = log[i]
  BY <1>1
<1>3. \A j \in 1 .. Len(more) : new[Len(log) + j] = more[j] /\ Len(log) + j \in 1 .. Len(new)
  BY <1>1
<1>4. \A i \in 1 .. Len(new) :
        \/ i \in 1 .. Len(log)
        \/ \E j \in 1 .. Len(more) : i = Len(log) + j
  <2> SUFFICES ASSUME NEW i \in 1 .. Len(new), i \notin 1 .. Len(log)
               PROVE  \E j \in 1 .. Len(more) : i = Len(log) + j
    OBVIOUS
  <2>1. i - Len(log) \in 1 .. Len(more) /\ i = Len(log) + (i - Len(log))
    BY <1>1
  <2> QED
    BY <2>1
<1>5. \A i \in 1 .. Len(log) : log[i] \notin RunEnds /\ log[i] \notin ExecEnds
  BY DEF AuditOf
<1> HIDE DEF new
<1>6. over => Len(new) >= 2
  BY <1>1
<1>7. \A i \in 1 .. Len(new) : new[i] \in RunEnds <=> over /\ i = Len(new)
  <2> SUFFICES ASSUME NEW i \in 1 .. Len(new)
               PROVE  new[i] \in RunEnds <=> over /\ i = Len(new)
    OBVIOUS
  <2>1. CASE i \in 1 .. Len(log)
    <3>1. over => i # Len(new) /\ i # Len(new) - 1
      BY <1>1, <2>1
    <3>2. new[i] \notin RunEnds
      BY <1>2, <1>5, <2>1
    <3> QED
      BY <3>1, <3>2
  <2>2. ASSUME NEW j \in 1 .. Len(more), i = Len(log) + j
        PROVE  new[i] \in RunEnds <=> over /\ i = Len(new)
    <3>0. Len(new) = Len(log) + Len(more) /\ Len(log) \in Nat /\ Len(more) \in Nat /\ j \in Nat
      BY <1>1
    <3>1. i = Len(new) <=> j = Len(more)
      BY <2>2, <3>0
    <3>2. new[i] = more[j]
      BY <1>3, <2>2
    <3>3. more[j] \in RunEnds <=> over /\ j = Len(more)
      OBVIOUS
    <3> QED
      BY <3>1, <3>2, <3>3, Zenon
  <2> QED
    BY <1>4, <2>1, <2>2
<1>8. \A i \in 1 .. Len(new) : new[i] \in ExecEnds <=> over /\ i = Len(new) - 1
  <2> SUFFICES ASSUME NEW i \in 1 .. Len(new)
               PROVE  new[i] \in ExecEnds <=> over /\ i = Len(new) - 1
    OBVIOUS
  <2>1. CASE i \in 1 .. Len(log)
    <3>1. over => i # Len(new) /\ i # Len(new) - 1
      BY <1>1, <2>1
    <3>2. new[i] \notin ExecEnds
      BY <1>2, <1>5, <2>1
    <3> QED
      BY <3>1, <3>2
  <2>2. ASSUME NEW j \in 1 .. Len(more), i = Len(log) + j
        PROVE  new[i] \in ExecEnds <=> over /\ i = Len(new) - 1
    <3>1. i = Len(new) - 1 <=> j = Len(more) - 1
      BY SMTT(40), <1>1, <2>2
    <3>2. new[i] = more[j]
      BY <1>3, <2>2
    <3>3. more[j] \in ExecEnds <=> over /\ j = Len(more) - 1
      OBVIOUS
    <3> QED
      BY <3>1, <3>2, <3>3, Zenon
  <2> QED
    BY <1>4, <2>1, <2>2
<1>9. (marked \/ \E i \in 1 .. Len(more) : more[i] = "action.execution_started")
        <=> \E i \in 1 .. Len(new) : new[i] = "action.execution_started"
  <2>1. marked <=> \E i \in 1 .. Len(log) : log[i] = "action.execution_started"
    BY DEF AuditOf
  <2>2. \A i \in 1 .. Len(log) : i \in 1 .. Len(new)
    BY <1>1
  <2> QED
    BY <1>2, <1>3, <1>4, <2>1, <2>2
<1> QED
  BY <1>6, <1>7, <1>8, <1>9 DEF AuditOf, new

(* The journals keep telling their stories.                                 *)
LEMMA ToldStep ==
  ASSUME IInv, TypeOK', AuditTold, [Next]_vars
  PROVE  AuditTold'
<1> SUFFICES ASSUME NEW e \in Execs PROVE AuditOf(journal[e], Over(e), e \in marker)'
  BY DEF AuditTold
<1>0. /\ AuditOf(journal[e], Over(e), e \in marker)
      /\ journal[e] \in Seq(EventType) /\ journal'[e] \in Seq(EventType)
  BY DEF AuditTold, IInv, TypeOK
<1>1. AuditEffect(e)
  <2>1. TypeOK
    BY DEF IInv
  <2> QED
    BY <2>1, AuditStep DEF vars, rowVars, AuditEffect, AuditKept
<1>2. CASE AuditKept(e)
  BY <1>0, <1>2 DEF AuditKept, AuditOf, Over
<1>3. CASE AuditBegun(e)
  <2>1. e \notin marker /\ e \notin marker' /\ ~Over(e)'
    BY <1>3 DEF AuditBegun, IInv, RowsAgree, Over, TERMINAL_STATUSES
  <2> DEFINE log == <<"run.queued", "action.approved">>
  <2>2. Len(log) = 2 /\ log[1] = "run.queued" /\ log[2] = "action.approved"
    OBVIOUS
  <2>3. \A i \in 1 .. Len(log) : i = 1 \/ i = 2
    BY <2>2
  <2> HIDE DEF log
  <2>4. \A i \in 1 .. Len(log) : /\ log[i] \notin RunEnds /\ log[i] \notin ExecEnds
                                 /\ log[i] # "action.execution_started"
    BY <2>2, <2>3 DEF RunEnds, ExecEnds
  <2>5. journal'[e] = log
    BY <1>3 DEF AuditBegun, log
  <2> QED
    BY <2>1, <2>4, <2>5 DEF AuditOf
<1>4. CASE AuditStarted(e)
  <2> DEFINE more == <<"run.started", "action.preflight_started">>
  <2>1. more \in Seq(EventType) /\ Len(more) = 2 /\ more[1] = "run.started"
        /\ more[2] = "action.preflight_started"
    BY DEF EventType
  <2>2. \A i \in 1 .. Len(more) : i = 1 \/ i = 2
    BY <2>1
  <2> HIDE DEF more
  <2>3. \A i \in 1 .. Len(more) : /\ more[i] \notin RunEnds /\ more[i] \notin ExecEnds
                                  /\ more[i] # "action.execution_started"
    BY <2>1, <2>2 DEF RunEnds, ExecEnds
  <2>4. ~Over(e) /\ ~Over(e)' /\ marker' = marker /\ journal'[e] = journal[e] \o more
    BY <1>4 DEF AuditStarted, Over, TERMINAL_STATUSES, more
  <2>5. PICK marked \in BOOLEAN : marked <=> e \in marker
    OBVIOUS
  <2>6. AuditOf(journal[e], FALSE, marked)
    BY <1>0, <2>4, <2>5 DEF AuditOf
  <2>7. AuditOf(journal[e] \o more, FALSE,
                marked \/ \E i \in 1 .. Len(more) : more[i] = "action.execution_started")
    BY <1>0, <2>1, <2>3, <2>6, AuditGrows
  <2> QED
    BY <2>3, <2>4, <2>5, <2>7 DEF AuditOf
<1>5. CASE AuditOpened(e)
  <2> DEFINE more == <<"action.execution_started">>
  <2>1. more \in Seq(EventType) /\ Len(more) = 1 /\ more[1] = "action.execution_started"
    BY DEF EventType
  <2>2. \A i \in 1 .. Len(more) : i = 1
    BY <2>1
  <2> HIDE DEF more
  <2>3. /\ \A i \in 1 .. Len(more) : more[i] \notin RunEnds /\ more[i] \notin ExecEnds
        /\ \E i \in 1 .. Len(more) : more[i] = "action.execution_started"
    BY <2>1, <2>2 DEF RunEnds, ExecEnds
  <2>4. ~Over(e) /\ ~Over(e)' /\ e \in marker' /\ journal'[e] = journal[e] \o more
    BY <1>5 DEF AuditOpened, Over, TERMINAL_STATUSES, more
  <2>5. PICK marked \in BOOLEAN : marked <=> e \in marker
    OBVIOUS
  <2>6. AuditOf(journal[e], FALSE, marked)
    BY <1>0, <2>4, <2>5 DEF AuditOf
  <2>7. AuditOf(journal[e] \o more, FALSE,
                marked \/ \E i \in 1 .. Len(more) : more[i] = "action.execution_started")
    BY <1>0, <2>1, <2>3, <2>6, AuditGrows
  <2> QED
    BY <2>3, <2>4, <2>7 DEF AuditOf
<1>6. CASE AuditEnded(e)
  <2>1. PICK a \in ExecEnds, b \in RunEnds :
          \/ journal'[e] = journal[e] \o <<a, b>>
          \/ journal'[e] = journal[e] \o <<"action.preflight_blocked", a, b>>
    BY <1>6 DEF AuditEnded
  <2>2. /\ a \in EventType /\ b \in EventType /\ "action.preflight_blocked" \in EventType
        /\ a \notin RunEnds /\ b \notin ExecEnds
        /\ "action.preflight_blocked" \notin RunEnds \union ExecEnds
        /\ a # "action.execution_started" /\ b # "action.execution_started"
    BY DEF ExecEnds, RunEnds, EventType
  <2>3. PICK more \in Seq(EventType) :
          /\ journal'[e] = journal[e] \o more
          /\ more = <<a, b>> \/ more = <<"action.preflight_blocked", a, b>>
    <3>1. <<a, b>> \in Seq(EventType) /\ <<"action.preflight_blocked", a, b>> \in Seq(EventType)
      BY <2>2
    <3> QED
      BY <2>1, <3>1
  <2>4. /\ Len(more) >= 2
        /\ \A i \in 1 .. Len(more) : more[i] \in RunEnds <=> i = Len(more)
        /\ \A i \in 1 .. Len(more) : more[i] \in ExecEnds <=> i = Len(more) - 1
        /\ \A i \in 1 .. Len(more) : more[i] # "action.execution_started"
    <3>1. CASE more = <<a, b>>
      <4>1. Len(more) = 2 /\ more[1] = a /\ more[2] = b
        BY <3>1
      <4>2. \A i \in 1 .. Len(more) : i = 1 \/ i = 2
        BY <4>1
      <4> QED
        BY <2>2, <4>1, <4>2
    <3>2. CASE more = <<"action.preflight_blocked", a, b>>
      <4>1. Len(more) = 3 /\ more[1] = "action.preflight_blocked" /\ more[2] = a /\ more[3] = b
        BY <3>2
      <4>2. \A i \in 1 .. Len(more) : i = 1 \/ i = 2 \/ i = 3
        BY <4>1
      <4> QED
        BY <2>2, <4>1, <4>2
    <3> QED
      BY <2>3, <3>1, <3>2
  <2>5. ~Over(e) /\ Over(e)' /\ marker' = marker
    BY <1>6 DEF AuditEnded, Over, TERMINAL_STATUSES
  <2>6. PICK marked \in BOOLEAN : marked <=> e \in marker
    OBVIOUS
  <2>7. AuditOf(journal[e], FALSE, marked)
    BY <1>0, <2>5, <2>6 DEF AuditOf
  <2>8. AuditOf(journal[e] \o more, TRUE,
                marked \/ \E i \in 1 .. Len(more) : more[i] = "action.execution_started")
    BY <1>0, <2>4, <2>7, AuditGrows
  <2> QED
    BY <2>3, <2>4, <2>5, <2>6, <2>8 DEF AuditOf
<1> QED
  BY <1>1, <1>2, <1>3, <1>4, <1>5, <1>6 DEF AuditEffect

(* The audit trail of an action is ordered: nothing follows the end of the  *)
(* Run, the end of the execution is the event before it, and the start of   *)
(* the external write is journalled exactly when the marker is set (the     *)
(* terminal transactions of action_executions.ts).                          *)
THEOREM AuditOrder == Spec => []AuditIsOrdered
<1>1. Init => AuditTold
  BY DEF Init, AuditTold, AuditOf, Over, TERMINAL_STATUSES
<1>2. IInv /\ TypeOK' /\ AuditTold /\ [Next]_vars => AuditTold'
  BY ToldStep
<1>3. TypeOK /\ AuditTold => AuditIsOrdered
  <2> SUFFICES ASSUME TypeOK, AuditTold, NEW e \in Execs
               PROVE
                 LET log == journal[e]
                     At(types) == {i \in DOMAIN log : log[i] \in types}
                 IN  /\ At(RunEnds) = IF Over(e) THEN {Len(log)} ELSE {}
                     /\ At(ExecEnds) = IF Over(e) THEN {Len(log) - 1} ELSE {}
                     /\ e \in marker <=> At({"action.execution_started"}) # {}
    BY DEF AuditIsOrdered, RunEnds, ExecEnds, Over
  <2>1. PICK log \in Seq(EventType) : log = journal[e]
    BY DEF TypeOK
  <2>2. DOMAIN log = 1 .. Len(log) /\ Len(log) \in Nat
    BY LenProperties
  <2>3. AuditOf(log, Over(e), e \in marker)
    BY <2>1 DEF AuditTold
  <2>4. Over(e) => Len(log) \in 1 .. Len(log) /\ Len(log) - 1 \in 1 .. Len(log)
    <3>1. Over(e) => Len(log) >= 2
      BY ZenonT(60), <2>3 DEF AuditOf
    <3> QED
      BY <2>2, <3>1
  <2>5. {i \in DOMAIN log : log[i] \in RunEnds} = IF Over(e) THEN {Len(log)} ELSE {}
    BY ZenonT(60), <2>2, <2>3, <2>4 DEF AuditOf
  <2>6. {i \in DOMAIN log : log[i] \in ExecEnds} = IF Over(e) THEN {Len(log) - 1} ELSE {}
    BY ZenonT(60), <2>2, <2>3, <2>4 DEF AuditOf
  <2>7. e \in marker <=> {i \in DOMAIN log : log[i] \in {"action.execution_started"}} # {}
    BY <2>2, <2>3 DEF AuditOf
  <2> QED
    BY <2>1, <2>5, <2>6, <2>7
<1> QED
  BY <1>1, <1>2, <1>3, Invariance, TypeCorrect, PTL DEF Spec
=============================================================================
