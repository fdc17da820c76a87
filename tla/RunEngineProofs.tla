--------------------------- MODULE RunEngineProofs ---------------------------
(***************************************************************************)
(* Proofs about RunEngine, for every number of sessions, runs, slots,       *)
(* storage failures and restarts.                                           *)
(***************************************************************************)
EXTENDS RunEngine, SequenceTheorems, FiniteSetTheorems, TLAPS

-----------------------------------------------------------------------------
(* Type correctness.                                                        *)

(* Creation times are numbers.                                              *)
LEMMA RequestTimesAreNat == RequestTimes \subseteq Nat
  BY DEF RequestTimes

(* The empty database is well typed.                                        *)
LEMMA StoreInitTyped == StoreInit => StoreTypeOK
  BY StoreAssumption DEF StoreInit, StoreTypeOK, NoRow, Row, RunStatus

(* A new row keeps the store well typed.                                    *)
LEMMA InsertTyped ==
  ASSUME StoreTypeOK, NEW r \in Runs, NEW new \in Row, InsertQueued(r, new)
  PROVE  /\ status' \in [Runs -> RunStatus]
         /\ row' \in [Runs -> Row]
         /\ events' \in [Runs -> Seq(EventType)]
  BY DEF StoreTypeOK, InsertQueued, RunStatus, ACTIVE_STATUSES, EventType

(* A transition to a known status with a known event keeps it well typed.   *)
LEMMA MoveTyped ==
  ASSUME StoreTypeOK, NEW S \in SUBSET Runs, NEW to \in RunStatus,
         NEW type \in EventType, Move(S, to, type)
  PROVE  /\ status' \in [Runs -> RunStatus]
         /\ row' \in [Runs -> Row]
         /\ events' \in [Runs -> Seq(EventType)]
         /\ nextTurn' \in [Sessions -> Nat \ {0}]
         /\ nextAttempt' \in [Turns -> Nat]
  BY DEF StoreTypeOK, Move

(* postMessage writes well-typed rows.                                      *)
LEMMA PostMessageTyped ==
  ASSUME StoreTypeOK, NEW s \in Sessions, NEW r \in Runs,
         NEW strategy \in Strategies, NEW select \in BOOLEAN,
         PostMessage(s, r, strategy, select)
  PROVE  StoreTypeOK'
<1>1. PICK now \in RequestTimes :
        InsertQueued(r, [ session |-> s, turn |-> nextTurn[s], attempt |-> 1,
                          strategy |-> strategy, select |-> select,
                          createdAt |-> now ])
  BY DEF PostMessage
<1>2. [ session |-> s, turn |-> nextTurn[s], attempt |-> 1, strategy |-> strategy,
        select |-> select, createdAt |-> now ] \in Row
  BY RequestTimesAreNat DEF Row, StoreTypeOK
<1>3. /\ status' \in [Runs -> RunStatus]
      /\ row' \in [Runs -> Row]
      /\ events' \in [Runs -> Seq(EventType)]
  BY <1>1, <1>2, InsertTyped
<1>4. nextTurn' \in [Sessions -> Nat \ {0}] /\ nextAttempt' \in [Turns -> Nat]
  <2>1. <<s, nextTurn[s]>> \in Turns
    BY StoreAssumption DEF PostMessage, StoreTypeOK, Turns
  <2> QED
    BY <2>1 DEF PostMessage, StoreTypeOK
<1>5. selection' \in [Turns -> Runs \union {None}] /\ pending' \subseteq Sessions
  BY DEF PostMessage, StoreTypeOK
<1> QED
  BY <1>3, <1>4, <1>5 DEF StoreTypeOK

(* postRetry writes well-typed rows.                                        *)
LEMMA PostRetryTyped ==
  ASSUME StoreTypeOK, NEW s \in Sessions, NEW turn \in 1 .. MaxTurns, NEW r \in Runs,
         NEW strategy \in Strategies, NEW select \in BOOLEAN,
         PostRetry(s, turn, r, strategy, select)
  PROVE  StoreTypeOK'
<1>1. PICK now \in RequestTimes :
        InsertQueued(r, [ session |-> s, turn |-> turn,
                          attempt |-> nextAttempt[<<s, turn>>],
                          strategy |-> strategy, select |-> select,
                          createdAt |-> now ])
  BY DEF PostRetry
<1>2. <<s, turn>> \in Turns /\ turn \in Nat
  BY StoreAssumption DEF Turns
<1>3. [ session |-> s, turn |-> turn, attempt |-> nextAttempt[<<s, turn>>],
        strategy |-> strategy, select |-> select, createdAt |-> now ] \in Row
  BY <1>2, RequestTimesAreNat DEF Row, StoreTypeOK
<1>4. /\ status' \in [Runs -> RunStatus]
      /\ row' \in [Runs -> Row]
      /\ events' \in [Runs -> Seq(EventType)]
  BY <1>1, <1>3, InsertTyped
<1>5. nextTurn' \in [Sessions -> Nat \ {0}] /\ nextAttempt' \in [Turns -> Nat]
  BY <1>2 DEF PostRetry, StoreTypeOK
<1>6. selection' \in [Turns -> Runs \union {None}] /\ pending' \subseteq Sessions
  BY DEF PostRetry, StoreTypeOK
<1> QED
  BY <1>4, <1>5, <1>6 DEF StoreTypeOK

(* completeRun writes well-typed rows.                                      *)
LEMMA CompleteRunTyped ==
  ASSUME StoreTypeOK, NEW r \in Runs, NEW proposing \in BOOLEAN, CompleteRun(r, proposing),
         row[r].session \in Sessions
  PROVE  StoreTypeOK'
<1>1. <<"action.proposed", "run.completed">> \in Seq(EventType)
      /\ <<"run.completed">> \in Seq(EventType)
  BY DEF EventType, TERMINAL_EVENTS
<1>2. status' \in [Runs -> RunStatus] /\ row' \in [Runs -> Row]
      /\ nextTurn' \in [Sessions -> Nat \ {0}] /\ nextAttempt' \in [Turns -> Nat]
  BY DEF CompleteRun, StoreTypeOK, RunStatus, TERMINAL_STATUSES
<1>3. events' \in [Runs -> Seq(EventType)]
  BY <1>1 DEF CompleteRun, StoreTypeOK
<1>4. selection' \in [Turns -> Runs \union {None}]
  BY DEF CompleteRun, StoreTypeOK
<1>5. pending' \subseteq Sessions
  BY DEF CompleteRun, StoreTypeOK
<1> QED
  BY <1>2, <1>3, <1>4, <1>5 DEF StoreTypeOK

(* failRun writes well-typed rows.                                          *)
LEMMA FailRunTyped ==
  ASSUME StoreTypeOK, NEW r \in Runs, FailRun(r)
  PROVE  StoreTypeOK'
<1>1. "failed" \in RunStatus /\ "run.failed" \in EventType
  BY DEF RunStatus, TERMINAL_STATUSES, EventType, TERMINAL_EVENTS
<1>2. Move({r}, "failed", "run.failed")
  BY DEF FailRun
<1> QED
  BY <1>1, <1>2, MoveTyped DEF FailRun, StoreTypeOK

(* The finalisation of an aborted Run writes well-typed rows.               *)
LEMMA FinalizeTyped ==
  ASSUME StoreTypeOK, NEW r \in Runs, FinalizeCancelRequested(r)
  PROVE  StoreTypeOK'
<1>1. "cancelled" \in RunStatus /\ "run.cancelled" \in EventType
  BY DEF RunStatus, TERMINAL_STATUSES, EventType, TERMINAL_EVENTS
<1>2. Move({r}, "cancelled", "run.cancelled")
  BY DEF FinalizeCancelRequested
<1> QED
  BY <1>1, <1>2, MoveTyped DEF FinalizeCancelRequested, StoreTypeOK

(* cancelRun writes well-typed rows.                                        *)
LEMMA CancelRunTyped ==
  ASSUME StoreTypeOK, NEW r \in Runs, CancelRun(r)
  PROVE  StoreTypeOK'
<1>1. /\ {"cancelled", "cancel_requested"} \subseteq RunStatus
      /\ {"run.cancelled", "run.cancel_requested"} \subseteq EventType
  BY DEF RunStatus, TERMINAL_STATUSES, ACTIVE_STATUSES, EventType, TERMINAL_EVENTS
<1>2. UNCHANGED <<selection, pending>>
  BY DEF CancelRun
<1>3. CASE Move({r}, "cancelled", "run.cancelled")
  BY <1>1, <1>2, <1>3, MoveTyped DEF StoreTypeOK
<1>4. CASE Move({r}, "cancel_requested", "run.cancel_requested")
  BY <1>1, <1>2, <1>4, MoveTyped DEF StoreTypeOK
<1>5. CASE UNCHANGED <<status, row, events, nextTurn, nextAttempt>>
  BY <1>2, <1>5 DEF StoreTypeOK
<1> QED
  BY <1>3, <1>4, <1>5 DEF CancelRun

(* The recovery and drain sweeps write well-typed rows.                     *)
LEMMA SweepTyped ==
  ASSUME StoreTypeOK, SweepTerminals
  PROVE  StoreTypeOK'
<1>1. {"abandoned", "cancelled"} \subseteq RunStatus
      /\ {"run.abandoned", "run.cancelled"} \subseteq EventType
  BY DEF RunStatus, TERMINAL_STATUSES, EventType, TERMINAL_EVENTS
<1>2. status' \in [Runs -> RunStatus]
  BY <1>1 DEF SweepTerminals, StoreTypeOK
<1>3. events' \in [Runs -> Seq(EventType)]
  BY <1>1 DEF SweepTerminals, StoreTypeOK
<1> QED
  BY <1>2, <1>3 DEF SweepTerminals, StoreTypeOK

(* appendToolEvent writes a well-typed journal.                             *)
LEMMA ToolEventTyped ==
  ASSUME StoreTypeOK, NEW r \in Runs, AppendToolEvent(r)
  PROVE  StoreTypeOK'
  BY DEF AppendToolEvent, StoreTypeOK, EventType

(* A pump writes well-typed rows.                                           *)
LEMMA PickUpTyped ==
  ASSUME TypeOK, NEW launched \in SUBSET Runs, NEW orphaned \in SUBSET Runs,
         NEW leaked \in SUBSET Runs, PickUp(launched, orphaned, leaked)
  PROVE  /\ StoreTypeOK'
         /\ inFlight' \subseteq Runs /\ tasks' \subseteq Runs
         /\ UNCHANGED <<aborted, watchdogs, staged, phase, restarts>>
<1>1. {"running", "abandoned"} \subseteq RunStatus
      /\ {"run.started", "run.abandoned"} \subseteq EventType
  BY DEF RunStatus, TERMINAL_STATUSES, ACTIVE_STATUSES, EventType, TERMINAL_EVENTS
<1>2. status' \in [Runs -> RunStatus]
  BY <1>1 DEF PickUp, TypeOK, StoreTypeOK
<1>3. <<"run.started", "run.abandoned">> \in Seq(EventType)
  BY <1>1
<1>4. events' \in [Runs -> Seq(EventType)]
  BY <1>1, <1>3 DEF PickUp, TypeOK, StoreTypeOK
<1> QED
  BY <1>2, <1>4 DEF PickUp, TypeOK, StoreTypeOK

-----------------------------------------------------------------------------
(* The inductive invariant.                                                 *)

(* A row that exists belongs to a session.                                  *)
CreatedHasSession == \A r \in Runs : status[r] # "none" => row[r].session \in Sessions

(* What the process owns was started: it never waits in the queue.          *)
OwnedIsStarted == \A r \in inFlight \union tasks : status[r] \notin {"none", "queued"}

(* A process that is down remembers nothing.                                *)
DownIsEmpty == phase = "down" => staged = {} /\ tasks = {}

IInv ==
  /\ TypeOK
  /\ CreatedHasSession
  /\ OwnedIsStarted
  /\ DownIsEmpty
  /\ OneActivePerSession
  /\ AbortAfterCommit
  /\ StoppedIsSettled
  /\ StagedIsLive

(* The invariant holds of the empty database and a fresh process.           *)
LEMMA InitIInv == Init => IInv
<1> SUFFICES ASSUME Init PROVE IInv
  OBVIOUS
<1>1. TypeOK
  BY StoreInitTyped, EngineAssumption DEF Init, TypeOK
<1> QED
  BY <1>1 DEF Init, StoreInit, IInv, CreatedHasSession, OwnedIsStarted, DownIsEmpty,
     OneActivePerSession, AbortAfterCommit, StoppedIsSettled, StagedIsLive, ACTIVE_STATUSES

(* Every step is typed.                                                     *)
LEMMA TypeStep ==
  ASSUME TypeOK, CreatedHasSession, OwnedIsStarted, Next
  PROVE  TypeOK'
<1> USE DEF TypeOK, volatileVars, storeVars, StorageFails
<1>1. CASE Start
  BY <1>1, SweepTyped DEF Start
<1>2. CASE Crash
  BY <1>2 DEF Crash, StoreTypeOK
<1>3. CASE MarkDraining
  BY <1>3 DEF MarkDraining, StoreTypeOK
<1>4. CASE BeginDrain
  BY <1>4 DEF BeginDrain, StoreTypeOK
<1>5. CASE FinishDrain
  BY <1>5, SweepTyped DEF FinishDrain
<1>6. CASE DrainFails
  BY <1>6 DEF DrainFails, StoreTypeOK
<1>7. CASE Pump
  <2>1. OldestQueued(Room) \in SUBSET Runs
    BY DEF OldestQueued, Pickable
  <2>2. PickUp(OldestQueued(Room), {}, {})
    BY <1>7 DEF Pump
  <2> QED
    BY <1>7, <2>1, <2>2, PickUpTyped DEF Pump
<1>8. CASE PumpFaulty
  <2>1. PICK launched \in SUBSET OldestQueued(Room), orphaned \in SUBSET OldestQueued(Room),
             leaked \in SUBSET OldestQueued(Room) : PickUp(launched, orphaned, leaked)
    BY <1>8 DEF PumpFaulty
  <2>2. launched \in SUBSET Runs /\ orphaned \in SUBSET Runs /\ leaked \in SUBSET Runs
    BY DEF OldestQueued, Pickable
  <2> QED
    BY <1>8, <2>1, <2>2, PickUpTyped DEF PumpFaulty
<1>9. CASE \E s \in Sessions, r \in Runs, strategy \in Strategies, select \in BOOLEAN :
            Message(s, r, strategy, select)
  BY <1>9, PostMessageTyped DEF Message
<1>10. CASE \E s \in Sessions, r \in Runs, strategy \in Strategies, select \in BOOLEAN :
              \E turn \in 1 .. MaxTurns : Retry(s, turn, r, strategy, select)
  BY <1>10, PostRetryTyped DEF Retry
<1>11. CASE \E s \in Sessions : Resolve(s)
  BY <1>11 DEF Resolve, ResolveProposal, StoreTypeOK
<1>12. ASSUME NEW r \in Runs, RunStep(r)
       PROVE  TypeOK'
  <2>1. CASE Cancel(r)
    BY <2>1, CancelRunTyped DEF Cancel
  <2>2. CASE Stage(r)
    BY <2>2 DEF Stage, StoreTypeOK
  <2>3. CASE ToolEvent(r)
    BY <2>3, ToolEventTyped DEF ToolEvent
  <2>4. CASE TaskCompletes(r)
    <3>1. row[r].session \in Sessions
      BY <2>4 DEF TaskCompletes, CompleteRun, CreatedHasSession
    <3>2. StoreTypeOK'
      <4> DEFINE proposing == r \in staged
      <4>1. proposing \in BOOLEAN /\ CompleteRun(r, proposing)
        BY <2>4 DEF TaskCompletes
      <4> HIDE DEF proposing
      <4> QED
        BY <3>1, <4>1, CompleteRunTyped
    <3> QED
      BY <2>4, <3>2 DEF TaskCompletes, SettleOwnership, Release
  <2>5. CASE TaskRejected(r)
    BY <2>5 DEF TaskRejected, SettleOwnership, Release, StoreTypeOK
  <2>6. CASE TaskFails(r)
    BY <2>6, FailRunTyped DEF TaskFails, SettleOwnership, Release
  <2>7. CASE TaskDiscarded(r)
    <3>1. StoreTypeOK'
      BY <2>7, FinalizeTyped DEF TaskDiscarded, StoreTypeOK
    <3> QED
      BY <2>7, <3>1 DEF TaskDiscarded, Release
  <2>8. CASE TaskPersistFails(r)
    BY <2>8 DEF TaskPersistFails, StoreTypeOK
  <2>9. CASE WatchdogFires(r)
    <3>1. StoreTypeOK'
      BY <2>9, FinalizeTyped DEF WatchdogFires, StoreTypeOK
    <3> QED
      BY <2>9, <3>1 DEF WatchdogFires
  <2>10. CASE WatchdogFails(r)
    BY <2>10 DEF WatchdogFails, StoreTypeOK
  <2> QED
    BY <1>12, <2>1, <2>2, <2>3, <2>4, <2>5, <2>6, <2>7, <2>8, <2>9, <2>10 DEF RunStep
<1> QED
  BY <1>1, <1>2, <1>3, <1>4, <1>5, <1>6, <1>7, <1>8, <1>9, <1>10, <1>11, <1>12 DEF Next

-----------------------------------------------------------------------------
(* What a step does to the rows.                                            *)

(* The step inserts row r in session s and nothing else.                    *)
Inserts(r, s) ==
  /\ status[r] = "none"
  /\ ~BusySession(s)
  /\ status' = [status EXCEPT ![r] = "queued"]
  /\ row' = [row EXCEPT ![r] = row'[r]]
  /\ row'[r].session = s
  /\ UNCHANGED volatileVars
  /\ phase = "up" /\ UNCHANGED phase

(* The step moves rows along lifecycle edges only.                          *)
Follows ==
  /\ row' = row
  /\ \A q \in Runs :
       status'[q] # status[q] => <<status[q], status'[q]>> \in Lifecycle!Edge

(* A post inserts one row into a free session.                              *)
LEMMA InsertStep ==
  ASSUME StoreTypeOK, NEW s, NEW r \in Runs, NEW new, new.session = s, ~BusySession(s),
         InsertQueued(r, new), UNCHANGED <<volatileVars, phase>>, phase = "up"
  PROVE  Inserts(r, s)
  BY DEF InsertQueued, Inserts, StoreTypeOK

(* A pump moves rows along the edges of the lifecycle.                      *)
LEMMA PickUpStep ==
  ASSUME StoreTypeOK, NEW L, NEW O, NEW K,
         L \union O \union K \subseteq {r \in Runs : status[r] = "queued"}, PickUp(L, O, K)
  PROVE  Follows
  BY DEF PickUp, Follows, StoreTypeOK, Lifecycle!Edge

(* A sweep moves rows along the edges of the lifecycle.                     *)
LEMMA SweepStep ==
  ASSUME StoreTypeOK, SweepTerminals
  PROVE  Follows
  BY DEF SweepTerminals, Follows, StoreTypeOK, Lifecycle!Edge

(* So does every handler of a single Run.                                   *)
LEMMA RunStepFollows ==
  ASSUME TypeOK, NEW r \in Runs, RunStep(r)
  PROVE  Follows
<1> USE DEF TypeOK, StoreTypeOK, storeVars, Follows, Lifecycle!Edge
<1>1. CASE Cancel(r)
  BY <1>1 DEF Cancel, CancelRun, Move
<1>2. CASE Stage(r)
  BY <1>2 DEF Stage
<1>3. CASE ToolEvent(r)
  BY <1>3 DEF ToolEvent, AppendToolEvent
<1>4. CASE TaskCompletes(r)
  BY <1>4 DEF TaskCompletes, CompleteRun
<1>5. CASE TaskRejected(r)
  BY <1>5 DEF TaskRejected
<1>6. CASE TaskFails(r)
  BY <1>6 DEF TaskFails, FailRun, Move
<1>7. CASE TaskDiscarded(r)
  BY <1>7 DEF TaskDiscarded, FinalizeCancelRequested, Move
<1>8. CASE TaskPersistFails(r)
  BY <1>8 DEF TaskPersistFails
<1>9. CASE WatchdogFires(r)
  BY <1>9 DEF WatchdogFires, FinalizeCancelRequested, Move
<1>10. CASE WatchdogFails(r)
  BY <1>10 DEF WatchdogFails
<1> QED
  BY <1>1, <1>2, <1>3, <1>4, <1>5, <1>6, <1>7, <1>8, <1>9, <1>10 DEF RunStep

(* Every step inserts a row or follows the edges.                           *)
LEMMA StatusStep ==
  ASSUME TypeOK, Next
  PROVE  Follows \/ \E r \in Runs, s \in Sessions : Inserts(r, s)
<1> USE DEF TypeOK
<1>1. CASE Start \/ FinishDrain
  BY <1>1, SweepStep DEF Start, FinishDrain
<1>2. CASE Crash \/ MarkDraining \/ BeginDrain \/ DrainFails
  BY <1>2 DEF Crash, MarkDraining, BeginDrain, DrainFails, storeVars, Follows
<1>3. CASE Pump \/ PumpFaulty
  <2>1. OldestQueued(Room) \subseteq {r \in Runs : status[r] = "queued"}
    BY DEF OldestQueued, Pickable
  <2>2. PICK L \in SUBSET OldestQueued(Room), O \in SUBSET OldestQueued(Room),
             K \in SUBSET OldestQueued(Room) : PickUp(L, O, K)
    BY <1>3 DEF Pump, PumpFaulty
  <2> QED
    BY <2>1, <2>2, PickUpStep
<1>4. ASSUME NEW s \in Sessions, NEW r \in Runs, NEW strategy, NEW select,
             Message(s, r, strategy, select)
      PROVE  Inserts(r, s)
  <2>1. PICK now : InsertQueued(r, [ session |-> s, turn |-> nextTurn[s], attempt |-> 1,
                                     strategy |-> strategy, select |-> select,
                                     createdAt |-> now ])
    BY <1>4 DEF Message, PostMessage
  <2> QED
    BY <1>4, <2>1, InsertStep DEF Message, PostMessage
<1>5. ASSUME NEW s \in Sessions, NEW r \in Runs, NEW strategy, NEW select, NEW turn,
             Retry(s, turn, r, strategy, select)
      PROVE  Inserts(r, s)
  <2>1. PICK now : InsertQueued(r, [ session |-> s, turn |-> turn,
                                     attempt |-> nextAttempt[<<s, turn>>],
                                     strategy |-> strategy, select |-> select,
                                     createdAt |-> now ])
    BY <1>5 DEF Retry, PostRetry
  <2> QED
    BY <1>5, <2>1, InsertStep DEF Retry, PostRetry
<1>6. CASE \E s \in Sessions : Resolve(s)
  BY <1>6 DEF Resolve, ResolveProposal, Follows
<1>7. CASE \E r \in Runs : RunStep(r)
  BY <1>7, RunStepFollows
<1> QED
  BY <1>1, <1>2, <1>3, <1>4, <1>5, <1>6, <1>7 DEF Next

-----------------------------------------------------------------------------
(* The invariant is inductive.                                              *)

(* A session keeps at most one active Run.                                  *)
LEMMA SessionsStep ==
  ASSUME IInv, Next
  PROVE  CreatedHasSession' /\ OneActivePerSession'
<1> USE DEF IInv, TypeOK, StoreTypeOK, CreatedHasSession, OneActivePerSession,
        ACTIVE_STATUSES
<1>1. CASE Follows
  BY SMTT(40), <1>1 DEF Follows, Lifecycle!Edge
<1>2. ASSUME NEW r \in Runs, NEW s \in Sessions, Inserts(r, s)
      PROVE  CreatedHasSession' /\ OneActivePerSession'
  <2>1. \A q \in Runs \ {r} : status'[q] = status[q] /\ row'[q] = row[q]
    BY <1>2 DEF Inserts
  <2>2. status'[r] = "queued" /\ row'[r].session = s
    BY <1>2 DEF Inserts
  <2>3. \A q \in Runs : status[q] \in ACTIVE_STATUSES => row[q].session # s
    BY <1>2 DEF Inserts, BusySession
  <2> QED
    BY <2>1, <2>2, <2>3
<1> QED
  BY <1>1, <1>2, StatusStep

(* Rows never return to the queue.                                          *)
LEMMA StartedStaysStarted ==
  ASSUME TypeOK, Next, NEW q \in Runs, status[q] \notin {"none", "queued"}
  PROVE  status'[q] \notin {"none", "queued"}
<1>1. CASE Follows
  BY <1>1 DEF Follows, Lifecycle!Edge
<1>2. ASSUME NEW r \in Runs, NEW s \in Sessions, Inserts(r, s)
      PROVE  status'[q] \notin {"none", "queued"}
  BY <1>2 DEF Inserts, TypeOK, StoreTypeOK
<1> QED
  BY <1>1, <1>2, StatusStep

(* Nor do cancelled or settled rows run again.                              *)
LEMMA SettledStaysSettled ==
  ASSUME TypeOK, Next, NEW q \in Runs,
         status[q] \in {"cancel_requested"} \union TERMINAL_STATUSES
  PROVE  /\ status'[q] \in {"cancel_requested"} \union TERMINAL_STATUSES
         /\ status[q] \in TERMINAL_STATUSES => status'[q] = status[q]
<1> USE DEF TERMINAL_STATUSES
<1>1. CASE Follows
  BY <1>1 DEF Follows, Lifecycle!Edge
<1>2. ASSUME NEW r \in Runs, NEW s \in Sessions, Inserts(r, s)
      PROVE  status'[q] = status[q]
  BY <1>2 DEF Inserts, TypeOK, StoreTypeOK
<1> QED
  BY <1>1, <1>2, StatusStep

(* Whatever the engine owns has been started.                               *)
LEMMA OwnedStep ==
  ASSUME IInv, Next
  PROVE  OwnedIsStarted'
<1> DEFINE started == {q \in Runs : status'[q] \notin {"none", "queued"}}
<1> USE DEF IInv, OwnedIsStarted
<1>1. inFlight \union tasks \subseteq started
  BY StartedStaysStarted DEF TypeOK
<1>2. CASE Pump \/ PumpFaulty
  <2>1. OldestQueued(Room) \subseteq Runs
    BY DEF OldestQueued, Pickable
  <2>2. PICK L, O, K \in SUBSET OldestQueued(Room) : PickUp(L, O, K)
    BY <1>2 DEF Pump, PumpFaulty
  <2>3. L \subseteq started
    BY <2>1, <2>2 DEF PickUp
  <2> QED
    BY <1>1, <2>2, <2>3 DEF PickUp
<1>3. CASE ~(Pump \/ PumpFaulty)
  <2>1. inFlight' \subseteq inFlight /\ tasks' \subseteq tasks
    BY <1>3 DEF Next, RunStep, Start, Crash, MarkDraining, BeginDrain, FinishDrain,
       DrainFails, Message, Retry, Resolve, Cancel, Stage, ToolEvent, TaskCompletes,
       TaskRejected, TaskFails, TaskDiscarded, TaskPersistFails, WatchdogFires,
       WatchdogFails, SettleOwnership, Release, volatileVars
  <2> QED
    BY <1>1, <2>1
<1> QED
  BY <1>2, <1>3

(* A signal fires only after the commit.                                    *)
LEMMA AbortStep ==
  ASSUME IInv, Next
  PROVE  AbortAfterCommit'
<1> DEFINE settled == {q \in Runs : status'[q] \in {"cancel_requested"} \union TERMINAL_STATUSES}
<1>1. aborted \subseteq settled
  BY SettledStaysSettled DEF IInv, AbortAfterCommit, TypeOK
<1>2. CASE FinishDrain
  <2>1. inFlight \subseteq settled
    BY <1>2 DEF FinishDrain, SweepTerminals, IInv, TypeOK, StoreTypeOK, OwnedIsStarted,
       RunStatus, ACTIVE_STATUSES, TERMINAL_STATUSES
  <2> QED
    BY <1>1, <1>2, <2>1 DEF FinishDrain, AbortAfterCommit
<1>3. ASSUME NEW r \in Runs, Cancel(r)
      PROVE  AbortAfterCommit'
  <2>1. status[r] # "queued" => r \in settled
    BY <1>3 DEF Cancel, CancelRun, Move
  <2> QED
    BY <1>1, <1>3, <2>1 DEF Cancel, AbortAfterCommit
<1>4. CASE ~FinishDrain /\ ~\E r \in Runs : Cancel(r)
  <2>1. aborted' \subseteq aborted
    BY <1>4 DEF Next, RunStep, Start, Crash, MarkDraining, BeginDrain,
       DrainFails, Pump, PumpFaulty, PickUp, Message, Retry, Resolve, Stage, ToolEvent,
       TaskCompletes, TaskRejected, TaskFails, TaskDiscarded, TaskPersistFails,
       WatchdogFires, WatchdogFails, volatileVars
  <2> QED
    BY <1>1, <2>1 DEF AbortAfterCommit
<1> QED
  BY <1>2, <1>3, <1>4

(* While stopped nothing starts, and the step that stops sweeps first.      *)
LEMMA StoppedStep ==
  ASSUME IInv, Next
  PROVE  StoppedIsSettled'
<1> SUFFICES ASSUME phase' = "stopped"
             PROVE  \A q \in Runs : status'[q] \notin {"running", "cancel_requested"}
  BY DEF StoppedIsSettled
<1>1. CASE FinishDrain
  BY <1>1 DEF FinishDrain, SweepTerminals
<1>2. CASE ~FinishDrain
  <2>1. phase = "stopped" /\ ~Pump /\ ~PumpFaulty
    BY <1>2 DEF Next, RunStep, Start, Crash, MarkDraining, BeginDrain,
       DrainFails, Pump, PumpFaulty, PickUp, Message, Retry, Resolve, Cancel, Stage,
       ToolEvent, TaskCompletes, TaskRejected, TaskFails, TaskDiscarded,
       TaskPersistFails, WatchdogFires, WatchdogFails
  <2>2. \A q \in Runs : status[q] \notin {"running", "cancel_requested"}
    BY <2>1 DEF IInv, StoppedIsSettled
  <2>3. CASE \E r \in Runs : RunStep(r)
    BY <2>2, <2>3 DEF IInv, TypeOK, StoreTypeOK, RunStep, Cancel, CancelRun, Move, Stage,
       ToolEvent, AppendToolEvent, TaskCompletes, CompleteRun, TaskRejected, TaskFails,
       FailRun, TaskDiscarded, FinalizeCancelRequested, TaskPersistFails, WatchdogFires,
       WatchdogFails, storeVars
  <2>4. CASE ~\E r \in Runs : RunStep(r)
    BY <1>2, <2>1, <2>2, <2>4 DEF Next, Start, Crash, MarkDraining, BeginDrain,
       DrainFails, Message, Retry, Resolve, ResolveProposal, storeVars
  <2> QED
    BY <2>3, <2>4
<1> QED
  BY <1>1, <1>2

(* A process that is down owns nothing.                                     *)
LEMMA DownStep ==
  ASSUME IInv, Next
  PROVE  DownIsEmpty'
  BY DEF IInv, SettleOwnership, Release, DownIsEmpty, Next, RunStep, Start, Crash, MarkDraining, BeginDrain, FinishDrain,
     DrainFails, Pump, PumpFaulty, PickUp, Message, Retry, Resolve, Cancel, Stage,
     ToolEvent, TaskCompletes, TaskRejected, TaskFails, TaskDiscarded,
     TaskPersistFails, WatchdogFires, WatchdogFails, volatileVars

(* Staged entries belong to running Runs.                                   *)
LEMMA StagedStep ==
  ASSUME IInv, Next
  PROVE  StagedIsLive'
<1> USE DEF IInv, TypeOK, StoreTypeOK, StagedIsLive
<1>1. CASE Start \/ Crash
  BY <1>1 DEF Start, Crash, DownIsEmpty, volatileVars
<1>2. CASE MarkDraining \/ BeginDrain \/ DrainFails
  BY <1>2 DEF MarkDraining, BeginDrain, DrainFails, volatileVars, storeVars
<1>3. CASE FinishDrain
  BY <1>3 DEF FinishDrain
<1>4. CASE Pump \/ PumpFaulty
  <2>1. PICK L \in SUBSET OldestQueued(Room), O \in SUBSET OldestQueued(Room),
             K \in SUBSET OldestQueued(Room) : PickUp(L, O, K)
    BY <1>4 DEF Pump, PumpFaulty
  <2>2. OldestQueued(Room) \intersect staged = {}
    BY DEF OldestQueued, Pickable
  <2> QED
    BY <2>1, <2>2 DEF PickUp
<1>5. ASSUME NEW r \in Runs, NEW new, InsertQueued(r, new), UNCHANGED volatileVars
      PROVE  StagedIsLive'
  BY <1>5 DEF InsertQueued, volatileVars
<1>6. CASE \E s \in Sessions : Resolve(s)
  BY <1>6 DEF Resolve, ResolveProposal, volatileVars
<1>7. ASSUME NEW r \in Runs, RunStep(r)
      PROVE  StagedIsLive'
  <2>1. CASE Cancel(r)
    BY <2>1 DEF Cancel, CancelRun, Move
  <2>2. CASE Stage(r) \/ TaskRejected(r) \/ TaskPersistFails(r) \/ WatchdogFails(r)
    BY <2>2 DEF Stage, TaskRejected, TaskPersistFails, WatchdogFails, storeVars
  <2>3. CASE ToolEvent(r)
    BY <2>3 DEF ToolEvent, AppendToolEvent, volatileVars
  <2>4. CASE TaskCompletes(r)
    BY <2>4 DEF TaskCompletes, CompleteRun
  <2>5. CASE TaskFails(r)
    BY <2>5 DEF TaskFails, FailRun, Move
  <2>6. CASE TaskDiscarded(r) \/ WatchdogFires(r)
    BY <2>6 DEF TaskDiscarded, WatchdogFires, FinalizeCancelRequested, Move, storeVars
  <2> QED
    BY <1>7, <2>1, <2>2, <2>3, <2>4, <2>5, <2>6 DEF RunStep
<1>8. CASE \E s \in Sessions, r \in Runs, strategy \in Strategies, select \in BOOLEAN :
            \/ Message(s, r, strategy, select)
            \/ \E turn \in 1 .. MaxTurns : Retry(s, turn, r, strategy, select)
  BY ZenonT(60), <1>5, <1>8 DEF Message, Retry, PostMessage, PostRetry
<1> QED
  BY <1>1, <1>2, <1>3, <1>4, <1>6, <1>7, <1>8 DEF Next

(* Every step keeps the invariant.                                          *)
LEMMA NextIInv == IInv /\ [Next]_vars => IInv'
<1> SUFFICES ASSUME IInv, [Next]_vars PROVE IInv'
  OBVIOUS
<1>1. CASE Next
  <2>1. TypeOK'
    BY <1>1, TypeStep DEF IInv
  <2> QED
    BY <1>1, <2>1, SessionsStep, OwnedStep, AbortStep, StoppedStep, DownStep, StagedStep
       DEF IInv
<1>2. CASE UNCHANGED vars
  BY <1>2 DEF vars, storeVars, volatileVars, IInv, TypeOK, StoreTypeOK, CreatedHasSession,
     OwnedIsStarted, DownIsEmpty, OneActivePerSession, AbortAfterCommit, StoppedIsSettled,
     StagedIsLive
<1> QED
  BY <1>1, <1>2

(* IInv holds in every reachable state.                                     *)
THEOREM Invariance == Spec => []IInv
  BY InitIInv, NextIInv, PTL DEF Spec

(* Every table and every in-memory collection of the scheduler is well      *)
(* typed, through every handler, timer, crash and storage failure.          *)
THEOREM TypeCorrect == Spec => []TypeOK
<1>1. IInv => TypeOK
  BY DEF IInv
<1> QED
  BY <1>1, Invariance, PTL

(* A session never has two active Runs, for any number of clients posting,  *)
(* retrying and cancelling.                                                 *)
THEOREM OneActive == Spec => []OneActivePerSession
<1>1. IInv => OneActivePerSession
  BY DEF IInv
<1> QED
  BY <1>1, Invariance, PTL

(* An AbortSignal fires only after the store has committed that the result  *)
(* will not count.                                                          *)
THEOREM CommitBeforeAbort == Spec => []AbortAfterCommit
<1>1. IInv => AbortAfterCommit
  BY DEF IInv
<1> QED
  BY <1>1, Invariance, PTL

(* Once shutdown has returned no row claims to be executing.                *)
THEOREM DrainSettles == Spec => []StoppedIsSettled
<1>1. IInv => StoppedIsSettled
  BY DEF IInv
<1> QED
  BY <1>1, Invariance, PTL

(* The stager never holds a proposal of a Run that cannot commit it.        *)
THEOREM NoDeadProposal == Spec => []StagedIsLive
<1>1. IInv => StagedIsLive
  BY DEF IInv
<1> QED
  BY <1>1, Invariance, PTL

-----------------------------------------------------------------------------
(* Step properties.                                                         *)

(* No step writes to the journal of a terminal Run.                         *)
LEMMA TerminalStep ==
  ASSUME TypeOK, Next, NEW q \in Runs, status[q] \in TERMINAL_STATUSES
  PROVE  events'[q] = events[q]
<1> USE DEF TypeOK, StoreTypeOK, TERMINAL_STATUSES
<1>1. CASE Start \/ FinishDrain
  BY <1>1 DEF Start, FinishDrain, SweepTerminals
<1>2. CASE Crash \/ MarkDraining \/ BeginDrain \/ DrainFails
  BY <1>2 DEF Crash, MarkDraining, BeginDrain, DrainFails, storeVars
<1>3. CASE Pump \/ PumpFaulty
  <2>1. PICK L \in SUBSET OldestQueued(Room), O \in SUBSET OldestQueued(Room),
             K \in SUBSET OldestQueued(Room) : PickUp(L, O, K)
    BY <1>3 DEF Pump, PumpFaulty
  <2>2. q \notin OldestQueued(Room)
    BY DEF OldestQueued, Pickable
  <2> QED
    BY <2>1, <2>2 DEF PickUp
<1>4. ASSUME NEW r \in Runs, NEW new, InsertQueued(r, new)
      PROVE  events'[q] = events[q]
  BY <1>4 DEF InsertQueued
<1>5. CASE \E s \in Sessions, r \in Runs, strategy \in Strategies, select \in BOOLEAN :
            \/ Message(s, r, strategy, select)
            \/ \E turn \in 1 .. MaxTurns : Retry(s, turn, r, strategy, select)
  BY ZenonT(60), <1>4, <1>5 DEF Message, Retry, PostMessage, PostRetry
<1>6. CASE \E s \in Sessions : Resolve(s)
  BY <1>6 DEF Resolve, ResolveProposal
<1>7. ASSUME NEW r \in Runs, RunStep(r)
      PROVE  events'[q] = events[q]
  <2>1. CASE Cancel(r)
    BY <2>1 DEF Cancel, CancelRun, Move
  <2>2. CASE Stage(r) \/ TaskRejected(r) \/ TaskPersistFails(r) \/ WatchdogFails(r)
    BY <2>2 DEF Stage, TaskRejected, TaskPersistFails, WatchdogFails, storeVars
  <2>3. CASE ToolEvent(r)
    BY <2>3 DEF ToolEvent, AppendToolEvent, ACTIVE_STATUSES
  <2>4. CASE TaskCompletes(r)
    BY <2>4 DEF TaskCompletes, CompleteRun
  <2>5. CASE TaskFails(r)
    BY <2>5 DEF TaskFails, FailRun, Move
  <2>6. CASE TaskDiscarded(r) \/ WatchdogFires(r)
    BY <2>6 DEF TaskDiscarded, WatchdogFires, FinalizeCancelRequested, Move, storeVars
  <2> QED
    BY <1>7, <2>1, <2>2, <2>3, <2>4, <2>5, <2>6 DEF RunStep
<1> QED
  BY <1>1, <1>2, <1>3, <1>5, <1>6, <1>7 DEF Next

(* Once a Run is completed, failed, cancelled or abandoned, no later        *)
(* result, cancel, watchdog, sweep or restart changes it or its journal.    *)
THEOREM TerminalFinality == Spec => TerminalIsFinal
<1>1. TypeOK /\ [Next]_vars =>
        [\A r \in Runs : status[r] \in TERMINAL_STATUSES =>
           status'[r] = status[r] /\ events'[r] = events[r]]_vars
  BY TerminalStep, SettledStaysSettled
<1> QED
  BY <1>1, TypeCorrect, PTL DEF Spec, TerminalIsFinal

-----------------------------------------------------------------------------
(* Refinement.                                                              *)

(* The empty database is an initial state of the lifecycle.                 *)
LEMMA RefineInit == Init => Lifecycle!LifecycleInit
  BY DEF Init, StoreInit, NoRow, Lifecycle!LifecycleInit

(* Every step is a step of the lifecycle or leaves it alone.                *)
LEMMA RefineStep ==
  ASSUME TypeOK, TypeOK', [Next]_vars
  PROVE  [Lifecycle!LifecycleNext]_(Lifecycle!lifecycleVars)
<1> USE DEF TypeOK, StoreTypeOK
<1>1. CASE Next /\ Follows
  <2>1. Lifecycle!Advance
    BY <1>1 DEF Follows, Lifecycle!Advance, RunStatus, Lifecycle!RunStatus,
       ACTIVE_STATUSES, Lifecycle!ACTIVE_STATUSES, TERMINAL_STATUSES,
       Lifecycle!TERMINAL_STATUSES
  <2> QED
    BY <2>1 DEF Lifecycle!LifecycleNext
<1>2. ASSUME NEW r \in Runs, NEW s \in Sessions, Inserts(r, s)
      PROVE  Lifecycle!Create(r, s)
  <2>1. ~Lifecycle!BusySession(s)
    BY <1>2 DEF Inserts, BusySession, Lifecycle!BusySession, ACTIVE_STATUSES,
       Lifecycle!ACTIVE_STATUSES
  <2>2. [q \in Runs |-> row'[q].session]
          = [[q \in Runs |-> row[q].session] EXCEPT ![r] = s]
    BY <1>2 DEF Inserts
  <2> QED
    BY <1>2, <2>1, <2>2 DEF Inserts, Lifecycle!Create
<1>3. CASE UNCHANGED vars
  BY <1>3 DEF vars, storeVars, Lifecycle!lifecycleVars
<1> QED
  BY <1>1, <1>2, <1>3, StatusStep DEF Lifecycle!LifecycleNext

(* The engine implements the published Run lifecycle: whatever happens to   *)
(* the process, rows are inserted one per free session and move along the   *)
(* allowed edges only.                                                      *)
THEOREM Refinement == Spec => RefinesLifecycle
<1>1. TypeOK /\ TypeOK' /\ [Next]_vars => [Lifecycle!LifecycleNext]_(Lifecycle!lifecycleVars)
  BY RefineStep
<1> QED
  BY <1>1, RefineInit, TypeCorrect, PTL DEF Spec, RefinesLifecycle, Lifecycle!LifecycleSpec
-----------------------------------------------------------------------------
(* The journal.                                                             *)

(* The transitions of a row with the event each of them journals.           *)
Journals(from, to, type) ==
  <<from, to, type>> \in
    { <<"none", "queued", "run.queued">>,
      <<"queued", "running", "run.started">>,
      <<"queued", "cancelled", "run.cancelled">>,
      <<"running", "cancel_requested", "run.cancel_requested">>,
      <<"running", "completed", "run.completed">>,
      <<"running", "failed", "run.failed">>,
      <<"running", "abandoned", "run.abandoned">>,
      <<"cancel_requested", "cancelled", "run.cancelled">> }

(* What a step does to row q and its journal.                               *)
JournalKept(q) == status'[q] = status[q] /\ events'[q] = events[q]

ToolJournalled(q) ==
  /\ status[q] \in ACTIVE_STATUSES
  /\ status'[q] = status[q]
  /\ events'[q] = Append(events[q], "tool")

MoveJournalled(q) ==
  \E type \in EventType : /\ Journals(status[q], status'[q], type)
                          /\ events'[q] = Append(events[q], type)

ProposalJournalled(q) ==
  /\ status[q] = "running" /\ status'[q] = "completed"
  /\ events'[q] = events[q] \o <<"action.proposed", "run.completed">>

OrphanJournalled(q) ==
  /\ status[q] = "queued" /\ status'[q] = "abandoned"
  /\ events'[q] = events[q] \o <<"run.started", "run.abandoned">>

JournalEffect(q) ==
  \/ JournalKept(q)
  \/ ToolJournalled(q)
  \/ MoveJournalled(q)
  \/ ProposalJournalled(q)
  \/ OrphanJournalled(q)

(* Every step journals what it does, row by row.                            *)
LEMMA JournalStep ==
  ASSUME TypeOK, Next, NEW q \in Runs
  PROVE  JournalEffect(q)
<1> USE DEF TypeOK, StoreTypeOK, JournalEffect
<1>a. ASSUME NEW S \in SUBSET Runs, NEW to, NEW type \in EventType, Move(S, to, type),
             \A r \in S : Journals(status[r], to, type)
      PROVE  JournalEffect(q)
  <2>1. CASE q \in S
    BY <1>a, <2>1 DEF Move, MoveJournalled
  <2>2. CASE q \notin S
    BY <1>a, <2>2 DEF Move, JournalKept
  <2> QED
    BY <2>1, <2>2
<1>b. /\ TERMINAL_EVENTS \subseteq EventType
      /\ {"run.queued", "run.started", "run.cancel_requested"} \subseteq EventType
  BY DEF EventType
<1> USE <1>b DEF TERMINAL_EVENTS
<1>1. CASE Start \/ FinishDrain
  <2>1. SweepTerminals
    BY <1>1 DEF Start, FinishDrain
  <2>2. CASE status[q] = "running"
    BY <2>1, <2>2 DEF SweepTerminals, MoveJournalled, Journals
  <2>3. CASE status[q] = "cancel_requested"
    BY <2>1, <2>3 DEF SweepTerminals, MoveJournalled, Journals
  <2>4. CASE status[q] \notin {"running", "cancel_requested"}
    BY <2>1, <2>4 DEF SweepTerminals, JournalKept
  <2> QED
    BY <2>2, <2>3, <2>4
<1>2. CASE Crash \/ MarkDraining \/ BeginDrain \/ DrainFails
  BY <1>2 DEF Crash, MarkDraining, BeginDrain, DrainFails, storeVars, JournalKept
<1>3. CASE Pump \/ PumpFaulty
  <2>1. PICK L \in SUBSET OldestQueued(Room), O \in SUBSET OldestQueued(Room),
             K \in SUBSET OldestQueued(Room) : PickUp(L, O, K)
    BY <1>3 DEF Pump, PumpFaulty
  <2>2. q \in OldestQueued(Room) => status[q] = "queued"
    BY DEF OldestQueued, Pickable
  <2>3. CASE q \in L \union K
    <3>1. status[q] = "queued" /\ status'[q] = "running"
          /\ events'[q] = Append(events[q], "run.started")
      BY <2>1, <2>2, <2>3 DEF PickUp
    <3> QED
      BY <3>1 DEF MoveJournalled, Journals
  <2>4. CASE q \in O /\ q \notin L \union K
    BY <2>1, <2>2, <2>4 DEF PickUp, OrphanJournalled
  <2>5. CASE q \notin L \union O \union K
    BY <2>1, <2>5 DEF PickUp, JournalKept
  <2> QED
    BY <2>3, <2>4, <2>5
<1>4. ASSUME NEW r \in Runs, NEW new, InsertQueued(r, new)
      PROVE  JournalEffect(q)
  <2>1. CASE q = r
    <3>1. status[q] = "none" /\ status'[q] = "queued"
          /\ events'[q] = Append(events[q], "run.queued")
      BY <1>4, <2>1 DEF InsertQueued
    <3> QED
      BY <3>1 DEF MoveJournalled, Journals
  <2>2. CASE q # r
    BY <1>4, <2>2 DEF InsertQueued, JournalKept
  <2> QED
    BY <2>1, <2>2
<1>5. CASE \E s \in Sessions, r \in Runs, strategy \in Strategies, select \in BOOLEAN :
            \/ Message(s, r, strategy, select)
            \/ \E turn \in 1 .. MaxTurns : Retry(s, turn, r, strategy, select)
  BY ZenonT(60), <1>4, <1>5 DEF Message, Retry, PostMessage, PostRetry
<1>6. CASE \E s \in Sessions : Resolve(s)
  BY <1>6 DEF Resolve, ResolveProposal, JournalKept
<1>7. ASSUME NEW r \in Runs, RunStep(r)
      PROVE  JournalEffect(q)
  <2>1. CASE Cancel(r)
    <3>1. CASE status[r] = "queued" /\ Move({r}, "cancelled", "run.cancelled")
      BY <1>a, <3>1 DEF Journals
    <3>2. CASE status[r] = "running" /\ Move({r}, "cancel_requested", "run.cancel_requested")
      BY <1>a, <3>2 DEF Journals
    <3>3. CASE UNCHANGED <<status, events>>
      BY <3>3 DEF JournalKept
    <3> QED
      BY <2>1, <3>1, <3>2, <3>3 DEF Cancel, CancelRun
  <2>2. CASE Stage(r) \/ TaskRejected(r) \/ TaskPersistFails(r) \/ WatchdogFails(r)
    BY <2>2 DEF Stage, TaskRejected, TaskPersistFails, WatchdogFails, storeVars, JournalKept
  <2>3. CASE ToolEvent(r)
    BY <2>3 DEF ToolEvent, AppendToolEvent, ToolJournalled, JournalKept
  <2>4. CASE TaskCompletes(r)
    <3>1. CASE q # r
      BY <2>4, <3>1 DEF TaskCompletes, CompleteRun, JournalKept
    <3>2. CASE q = r /\ r \in staged
      BY <2>4, <3>2 DEF TaskCompletes, CompleteRun, ProposalJournalled
    <3>3. CASE q = r /\ r \notin staged
      <4>1. status[q] = "running" /\ status'[q] = "completed"
            /\ events'[q] = events[q] \o <<"run.completed">>
        BY <2>4, <3>3 DEF TaskCompletes, CompleteRun
      <4>2. events[q] \o <<"run.completed">> = Append(events[q], "run.completed")
        BY DEF EventType
      <4> QED
        BY <4>1, <4>2 DEF MoveJournalled, Journals
    <3> QED
      BY <3>1, <3>2, <3>3
  <2>5. CASE TaskFails(r)
    <3>1. status[r] = "running" /\ Move({r}, "failed", "run.failed")
      BY <2>5 DEF TaskFails, FailRun
    <3>2. CASE q = r
      <4>1. status'[q] = "failed" /\ events'[q] = Append(events[q], "run.failed")
        BY <3>1, <3>2 DEF Move
      <4> QED
        BY <3>1, <3>2, <4>1 DEF MoveJournalled, Journals
    <3>3. CASE q # r
      BY <3>1, <3>3 DEF Move, JournalKept
    <3> QED
      BY <3>2, <3>3
  <2>6. ASSUME FinalizeCancelRequested(r) PROVE JournalEffect(q)
    BY <1>a, <2>6 DEF FinalizeCancelRequested, Journals
  <2>7. CASE TaskDiscarded(r) \/ WatchdogFires(r)
    <3>1. FinalizeCancelRequested(r) \/ UNCHANGED storeVars
      BY <2>7 DEF TaskDiscarded, WatchdogFires
    <3> QED
      BY <2>6, <3>1 DEF storeVars, JournalKept
  <2> QED
    BY <1>7, <2>1, <2>2, <2>3, <2>4, <2>5, <2>7 DEF RunStep
<1> QED
  BY <1>1, <1>2, <1>3, <1>5, <1>6, <1>7 DEF Next

(* The story a journal tells of its row.                                    *)
StoryOf(log, st) ==
  /\ (\E i \in 1 .. Len(log) : log[i] \in TERMINAL_EVENTS) <=> st \in TERMINAL_STATUSES
  /\ \A i \in 1 .. Len(log) : log[i] \in TERMINAL_EVENTS => i = Len(log)
  /\ \A i \in 1 .. Len(log) : log[i] = "run.cancel_requested" => st \in {"cancel_requested", "cancelled"}
  /\ \A i \in 1 .. Len(log) : log[i] = "action.proposed" => st = "completed"

JournalTold == \A r \in Runs : StoryOf(events[r], status[r])

(* One more event that fits the transition keeps the story.                 *)
LEMMA StoryAppends ==
  ASSUME NEW log \in Seq(EventType), NEW from \in RunStatus, NEW to \in RunStatus,
         NEW type \in EventType, StoryOf(log, from),
         \/ Journals(from, to, type)
         \/ type = "tool" /\ from = to /\ from \in ACTIVE_STATUSES
  PROVE  StoryOf(Append(log, type), to)
<1> DEFINE new == Append(log, type)
<1>1. /\ Len(log) \in Nat /\ Len(new) = Len(log) + 1
      /\ \A i \in 1 .. Len(log) : new[i] = log[i]
      /\ new[Len(log) + 1] = type
  OBVIOUS
<1>2. from \notin TERMINAL_STATUSES
  BY DEF Journals, TERMINAL_STATUSES, ACTIVE_STATUSES
<1>3. \A i \in 1 .. Len(log) : /\ log[i] \notin TERMINAL_EVENTS
                               /\ log[i] # "action.proposed"
                               /\ log[i] = "run.cancel_requested" => from = "cancel_requested"
  BY <1>2 DEF StoryOf, TERMINAL_STATUSES
<1>4. /\ type \in TERMINAL_EVENTS <=> to \in TERMINAL_STATUSES
      /\ type # "action.proposed"
      /\ type = "run.cancel_requested" => to = "cancel_requested"
      /\ from = "cancel_requested" => to \in {"cancel_requested", "cancelled"}
  BY DEF Journals, TERMINAL_STATUSES, ACTIVE_STATUSES, TERMINAL_EVENTS
<1>5. \A i \in 1 .. Len(new) : i \in 1 .. Len(log) \/ i = Len(log) + 1
  BY <1>1
<1> HIDE DEF new
<1> QED
  BY <1>1, <1>3, <1>4, <1>5 DEF StoryOf, new

(* Two more events, the second one terminal.                                *)
LEMMA StoryConcats ==
  ASSUME NEW log \in Seq(EventType), NEW from \in ACTIVE_STATUSES \ {"cancel_requested"},
         NEW to \in TERMINAL_STATUSES,
         NEW a \in {"action.proposed", "run.started"}, NEW b \in TERMINAL_EVENTS,
         StoryOf(log, from), a = "action.proposed" => to = "completed"
  PROVE  StoryOf(log \o <<a, b>>, to)
<1> DEFINE new == log \o <<a, b>>
<1>0. <<a, b>> \in Seq(EventType) /\ Len(<<a, b>>) = 2 /\ <<a, b>>[1] = a /\ <<a, b>>[2] = b
  BY DEF EventType
<1>1. /\ Len(log) \in Nat /\ Len(new) = Len(log) + 2
      /\ \A i \in 1 .. Len(log) + 2 :
           new[i] = IF i <= Len(log) THEN log[i] ELSE <<a, b>>[i - Len(log)]
  BY <1>0, ConcatProperties
<1>2. /\ \A i \in 1 .. Len(log) : new[i] = log[i]
      /\ new[Len(log) + 1] = a /\ new[Len(log) + 2] = b
  BY <1>0, <1>1
<1>3. \A i \in 1 .. Len(log) : /\ log[i] \notin TERMINAL_EVENTS
                               /\ log[i] # "action.proposed"
                               /\ log[i] # "run.cancel_requested"
  BY DEF StoryOf, TERMINAL_STATUSES, ACTIVE_STATUSES
<1>4. \A i \in 1 .. Len(new) : i \in 1 .. Len(log) \/ i = Len(log) + 1 \/ i = Len(log) + 2
  BY <1>1
<1>5. /\ a \notin TERMINAL_EVENTS /\ a # "run.cancel_requested"
      /\ b # "run.cancel_requested" /\ b # "action.proposed"
  BY DEF TERMINAL_EVENTS
<1> HIDE DEF new
<1> QED
  BY <1>1, <1>2, <1>3, <1>4, <1>5 DEF StoryOf, new

LEMMA ToldStep ==
  ASSUME TypeOK, TypeOK', JournalTold, [Next]_vars
  PROVE  JournalTold'
<1> SUFFICES ASSUME NEW q \in Runs PROVE StoryOf(events[q], status[q])'
  BY DEF JournalTold
<1>0. /\ StoryOf(events[q], status[q]) /\ events[q] \in Seq(EventType)
      /\ status[q] \in RunStatus /\ status'[q] \in RunStatus
  BY DEF JournalTold, TypeOK, StoreTypeOK
<1>1. JournalEffect(q)
  BY JournalStep DEF vars, storeVars, JournalEffect, JournalKept
<1>2. CASE JournalKept(q)
  BY <1>0, <1>2 DEF JournalKept, StoryOf
<1>3. CASE ToolJournalled(q)
  <2>1. StoryOf(Append(events[q], "tool"), status'[q])
    BY <1>0, <1>3, StoryAppends DEF ToolJournalled, EventType
  <2> QED
    BY <1>3, <2>1 DEF ToolJournalled, StoryOf
<1>4. CASE MoveJournalled(q)
  <2>1. PICK type \in EventType : /\ Journals(status[q], status'[q], type)
                                  /\ events'[q] = Append(events[q], type)
    BY <1>4 DEF MoveJournalled
  <2>2. StoryOf(Append(events[q], type), status'[q])
    BY <1>0, <2>1, StoryAppends
  <2> QED
    BY <2>1, <2>2 DEF StoryOf
<1>5. CASE ProposalJournalled(q)
  <2>1. StoryOf(events[q] \o <<"action.proposed", "run.completed">>, status'[q])
    BY <1>0, <1>5, StoryConcats DEF ProposalJournalled, ACTIVE_STATUSES, TERMINAL_STATUSES,
       TERMINAL_EVENTS
  <2> QED
    BY <1>5, <2>1 DEF ProposalJournalled, StoryOf
<1>6. CASE OrphanJournalled(q)
  <2>1. StoryOf(events[q] \o <<"run.started", "run.abandoned">>, status'[q])
    BY <1>0, <1>6, StoryConcats DEF OrphanJournalled, ACTIVE_STATUSES, TERMINAL_STATUSES,
       TERMINAL_EVENTS
  <2> QED
    BY <1>6, <2>1 DEF OrphanJournalled, StoryOf
<1> QED
  BY <1>1, <1>2, <1>3, <1>4, <1>5, <1>6 DEF JournalEffect

-----------------------------------------------------------------------------
(* The execution bound.                                                     *)

(* Where a row stands in the order of pickup: how many go before it.        *)
Ahead(r) == {q \in Pickable : Before(q, r)}

(* Two different rows have different places.                                *)
LEMMA PlacesDiffer ==
  ASSUME TypeOK, NEW a \in Pickable, NEW b \in Pickable, Before(a, b)
  PROVE  Cardinality(Ahead(a)) < Cardinality(Ahead(b))
<1>1. \A r \in Pickable : r \in Nat /\ row[r].createdAt \in Nat
  BY StoreAssumption DEF Pickable, TypeOK, StoreTypeOK, Row
<1>2. Ahead(a) \in SUBSET Ahead(b)
  BY <1>1 DEF Ahead, Before
<1>3. a \in Ahead(b) /\ a \notin Ahead(a)
  BY <1>1 DEF Ahead, Before
<1>4. IsFiniteSet(Ahead(b))
  BY StoreAssumption, FS_Subset DEF Ahead, Pickable
<1>5. IsFiniteSet(Ahead(a)) /\ Cardinality(Ahead(a)) <= Cardinality(Ahead(b))
      /\ Cardinality(Ahead(a)) # Cardinality(Ahead(b))
  BY <1>2, <1>3, <1>4, FS_Subset
<1>6. Cardinality(Ahead(a)) \in Nat /\ Cardinality(Ahead(b)) \in Nat
  BY <1>4, <1>5, FS_CardinalityType
<1> QED
  BY <1>5, <1>6

(* The pump never takes more rows than it has room for.                     *)
LEMMA OldestQueuedFits ==
  ASSUME TypeOK, NEW room \in Nat
  PROVE  /\ IsFiniteSet(OldestQueued(room))
         /\ Cardinality(OldestQueued(room)) <= room
<1> DEFINE S == OldestQueued(room)
           T == 0 .. (room - 1)
           place == [r \in S |-> Cardinality(Ahead(r))]
<1>1. \A r \in S : r \in Pickable /\ Cardinality(Ahead(r)) < room
  BY DEF OldestQueued, Ahead
<1>2. \A r \in S : Cardinality(Ahead(r)) \in Nat
  <2>1. \A r \in Runs : IsFiniteSet(Ahead(r))
    BY StoreAssumption, FS_Subset DEF Ahead, Pickable
  <2> QED
    BY <1>1, <2>1, FS_CardinalityType DEF Pickable
<1>3. place \in [S -> T]
  BY <1>1, <1>2
<1>4. ASSUME NEW a \in S, NEW b \in S, place[a] = place[b] PROVE a = b
  <2>1. a \in Nat /\ b \in Nat /\ row[a].createdAt \in Nat /\ row[b].createdAt \in Nat
    BY <1>1, StoreAssumption DEF Pickable, TypeOK, StoreTypeOK, Row
  <2>2. Before(a, b) \/ Before(b, a) \/ a = b
    BY <2>1 DEF Before
  <2>3. ~ Before(a, b) /\ ~ Before(b, a)
    BY <1>1, <1>2, <1>4, PlacesDiffer
  <2> QED
    BY <2>2, <2>3
<1>5. place \in Injection(S, T)
  BY <1>3, <1>4 DEF Injection, IsInjective
<1>6. IsFiniteSet(T) /\ Cardinality(T) = room
  BY FS_Interval
<1> HIDE DEF S, T, place
<1>7. IsFiniteSet(S) /\ Cardinality(S) <= Cardinality(T)
  BY <1>5, <1>6, FS_Injection
<1> QED
  BY <1>6, <1>7 DEF S

(* A step leaves the set of owned runs, shrinks it, or fills it.            *)
LEMMA InFlightEffect ==
  ASSUME [Next]_vars
  PROVE  \/ inFlight' \subseteq inFlight
         \/ Room > 0 /\ \E L \in SUBSET OldestQueued(Room) : inFlight' = inFlight \union L
<1>1. CASE Pump \/ PumpFaulty
  BY <1>1 DEF Pump, PumpFaulty, PickUp
<1>2. CASE ~(Pump \/ PumpFaulty) /\ Next
  BY <1>2 DEF Next, RunStep, Start, Crash, MarkDraining, BeginDrain, FinishDrain,
     DrainFails, Message, Retry, Resolve, Cancel, Stage, ToolEvent, TaskCompletes,
     TaskRejected, TaskFails, TaskDiscarded, TaskPersistFails, WatchdogFires,
     WatchdogFails, SettleOwnership, Release, volatileVars
<1>3. CASE UNCHANGED vars
  BY <1>3 DEF vars, volatileVars
<1> QED
  BY <1>1, <1>2, <1>3

LEMMA BoundStep ==
  ASSUME TypeOK, InFlightBounded, [Next]_vars
  PROVE  InFlightBounded'
<1>1. IsFiniteSet(inFlight) /\ Cardinality(inFlight) \in Nat
  BY StoreAssumption, FS_Subset, FS_CardinalityType DEF TypeOK
<1>2. CASE inFlight' \subseteq inFlight
  <2>1. Cardinality(inFlight') <= Cardinality(inFlight) /\ Cardinality(inFlight') \in Nat
    BY <1>1, <1>2, FS_Subset, FS_CardinalityType
  <2> QED
    BY <1>1, <2>1, EngineAssumption DEF InFlightBounded
<1>3. ASSUME Room > 0, NEW L \in SUBSET OldestQueued(Room), inFlight' = inFlight \union L
      PROVE  InFlightBounded'
  <2>1. Room \in Nat
    BY <1>1, <1>3, EngineAssumption DEF Room
  <2>2. IsFiniteSet(OldestQueued(Room)) /\ Cardinality(OldestQueued(Room)) <= Room
    BY <2>1, OldestQueuedFits
  <2>3. IsFiniteSet(L) /\ Cardinality(L) <= Cardinality(OldestQueued(Room))
    BY <2>2, FS_Subset
  <2>4. /\ Cardinality(L) \in Nat /\ Cardinality(OldestQueued(Room)) \in Nat
        /\ IsFiniteSet(inFlight \cap L)
    BY <1>1, <2>2, <2>3, FS_CardinalityType, FS_Intersection
  <2>5. Cardinality(inFlight \cap L) \in Nat
    BY <2>4, FS_CardinalityType
  <2>6. Cardinality(inFlight') = Cardinality(inFlight) + Cardinality(L) - Cardinality(inFlight \cap L)
    BY <1>1, <1>3, <2>3, FS_Union
  <2> QED
    BY <1>1, <2>2, <2>3, <2>4, <2>5, <2>6, EngineAssumption DEF InFlightBounded, Room
<1> QED
  BY <1>2, <1>3, InFlightEffect

(* The journal tells the story of its row, a proposal is journalled only    *)
(* with its Run's completion, and the execution bound holds, whatever       *)
(* fails, races or restarts (the transactions of the repository, pump()).   *)
THEOREM JournalSound == Spec => []JournalSafe
<1> DEFINE Told == JournalTold /\ InFlightBounded
<1>1. Init => Told
  <2> SUFFICES ASSUME Init PROVE Told
    OBVIOUS
  <2>1. JournalTold
    <3>1. \A r \in Runs : events[r] = << >> /\ status[r] = "none"
      BY DEF Init, StoreInit
    <3> QED
      BY <3>1 DEF JournalTold, StoryOf, TERMINAL_STATUSES
  <2>2. InFlightBounded
    BY FS_EmptySet, EngineAssumption DEF Init, InFlightBounded
  <2> QED
    BY <2>1, <2>2
<1>2. TypeOK /\ TypeOK' /\ Told /\ [Next]_vars => Told'
  BY ToldStep, BoundStep
<1>3. TypeOK /\ Told => JournalSafe
  <2> SUFFICES ASSUME TypeOK, Told PROVE JournalSafe
    OBVIOUS
  <2>1. \A r \in Runs : events[r] \in Seq(EventType)
    BY DEF TypeOK, StoreTypeOK
  <2>2. \A r \in Runs : DOMAIN events[r] = 1 .. Len(events[r])
    BY <2>1, LenProperties
  <2>3. JournalMatchesStatus
    BY <2>2 DEF JournalTold, StoryOf, JournalMatchesStatus
  <2>4. ProposalOnlyIfCompleted
    BY <2>2 DEF JournalTold, StoryOf, ProposalOnlyIfCompleted
  <2> QED
    BY <2>3, <2>4 DEF JournalSafe
<1> QED
  BY <1>1, <1>2, <1>3, TypeCorrect, PTL DEF Spec
-----------------------------------------------------------------------------
(* The selection of a turn.                                                 *)

(* The counters run ahead of the rows they numbered.                        *)
CountersAhead ==
  /\ \A s \in Sessions : nextTurn[s] <= MaxTurns + 1
  /\ \A r \in Runs :
       status[r] # "none" => /\ TurnOf(r) \in Turns
                             /\ row[r].turn < nextTurn[row[r].session]
                             /\ row[r].attempt < nextAttempt[TurnOf(r)]

(* The attempt of a turn that is still active is its newest one.            *)
ActiveIsNewest ==
  \A r, q \in Runs :
    /\ status[r] # "none" /\ status[q] \in ACTIVE_STATUSES
    /\ TurnOf(r) = TurnOf(q)
    => row[r].attempt <= row[q].attempt

SelectionInv == CountersAhead /\ ActiveIsNewest /\ SelectionIsLatestSuccess

(* A step that completes nothing leaves the turns as they are.              *)
TurnsKept ==
  /\ UNCHANGED <<row, nextTurn, nextAttempt, selection>>
  /\ \A q \in Runs : /\ status'[q] = "completed" <=> status[q] = "completed"
                     /\ status'[q] \in ACTIVE_STATUSES => status[q] \in ACTIVE_STATUSES
                     /\ status'[q] # "none" => status[q] # "none"

LEMMA TurnsEffect ==
  ASSUME TypeOK, Next
  PROVE  \/ TurnsKept
         \/ \E r \in Runs, proposing \in BOOLEAN : CompleteRun(r, proposing)
         \/ \E s \in Sessions, r \in Runs, strategy \in Strategies, select \in BOOLEAN :
              \/ PostMessage(s, r, strategy, select)
              \/ \E turn \in 1 .. MaxTurns : PostRetry(s, turn, r, strategy, select)
<1> USE DEF TypeOK, StoreTypeOK, storeVars, TurnsKept, ACTIVE_STATUSES
<1>1. CASE Start \/ FinishDrain
  BY <1>1 DEF Start, FinishDrain, SweepTerminals
<1>2. CASE Crash \/ MarkDraining \/ BeginDrain \/ DrainFails
  BY <1>2 DEF Crash, MarkDraining, BeginDrain, DrainFails
<1>3. CASE Pump \/ PumpFaulty
  <2>1. PICK L \in SUBSET OldestQueued(Room), O \in SUBSET OldestQueued(Room),
             K \in SUBSET OldestQueued(Room) : PickUp(L, O, K)
    BY <1>3 DEF Pump, PumpFaulty
  <2>2. \A q \in OldestQueued(Room) : status[q] = "queued"
    BY DEF OldestQueued, Pickable
  <2> QED
    BY <2>1, <2>2 DEF PickUp
<1>4. CASE \E s \in Sessions, r \in Runs, strategy \in Strategies, select \in BOOLEAN :
            \/ Message(s, r, strategy, select)
            \/ \E turn \in 1 .. MaxTurns : Retry(s, turn, r, strategy, select)
  BY <1>4 DEF Message, Retry
<1>5. CASE \E s \in Sessions : Resolve(s)
  BY <1>5 DEF Resolve, ResolveProposal
<1>6. ASSUME NEW r \in Runs, RunStep(r)
      PROVE  TurnsKept \/ \E proposing \in BOOLEAN : CompleteRun(r, proposing)
  <2>1. CASE Cancel(r)
    BY <2>1 DEF Cancel, CancelRun, Move
  <2>2. CASE Stage(r) \/ TaskRejected(r) \/ TaskPersistFails(r) \/ WatchdogFails(r)
    BY <2>2 DEF Stage, TaskRejected, TaskPersistFails, WatchdogFails
  <2>3. CASE ToolEvent(r)
    BY <2>3 DEF ToolEvent, AppendToolEvent
  <2>4. CASE TaskCompletes(r)
    <3> DEFINE proposing == r \in staged
    <3>1. proposing \in BOOLEAN /\ CompleteRun(r, proposing)
      BY <2>4 DEF TaskCompletes
    <3> HIDE DEF proposing
    <3> QED
      BY <3>1
  <2>5. CASE TaskFails(r)
    BY <2>5 DEF TaskFails, FailRun, Move
  <2>6. CASE TaskDiscarded(r) \/ WatchdogFires(r)
    BY <2>6 DEF TaskDiscarded, WatchdogFires, FinalizeCancelRequested, Move
  <2> QED
    BY <1>6, <2>1, <2>2, <2>3, <2>4, <2>5, <2>6 DEF RunStep
<1> QED
  BY <1>1, <1>2, <1>3, <1>4, <1>5, <1>6 DEF Next

(* A new row with a number nobody had in its turn.                          *)
LEMMA InsertSelection ==
  ASSUME TypeOK, SelectionInv, NEW s \in Sessions, NEW r \in Runs, NEW new \in Row,
         new.session = s, ~BusySession(s), InsertQueued(r, new),
         UNCHANGED selection,
         nextTurn' \in [Sessions -> Nat], nextAttempt' \in [Turns -> Nat],
         \A u \in Sessions : nextTurn[u] <= nextTurn'[u] /\ nextTurn'[u] <= MaxTurns + 1,
         \A q \in Runs : status[q] # "none" => nextAttempt[TurnOf(q)] <= nextAttempt'[TurnOf(q)],
         <<s, new.turn>> \in Turns, new.turn < nextTurn'[s],
         new.attempt < nextAttempt'[<<s, new.turn>>],
         \A q \in Runs : status[q] # "none" /\ TurnOf(q) = <<s, new.turn>>
                           => row[q].attempt <= new.attempt
  PROVE  SelectionInv'
<1> USE DEF TypeOK, StoreTypeOK
<1>1. /\ \A q \in Runs \ {r} : status'[q] = status[q] /\ row'[q] = row[q]
      /\ status[r] = "none" /\ status'[r] = "queued" /\ row'[r] = new
  BY DEF InsertQueued
<1>2. \A q \in Runs \ {r} : TurnOf(q)' = TurnOf(q)
  BY <1>1 DEF TurnOf
<1>3. TurnOf(r)' = <<s, new.turn>>
  BY <1>1 DEF TurnOf
<1>4. CountersAhead'
  <2>1. \A q \in Runs \ {r} : status'[q] # "none" =>
          /\ TurnOf(q)' \in Turns
          /\ row'[q].turn < nextTurn'[row'[q].session]
          /\ row'[q].attempt < nextAttempt'[TurnOf(q)']
    <3> SUFFICES ASSUME NEW q \in Runs \ {r}, status[q] # "none"
                 PROVE  /\ TurnOf(q) \in Turns
                        /\ row[q].turn < nextTurn'[row[q].session]
                        /\ row[q].attempt < nextAttempt'[TurnOf(q)]
      BY <1>1, <1>2
    <3>1. /\ TurnOf(q) \in Turns
          /\ row[q].turn < nextTurn[row[q].session]
          /\ row[q].attempt < nextAttempt[TurnOf(q)]
      BY DEF SelectionInv, CountersAhead
    <3>2. row[q].session \in Sessions /\ row[q].turn \in Nat /\ row[q].attempt \in Nat
      BY <3>1 DEF TurnOf, Turns, Row
    <3>3. /\ nextTurn[row[q].session] \in Nat /\ nextTurn'[row[q].session] \in Nat
          /\ nextTurn[row[q].session] <= nextTurn'[row[q].session]
      BY <3>2
    <3>4. /\ nextAttempt[TurnOf(q)] \in Nat /\ nextAttempt'[TurnOf(q)] \in Nat
          /\ nextAttempt[TurnOf(q)] <= nextAttempt'[TurnOf(q)]
      BY <3>1
    <3> QED
      BY SMTT(40), <3>1, <3>2, <3>3, <3>4
  <2>2. /\ TurnOf(r)' \in Turns
        /\ row'[r].turn < nextTurn'[row'[r].session]
        /\ row'[r].attempt < nextAttempt'[TurnOf(r)']
    BY <1>1, <1>3
  <2> QED
    BY <2>1, <2>2 DEF CountersAhead
<1>5. ActiveIsNewest'
  <2>1. \A q \in Runs \ {r} : status[q] \in ACTIVE_STATUSES => row[q].session # s
    BY DEF BusySession
  <2> SUFFICES ASSUME NEW p \in Runs, NEW q \in Runs, status'[p] # "none",
                      status'[q] \in ACTIVE_STATUSES, TurnOf(p)' = TurnOf(q)'
               PROVE  row'[p].attempt <= row'[q].attempt
    BY DEF ActiveIsNewest
  <2>2. CASE q = r /\ p = r
    BY <1>1, <2>2 DEF Row
  <2>3. CASE q = r /\ p # r
    BY <1>1, <1>2, <1>3, <2>3
  <2>4. CASE q # r /\ p = r
    <3>1. TurnOf(q) = <<s, new.turn>>
      BY <1>2, <1>3, <2>4
    <3>2. row[q].session = s
      BY <3>1 DEF TurnOf
    <3> QED
      BY <1>1, <2>1, <2>4, <3>2
  <2>5. CASE q # r /\ p # r
    BY <1>1, <1>2, <2>5 DEF SelectionInv, ActiveIsNewest
  <2> QED
    BY <2>2, <2>3, <2>4, <2>5
<1>6. SelectionIsLatestSuccess'
  <2>1. \A q \in Runs : status'[q] = "completed" <=> status[q] = "completed"
    BY <1>1
  <2>2. \A q \in Runs : status[q] = "completed" =>
          row'[q] = row[q] /\ TurnOf(q)' = TurnOf(q)
    BY <1>1, <1>2
  <2>3. \A t \in Turns : selection[t] # None => status[selection[t]] = "completed"
                                                /\ selection[t] \in Runs
    BY DEF SelectionInv, SelectionIsLatestSuccess
  <2> QED
    BY <2>1, <2>2, <2>3 DEF SelectionInv, SelectionIsLatestSuccess
<1> QED
  BY <1>4, <1>5, <1>6 DEF SelectionInv

(* A new turn starts with attempt 1, and no row names a turn to come.       *)
LEMMA MessageSelection ==
  ASSUME TypeOK, SelectionInv, NEW s \in Sessions, NEW r \in Runs,
         NEW strategy \in Strategies, NEW select \in BOOLEAN,
         PostMessage(s, r, strategy, select)
  PROVE  SelectionInv'
<1>1. PICK n \in Nat \ {0} : n = nextTurn[s]
  BY DEF TypeOK, StoreTypeOK
<1>2. PICK now \in RequestTimes :
        InsertQueued(r, [ session |-> s, turn |-> n, attempt |-> 1, strategy |-> strategy,
                          select |-> select, createdAt |-> now ])
  BY <1>1 DEF PostMessage
<1>3. PICK new \in Row :
        new = [ session |-> s, turn |-> n, attempt |-> 1, strategy |-> strategy,
                select |-> select, createdAt |-> now ]
  BY RequestTimesAreNat DEF Row
<1>4. <<s, n>> \in Turns /\ n <= MaxTurns
  BY <1>1, StoreAssumption DEF PostMessage, Turns
<1>5. nextTurn' = [nextTurn EXCEPT ![s] = n + 1] /\ nextAttempt' = [nextAttempt EXCEPT ![<<s, n>>] = 2]
  BY <1>1 DEF PostMessage, TypeOK, StoreTypeOK
<1>6. nextTurn' \in [Sessions -> Nat] /\ nextAttempt' \in [Turns -> Nat]
  BY <1>4, <1>5 DEF TypeOK, StoreTypeOK
<1>7. \A u \in Sessions : nextTurn[u] <= nextTurn'[u] /\ nextTurn'[u] <= MaxTurns + 1
  BY <1>1, <1>4, <1>5, StoreAssumption DEF TypeOK, StoreTypeOK, SelectionInv, CountersAhead
<1>8. \A q \in Runs : status[q] # "none" => TurnOf(q) # <<s, n>> /\ TurnOf(q) \in Turns
  <2> SUFFICES ASSUME NEW q \in Runs, status[q] # "none"
               PROVE  TurnOf(q) # <<s, n>> /\ TurnOf(q) \in Turns
    OBVIOUS
  <2>1. TurnOf(q) \in Turns /\ row[q].turn < nextTurn[row[q].session] /\ row[q].turn \in Nat
    BY DEF SelectionInv, CountersAhead, TypeOK, StoreTypeOK, Row
  <2> QED
    BY <1>1, <2>1 DEF TurnOf
<1>9. \A q \in Runs : status[q] # "none" => nextAttempt[TurnOf(q)] <= nextAttempt'[TurnOf(q)]
  <2> SUFFICES ASSUME NEW q \in Runs, status[q] # "none"
               PROVE  nextAttempt[TurnOf(q)] <= nextAttempt'[TurnOf(q)]
    OBVIOUS
  <2>1. PICK t \in Turns : t = TurnOf(q) /\ t # <<s, n>>
    BY <1>8
  <2>2. nextAttempt'[t] = nextAttempt[t] /\ nextAttempt[t] \in Nat
    BY <1>5, <2>1 DEF TypeOK, StoreTypeOK
  <2> QED
    BY <2>1, <2>2
<1>10. nextTurn'[s] = n + 1 /\ nextAttempt'[<<s, n>>] = 2
  BY <1>4, <1>5 DEF TypeOK, StoreTypeOK
<1>11. new.session = s /\ new.turn = n /\ new.attempt = 1
  BY <1>3
<1>12. ~BusySession(s) /\ UNCHANGED selection /\ InsertQueued(r, new)
  BY <1>2, <1>3 DEF PostMessage
<1> QED
  BY <1>4, <1>6, <1>7, <1>8, <1>9, <1>10, <1>11, <1>12, InsertSelection

(* A retry takes the next number of its turn.                               *)
LEMMA RetrySelection ==
  ASSUME TypeOK, SelectionInv, NEW s \in Sessions, NEW turn \in 1 .. MaxTurns, NEW r \in Runs,
         NEW strategy \in Strategies, NEW select \in BOOLEAN,
         PostRetry(s, turn, r, strategy, select)
  PROVE  SelectionInv'
<1>1. <<s, turn>> \in Turns /\ turn \in Nat
  BY StoreAssumption DEF Turns
<1>2. PICK n \in Nat : n = nextAttempt[<<s, turn>>]
  BY <1>1 DEF TypeOK, StoreTypeOK
<1>3. PICK now \in RequestTimes :
        InsertQueued(r, [ session |-> s, turn |-> turn, attempt |-> n, strategy |-> strategy,
                          select |-> select, createdAt |-> now ])
  BY <1>2 DEF PostRetry
<1>4. PICK new \in Row :
        new = [ session |-> s, turn |-> turn, attempt |-> n, strategy |-> strategy,
                select |-> select, createdAt |-> now ]
  BY <1>1, RequestTimesAreNat DEF Row
<1>5. nextTurn' = nextTurn /\ nextAttempt' = [nextAttempt EXCEPT ![<<s, turn>>] = n + 1]
  BY <1>1, <1>2 DEF PostRetry, TypeOK, StoreTypeOK
<1>6. nextTurn' \in [Sessions -> Nat] /\ nextAttempt' \in [Turns -> Nat]
  BY <1>1, <1>5 DEF TypeOK, StoreTypeOK
<1>7. \A u \in Sessions : nextTurn[u] <= nextTurn'[u] /\ nextTurn'[u] <= MaxTurns + 1
  BY <1>5 DEF TypeOK, StoreTypeOK, SelectionInv, CountersAhead
<1>8. \A t \in Turns : nextAttempt[t] <= nextAttempt'[t]
  <2> SUFFICES ASSUME NEW t \in Turns PROVE nextAttempt[t] <= nextAttempt'[t]
    OBVIOUS
  <2>1. CASE t = <<s, turn>>
    BY <1>2, <1>5, <2>1 DEF TypeOK, StoreTypeOK
  <2>2. CASE t # <<s, turn>>
    <3>1. nextAttempt'[t] = nextAttempt[t] /\ nextAttempt[t] \in Nat
      BY <1>5, <2>2 DEF TypeOK, StoreTypeOK
    <3> QED
      BY <3>1
  <2> QED
    BY <2>1, <2>2
<1>9. \A q \in Runs : status[q] # "none" => nextAttempt[TurnOf(q)] <= nextAttempt'[TurnOf(q)]
  BY <1>8 DEF SelectionInv, CountersAhead
<1>10. turn < nextTurn'[s]
  BY <1>1, <1>5 DEF PostRetry, TypeOK, StoreTypeOK
<1>11. nextAttempt'[<<s, turn>>] = n + 1
  BY <1>1, <1>5 DEF TypeOK, StoreTypeOK
<1>12. \A q \in Runs : status[q] # "none" /\ TurnOf(q) = <<s, turn>> => row[q].attempt <= n
  <2> SUFFICES ASSUME NEW q \in Runs, status[q] # "none", TurnOf(q) = <<s, turn>>
               PROVE  row[q].attempt <= n
    OBVIOUS
  <2>1. row[q].attempt < n /\ row[q].attempt \in Nat
    BY <1>2 DEF SelectionInv, CountersAhead, TypeOK, StoreTypeOK, Row
  <2> QED
    BY <2>1
<1>13. new.session = s /\ new.turn = turn /\ new.attempt = n
  BY <1>4
<1>14. ~BusySession(s) /\ UNCHANGED selection /\ InsertQueued(r, new)
  BY <1>3, <1>4 DEF PostRetry
<1> QED
  BY <1>1, <1>6, <1>7, <1>9, <1>10, <1>11, <1>12, <1>13, <1>14, InsertSelection

(* A completion is the newest success of its turn.                          *)
LEMMA CompleteSelection ==
  ASSUME TypeOK, SelectionInv, NEW r \in Runs, NEW proposing, CompleteRun(r, proposing)
  PROVE  SelectionInv'
<1> USE DEF TypeOK, StoreTypeOK
<1>1. /\ status[r] = "running" /\ status'[r] = "completed"
      /\ \A q \in Runs \ {r} : status'[q] = status[q]
      /\ row' = row /\ nextTurn' = nextTurn /\ nextAttempt' = nextAttempt
      /\ selection' = IF row[r].select THEN [selection EXCEPT ![TurnOf(r)] = r] ELSE selection
  BY DEF CompleteRun
<1>2. \A q \in Runs : TurnOf(q)' = TurnOf(q)
  BY <1>1 DEF TurnOf
<1>3. CountersAhead' /\ ActiveIsNewest'
  BY ZenonT(60), <1>1, <1>2 DEF SelectionInv, CountersAhead, ActiveIsNewest, ACTIVE_STATUSES
<1>4. /\ \A q \in Runs : status[q] = "completed" /\ TurnOf(q) = TurnOf(r)
                           => row[q].attempt <= row[r].attempt
      /\ row[r].attempt <= row[r].attempt
      /\ TurnOf(r) \in Turns
  BY <1>1 DEF SelectionInv, ActiveIsNewest, CountersAhead, ACTIVE_STATUSES, Row
<1>5. SelectionIsLatestSuccess'
  <2> SUFFICES ASSUME NEW t \in Turns
               PROVE  LET successes == {q \in Runs : /\ status'[q] = "completed"
                                                     /\ row[q].select /\ TurnOf(q) = t}
                      IN  IF selection'[t] = None
                            THEN successes = {}
                            ELSE /\ selection'[t] \in successes
                                 /\ \A q \in successes :
                                      row[q].attempt <= row[selection'[t]].attempt
    BY <1>1, <1>2 DEF SelectionIsLatestSuccess
  <2>1. CASE t = TurnOf(r) /\ row[r].select
    <3>1. selection'[t] = r /\ r # None
      BY <1>1, <1>4, <2>1, StoreAssumption
    <3> QED
      BY <1>1, <1>4, <2>1, <3>1
  <2>2. CASE ~(t = TurnOf(r) /\ row[r].select)
    <3>1. selection'[t] = selection[t]
      BY <1>1, <1>4, <2>2
    <3>2. {q \in Runs : status'[q] = "completed" /\ row[q].select /\ TurnOf(q) = t}
            = {q \in Runs : status[q] = "completed" /\ row[q].select /\ TurnOf(q) = t}
      BY <1>1, <2>2
    <3> QED
      BY <3>1, <3>2 DEF SelectionInv, SelectionIsLatestSuccess
  <2> QED
    BY <2>1, <2>2
<1> QED
  BY <1>3, <1>5 DEF SelectionInv

LEMMA SelectionStep ==
  ASSUME TypeOK, SelectionInv, [Next]_vars
  PROVE  SelectionInv'
<1>1. CASE TurnsKept
  <2>1. \A q \in Runs : TurnOf(q)' = TurnOf(q)
    BY <1>1 DEF TurnsKept, TurnOf
  <2>2. CountersAhead' /\ ActiveIsNewest'
    BY <1>1, <2>1 DEF TurnsKept, SelectionInv, CountersAhead, ActiveIsNewest
  <2>3. SelectionIsLatestSuccess'
    BY <1>1, <2>1 DEF TurnsKept, SelectionInv, SelectionIsLatestSuccess
  <2> QED
    BY <2>2, <2>3 DEF SelectionInv
<1>2. CASE UNCHANGED vars
  BY <1>1, <1>2 DEF vars, storeVars, TurnsKept
<1> QED
  BY <1>1, <1>2, TurnsEffect, MessageSelection, RetrySelection, CompleteSelection

(* A turn shows its newest completed attempt that asked to be selected, and *)
(* an attempt of that very turn, through retries, races and restarts        *)
(* (completeRun and the attempt counters of the repository).                *)
THEOREM SelectionSound == Spec => []SelectionIsLatestSuccess
<1>1. Init => SelectionInv
  BY StoreAssumption DEF Init, StoreInit, SelectionInv, CountersAhead, ActiveIsNewest,
     SelectionIsLatestSuccess, ACTIVE_STATUSES
<1>2. TypeOK /\ SelectionInv /\ [Next]_vars => SelectionInv'
  BY SelectionStep
<1>3. SelectionInv => SelectionIsLatestSuccess
  BY DEF SelectionInv
<1> QED
  BY <1>1, <1>2, <1>3, TypeCorrect, PTL DEF Spec

-----------------------------------------------------------------------------
(* Who owns a row that claims to be executing.                              *)

Owned(r) == r \in inFlight /\ r \in tasks

(* As long as storage has not failed, an active row is owned; or it is a    *)
(* Run whose proposal was refused, left behind with its staged entry until  *)
(* somebody cancels it and the watchdog settles it.                         *)
Accounted(r) ==
  /\ status[r] = "running" => Owned(r) \/ r \in staged
  /\ status[r] = "cancel_requested" => Owned(r) \/ (WriteEnabled /\ r \in watchdogs)

Serving == phase \in {"up", "gated", "draining"}

OwnershipInv ==
  /\ ~WriteEnabled => staged = {}
  /\ SlotsHaveTasks
  /\ faults = 0 /\ Serving => \A r \in Runs : Accounted(r)

(* A storage failure is never forgotten.                                    *)
LEMMA FaultsStay ==
  ASSUME TypeOK, [Next]_vars
  PROVE  faults' = 0 => faults = 0 /\ UNCHANGED faults
<1> USE DEF TypeOK
<1>1. StorageFails => faults' # 0
  BY DEF StorageFails
<1>2. CASE Next
  BY <1>1, <1>2 DEF Next, RunStep, Start, Crash, MarkDraining, BeginDrain, FinishDrain,
     DrainFails, Pump, PumpFaulty, Message, Retry, Resolve, Cancel, Stage, ToolEvent,
     TaskCompletes, TaskRejected, TaskFails, TaskDiscarded, TaskPersistFails,
     WatchdogFires, WatchdogFails, SettleOwnership
<1>3. CASE UNCHANGED vars
  BY <1>3 DEF vars
<1> QED
  BY <1>2, <1>3

(* Every handler of a single Run keeps the rows accounted for.              *)
LEMMA OwnershipRunStep ==
  ASSUME TypeOK, OwnershipInv, faults = 0, UNCHANGED faults, Serving, NEW r \in Runs, RunStep(r),
         NEW q \in Runs
  PROVE  Accounted(q)'
<1> USE DEF TypeOK, StoreTypeOK, storeVars, volatileVars
<1>0. Accounted(q) /\ ~StorageFails
  BY DEF OwnershipInv, StorageFails
<1>1. CASE Cancel(r)
  <2>1. /\ UNCHANGED <<inFlight, tasks>>
        /\ staged' = staged \ {r} /\ watchdogs \subseteq watchdogs'
    BY <1>1 DEF Cancel
  <2>2. CASE q # r
    <3>1. status'[q] = status[q]
      BY <1>1, <2>2 DEF Cancel, CancelRun, Move
    <3> QED
      BY <1>0, <2>1, <2>2, <3>1 DEF Accounted, Owned
  <2>3. CASE q = r /\ status[r] = "queued"
    <3>1. status'[q] = "cancelled"
      BY <1>1, <2>3 DEF Cancel, CancelRun, Move
    <3> QED
      BY <3>1 DEF Accounted
  <2>4. CASE q = r /\ status[r] # "queued"
    <3>1. status[q] \in {"running", "cancel_requested"} /\ status'[q] = "cancel_requested"
          /\ q \in watchdogs'
      BY <1>1, <2>4 DEF Cancel, CancelRun, Move
    <3>2. Owned(q) \/ WriteEnabled
      BY <1>0, <3>1 DEF Accounted, OwnershipInv
    <3> QED
      BY <2>1, <3>1, <3>2 DEF Accounted, Owned
  <2> QED
    BY <2>2, <2>3, <2>4
<1>2. CASE Stage(r) \/ ToolEvent(r)
  <2>1. /\ UNCHANGED <<status, inFlight, tasks, watchdogs>>
        /\ staged \subseteq staged'
    BY <1>2 DEF Stage, ToolEvent, AppendToolEvent
  <2> QED
    BY <1>0, <2>1 DEF Accounted, Owned
<1>3. CASE TaskRejected(r)
  <2>1. /\ UNCHANGED <<status, staged>> /\ r \in staged /\ status[r] = "running"
        /\ Release(r)
    BY <1>0, <1>3 DEF TaskRejected, SettleOwnership
  <2> QED
    BY <1>0, <2>1 DEF Release, Accounted, Owned
<1>4. CASE TaskCompletes(r) \/ TaskFails(r) \/ TaskDiscarded(r)
  <2>1. Release(r) /\ staged \ {r} \subseteq staged'
    BY <1>0, <1>4 DEF TaskCompletes, TaskFails, TaskDiscarded, SettleOwnership
  <2>2. CASE q # r
    <3>1. status'[q] = status[q]
      BY <1>4, <2>2 DEF TaskCompletes, TaskFails, TaskDiscarded, CompleteRun, FailRun,
         FinalizeCancelRequested, Move
    <3> QED
      BY <1>0, <2>1, <2>2, <3>1 DEF Release, Accounted, Owned
  <2>3. CASE q = r
    <3>1. status'[r] \notin {"running", "cancel_requested"}
      BY <1>4 DEF TaskCompletes, TaskFails, TaskDiscarded, CompleteRun, FailRun,
         FinalizeCancelRequested, Move
    <3> QED
      BY <2>3, <3>1 DEF Accounted
  <2> QED
    BY <2>2, <2>3
<1>5. CASE TaskPersistFails(r) \/ WatchdogFails(r)
  BY <1>0, <1>5 DEF TaskPersistFails, WatchdogFails
<1>6. CASE WatchdogFires(r)
  <2>1. UNCHANGED <<inFlight, tasks>> /\ watchdogs' = watchdogs \ {r}
        /\ staged \ {r} \subseteq staged'
    BY <1>6 DEF WatchdogFires
  <2>2. CASE q # r
    <3>1. status'[q] = status[q]
      BY <1>6, <2>2 DEF WatchdogFires, FinalizeCancelRequested, Move
    <3> QED
      BY <1>0, <2>1, <2>2, <3>1 DEF Accounted, Owned
  <2>3. CASE q = r /\ status[r] = "cancel_requested"
    <3>1. status'[q] = "cancelled"
      BY <1>6, <2>3 DEF WatchdogFires, FinalizeCancelRequested, Move
    <3> QED
      BY <3>1 DEF Accounted
  <2>4. CASE q = r /\ status[r] # "cancel_requested"
    <3>1. UNCHANGED <<status, staged>>
      BY <1>6, <2>4 DEF WatchdogFires
    <3> QED
      BY <1>0, <2>1, <2>4, <3>1 DEF Accounted, Owned
  <2> QED
    BY <2>2, <2>3, <2>4
<1> QED
  BY <1>1, <1>2, <1>3, <1>4, <1>5, <1>6 DEF RunStep

(* So does every step.                                                      *)
LEMMA OwnershipStep ==
  ASSUME TypeOK, OwnershipInv, [Next]_vars
  PROVE  OwnershipInv'
<1> USE DEF TypeOK
<1>1. (~WriteEnabled => staged = {})'
  <2>1. ~WriteEnabled => staged' \subseteq staged
    BY DEF Next, RunStep, Start, Crash, MarkDraining, BeginDrain, FinishDrain,
       DrainFails, Pump, PumpFaulty, PickUp, Message, Retry, Resolve, Cancel, Stage, ToolEvent,
       TaskCompletes, TaskRejected, TaskFails, TaskDiscarded, TaskPersistFails,
       WatchdogFires, WatchdogFails, vars, volatileVars
  <2> QED
    BY <2>1 DEF OwnershipInv
<1>2. SlotsHaveTasks'
  <2> SUFFICES ASSUME faults' = 0 PROVE inFlight' \subseteq tasks'
    BY DEF SlotsHaveTasks
  <2>1. inFlight \subseteq tasks /\ ~StorageFails
    BY FaultsStay DEF OwnershipInv, SlotsHaveTasks, StorageFails
  <2>2. CASE Next
    BY <2>1, <2>2 DEF Next, RunStep, Start, Crash, MarkDraining, BeginDrain, FinishDrain,
       DrainFails, Pump, PumpFaulty, PickUp, Message, Retry, Resolve, Cancel, Stage, ToolEvent,
       TaskCompletes, TaskRejected, TaskFails, TaskDiscarded, TaskPersistFails,
       WatchdogFires, WatchdogFails, volatileVars, SettleOwnership, Release
  <2>3. CASE UNCHANGED vars
    BY <2>1, <2>3 DEF vars, volatileVars
  <2> QED
    BY <2>2, <2>3
<1>3. (faults = 0 /\ Serving => \A r \in Runs : Accounted(r))'
  <2> SUFFICES ASSUME faults' = 0, Serving', NEW q \in Runs
               PROVE  Accounted(q)'
    OBVIOUS
  <2>1. faults = 0 /\ UNCHANGED faults /\ ~StorageFails
    BY FaultsStay DEF StorageFails
  <2>2. CASE Start \/ FinishDrain
    <3>1. SweepTerminals
      BY <2>2 DEF Start, FinishDrain
    <3>2. status'[q] \notin {"running", "cancel_requested"}
      BY <3>1 DEF SweepTerminals, StoreTypeOK
    <3> QED
      BY <3>2 DEF Accounted
  <2>3. CASE Crash
    BY <2>3 DEF Crash, Serving
  <2>4. CASE MarkDraining \/ BeginDrain \/ UNCHANGED vars
    <3>1. UNCHANGED <<status, inFlight, tasks, watchdogs, staged>> /\ Serving
      BY <2>4 DEF MarkDraining, BeginDrain, Serving, vars, storeVars, volatileVars
    <3> QED
      BY <2>1, <3>1 DEF OwnershipInv, Accounted, Owned
  <2>5. CASE DrainFails \/ PumpFaulty
    BY <2>1, <2>5 DEF DrainFails, PumpFaulty
  <2>6. CASE Pump
    <3>1. PICK L \in SUBSET Runs : PickUp(L, {}, {})
      BY <2>6 DEF Pump, OldestQueued, Pickable
    <3>2. Serving /\ Accounted(q)
      BY <2>1, <2>6 DEF Pump, Serving, OwnershipInv
    <3>3. UNCHANGED <<staged, watchdogs>>
          /\ inFlight' = inFlight \union L /\ tasks' = tasks \union L
          /\ status' = [p \in Runs |-> IF p \in L THEN "running" ELSE status[p]]
      BY <3>1 DEF PickUp
    <3>4. CASE q \in L
      BY <3>3, <3>4 DEF Accounted, Owned
    <3>5. CASE q \notin L
      BY <3>2, <3>3, <3>5 DEF Accounted, Owned
    <3> QED
      BY <3>4, <3>5
  <2>7. CASE \E s \in Sessions, r \in Runs, strategy \in Strategies, select \in BOOLEAN :
              \/ Message(s, r, strategy, select)
              \/ \E turn \in 1 .. MaxTurns : Retry(s, turn, r, strategy, select)
    <3>1. PICK r \in Runs : \E new : InsertQueued(r, new)
      BY ZenonT(60), <2>7 DEF Message, Retry, PostMessage, PostRetry
    <3>2. Serving /\ UNCHANGED volatileVars
      BY <2>7 DEF Message, Retry, Serving
    <3> QED
      BY <2>1, <3>1, <3>2 DEF InsertQueued, OwnershipInv, Accounted, Owned, StoreTypeOK, volatileVars
  <2>8. CASE \E s \in Sessions : Resolve(s)
    <3>1. UNCHANGED <<status, inFlight, tasks, watchdogs, staged, phase>>
      BY <2>8 DEF Resolve, ResolveProposal, volatileVars
    <3> QED
      BY <2>1, <3>1 DEF OwnershipInv, Accounted, Owned, Serving
  <2>9. CASE \E r \in Runs : RunStep(r)
    <3>1. UNCHANGED phase
      BY <2>9 DEF RunStep, Cancel, Stage, ToolEvent, TaskCompletes, TaskRejected, TaskFails,
         TaskDiscarded, TaskPersistFails, WatchdogFires, WatchdogFails
    <3>2. Serving
      BY <3>1 DEF Serving
    <3> QED
      BY <2>1, <2>9, <3>2, OwnershipRunStep
  <2> QED
    BY <2>2, <2>3, <2>4, <2>5, <2>6, <2>7, <2>8, <2>9 DEF Next
<1> QED
  BY <1>1, <1>2, <1>3 DEF OwnershipInv

(* While storage holds, a slot is held only by a strategy that is out, and  *)
(* a row that claims to be executing is owned, or was left behind by a      *)
(* refused proposal that still has its staged entry or a watchdog           *)
(* (executeRun, cancel and the watchdog of engine.ts).                      *)
THEOREM Ownership == Spec => []OwnershipInv
<1>1. Init => OwnershipInv
  BY DEF Init, OwnershipInv, SlotsHaveTasks, Serving
<1>2. TypeOK /\ OwnershipInv /\ [Next]_vars => OwnershipInv'
  BY OwnershipStep
<1> QED
  BY <1>1, <1>2, TypeCorrect, PTL DEF Spec

(* Without the opt-in for proposals nothing leaks: rows, slots and          *)
(* strategies belong to each other, and a turn shows its newest success.    *)
(* (With the opt-in a refused proposal leaves its Run behind, as the run    *)
(* engine_rejected shows.)                                                  *)
THEOREM OwnershipSound ==
  ASSUME ~WriteEnabled
  PROVE  Spec => []OwnershipSafe
<1>1. OwnershipInv /\ SelectionIsLatestSuccess => OwnershipSafe
  BY DEF OwnershipInv, OwnershipSafe, ActiveIsOwned, Accounted, Owned, Serving
<1> QED
  BY <1>1, Ownership, SelectionSound, PTL
=============================================================================
