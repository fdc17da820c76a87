------------------------------ MODULE RunEngine ------------------------------
(***************************************************************************)
(* packages/kernel/src/engine.ts: the durable scheduler that owns every Run.*)
(* The process is single-threaded: code between two awaits is one atomic    *)
(* step, and the only await of an execution is the strategy's promise.  So  *)
(* one action is one timer callback, one HTTP handler or one promise        *)
(* continuation.  Storage failures are explicit: a commit either lands      *)
(* (possibly after retries) or fails for good, which costs one `fault`.     *)
(* A crash keeps the store and loses everything else.                       *)
(***************************************************************************)
EXTENDS RunStore, Integers

CONSTANTS
  Registered,      \* strategies that have a runtime in the registry
  MaxConcurrency,  \* RunEngineOptions.maxConcurrency
  WriteEnabled,    \* composition opt-in: may a strategy stage a proposal?
  MaxFaults,       \* bound: persistent storage failures in a behaviour
  MaxRestarts      \* bound: times the process goes down

ASSUME EngineAssumption ==
  /\ Registered \subseteq Strategies
  /\ MaxConcurrency \in Nat \ {0}
  /\ WriteEnabled \in BOOLEAN
  /\ MaxFaults \in Nat
  /\ MaxRestarts \in Nat

VARIABLES
  phase,       \* "down"; "up"; "gated": HTTP intake closed, other services
               \* stopping, scheduler still on; "draining"; "stopped"
  inFlight,    \* keys of the inFlight map: runs this process owns
  tasks,       \* runs whose strategy promise has not settled yet
  aborted,     \* runs whose AbortController has fired
  watchdogs,   \* runs with an armed cancel watchdog
  staged,      \* keys of the proposal stager's in-memory map
  faults,      \* persistent storage failures so far
  restarts     \* times the process went down so far

volatileVars == <<inFlight, tasks, aborted, watchdogs, staged>>

vars == <<storeVars, volatileVars, phase, faults, restarts>>

TypeOK ==
  /\ StoreTypeOK
  /\ phase \in {"down", "up", "gated", "draining", "stopped"}
  /\ inFlight \subseteq Runs
  /\ tasks \subseteq Runs
  /\ aborted \subseteq Runs
  /\ watchdogs \subseteq Runs
  /\ staged \subseteq Runs
  /\ faults \in Nat
  /\ restarts \in Nat

Init ==
  /\ StoreInit
  /\ phase = "down"
  /\ inFlight = {} /\ tasks = {} /\ aborted = {} /\ watchdogs = {} /\ staged = {}
  /\ faults = 0
  /\ restarts = 0

StorageFails ==
  /\ faults < MaxFaults
  /\ faults' = faults + 1

-----------------------------------------------------------------------------
(* Process lifecycle.                                                       *)

(* start(): recover before the scheduler takes its first tick.              *)
Start ==
  /\ phase = "down"
  /\ phase' = "up"
  /\ SweepTerminals
  /\ UNCHANGED <<volatileVars, faults, restarts>>

(* The process ends, by crash in any phase or by exit once stopped.         *)
Crash ==
  /\ phase # "down"
  /\ restarts < MaxRestarts
  /\ phase' = "down"
  /\ restarts' = restarts + 1
  /\ inFlight' = {} /\ tasks' = {} /\ aborted' = {} /\ watchdogs' = {} /\ staged' = {}
  /\ UNCHANGED <<storeVars, faults>>

(* The server refuses new work, then stops its other services one by one.   *)
MarkDraining ==
  /\ phase = "up"
  /\ phase' = "gated"
  /\ UNCHANGED <<storeVars, volatileVars, faults, restarts>>

(* shutdown(), up to its first await: pickup pauses.                        *)
BeginDrain ==
  /\ phase = "gated"
  /\ phase' = "draining"
  /\ UNCHANGED <<storeVars, volatileVars, faults, restarts>>

(* shutdown(), after natural completion or at the drain deadline: sweep the *)
(* store first, then abort, then forget.                                    *)
FinishDrain ==
  /\ phase = "draining"
  /\ phase' = "stopped"
  /\ SweepTerminals
  /\ aborted' = aborted \union inFlight
  /\ inFlight' = {}
  /\ watchdogs' = {}
  /\ staged' = {r \in staged : status[r] \notin {"running", "cancel_requested"}}
  /\ UNCHANGED <<tasks, faults, restarts>>

(* Mutant: the controllers are aborted although the drain rolled back.      *)
DrainFailsAborting ==
  /\ phase = "draining"
  /\ StorageFails
  /\ aborted' = aborted \union inFlight
  /\ UNCHANGED <<storeVars, phase, inFlight, tasks, staged, watchdogs, restarts>>

(* The drain transaction fails and rolls back; the shutdown rejects and may *)
(* be retried.  The stager is not in the database: the entries of the rows  *)
(* the loop had swept by then (oldest first, ties in any order) are gone.   *)
DrainFails ==
  /\ phase = "draining"
  /\ StorageFails
  /\ \E swept \in SUBSET {r \in Runs : status[r] = "running"} :
       /\ \A r \in swept, q \in Runs :
            status[q] = "running" /\ row[q].createdAt < row[r].createdAt => q \in swept
       /\ staged' = staged \ swept
  /\ UNCHANGED <<storeVars, phase, inFlight, tasks, aborted, watchdogs, restarts>>

-----------------------------------------------------------------------------
(* HTTP handlers.                                                           *)

Message(s, r, strategy, select) ==
  /\ phase = "up"
  /\ PostMessage(s, r, strategy, select)
  /\ UNCHANGED <<volatileVars, phase, faults, restarts>>

Retry(s, turn, r, strategy, select) ==
  /\ phase = "up"
  /\ PostRetry(s, turn, r, strategy, select)
  /\ UNCHANGED <<volatileVars, phase, faults, restarts>>

(* Mutant: a cancel that arms no watchdog.                                  *)
CancelUnwatched(r) ==
  /\ phase # "down"
  /\ CancelRun(r)
  /\ staged' = staged \ {r}
  /\ aborted' = aborted \union (inFlight \intersect {r})
  /\ UNCHANGED <<inFlight, tasks, watchdogs, phase, faults, restarts>>

(* cancel(): commit, then abort, then arm the watchdog (never re-armed      *)
(* while one is running).  The route stays open until the listener closes.  *)
Cancel(r) ==
  /\ phase # "down"
  /\ CancelRun(r)
  /\ staged' = staged \ {r}
  /\ IF status[r] = "queued"
       THEN UNCHANGED <<aborted, watchdogs>>
       ELSE /\ aborted' = aborted \union (inFlight \intersect {r})
            /\ watchdogs' = watchdogs \union {r}
  /\ UNCHANGED <<inFlight, tasks, phase, faults, restarts>>

(* A decision route, or the clock: a proposal also expires while down.      *)
Resolve(s) ==
  /\ ResolveProposal(s)
  /\ UNCHANGED <<volatileVars, phase, faults, restarts>>

-----------------------------------------------------------------------------
(* The scheduler tick.                                                      *)

(* The order of pickup: created_at, then id.                                *)
Before(a, b) ==
  \/ row[a].createdAt < row[b].createdAt
  \/ row[a].createdAt = row[b].createdAt /\ a < b

Pickable == {r \in Runs : status[r] = "queued" /\ row[r].strategy \in Registered}

(* Mutant: one row too many.                                                *)
OldestQueuedOffByOne(room) ==
  {r \in Pickable : Cardinality({q \in Pickable : Before(q, r)}) <= room}

OldestQueued(room) ==
  {r \in Pickable : Cardinality({q \in Pickable : Before(q, r)}) < room}

Room == MaxConcurrency - Cardinality(inFlight)

(* One pickup pass over rows; `orphaned` rows were started but their        *)
(* snapshot could not be read, nor (for `leaked`) settled.                  *)
PickUp(launched, orphaned, leaked) ==
  /\ status' = [r \in Runs |-> IF r \in launched \union leaked THEN "running"
                               ELSE IF r \in orphaned THEN "abandoned" ELSE status[r]]
  /\ events' = [r \in Runs |->
                  IF r \in launched \union leaked THEN Append(events[r], "run.started")
                  ELSE IF r \in orphaned THEN events[r] \o <<"run.started", "run.abandoned">>
                  ELSE events[r]]
  /\ inFlight' = inFlight \union launched
  /\ tasks' = tasks \union launched
  /\ UNCHANGED <<row, nextTurn, nextAttempt, selection, pending,
                 aborted, watchdogs, staged, phase, restarts>>

Pump ==
  /\ phase \in {"up", "gated"}
  /\ Room > 0
  /\ OldestQueued(Room) # {}
  /\ PickUp(OldestQueued(Room), {}, {})
  /\ UNCHANGED faults

(* A pass during a storage failure: each row is launched, skipped (its CAS  *)
(* threw), or started and then orphaned.                                    *)
PumpFaulty ==
  /\ phase \in {"up", "gated"}
  /\ Room > 0
  /\ StorageFails
  /\ \E launched, orphaned, leaked \in SUBSET OldestQueued(Room) :
       /\ launched \intersect orphaned = {}
       /\ leaked \intersect (launched \union orphaned) = {}
       /\ PickUp(launched, orphaned, leaked)

-----------------------------------------------------------------------------
(* The continuation of a strategy promise.                                  *)

Release(r) ==
  /\ tasks' = tasks \ {r}
  /\ inFlight' = inFlight \ {r}
  /\ watchdogs' = watchdogs \ {r}

(* Ownership is released after the commit, unless the read-back fails.      *)
SettleOwnership(r) ==
  \/ Release(r) /\ UNCHANGED faults
  \/ StorageFails /\ tasks' = tasks \ {r} /\ UNCHANGED <<inFlight, watchdogs>>

(* Mutant: the proposal is journalled when staged, not when committed.      *)
StageJournals(r) ==
  /\ WriteEnabled
  /\ r \in tasks \ staged
  /\ status[r] = "running"
  /\ staged' = staged \union {r}
  /\ events' = [events EXCEPT ![r] = Append(@, "action.proposed")]
  /\ UNCHANGED <<status, row, nextTurn, nextAttempt, selection, pending, phase,
                 inFlight, tasks, aborted, watchdogs, faults, restarts>>

(* commitStaged refuses a second pending proposal in the session.  (A       *)
(* staged entry lives 15 minutes, longer than any strategy, so its expiry   *)
(* is left out.)                                                            *)
CommitRejected(r) == r \in staged /\ row[r].session \in pending

Stage(r) ==
  /\ WriteEnabled
  /\ r \in tasks \ staged
  /\ status[r] = "running"
  /\ staged' = staged \union {r}
  /\ UNCHANGED <<storeVars, phase, inFlight, tasks, aborted, watchdogs, faults, restarts>>

ToolEvent(r) ==
  /\ r \in tasks
  /\ AppendToolEvent(r)
  /\ UNCHANGED <<volatileVars, phase, faults, restarts>>

TaskCompletes(r) ==
  /\ r \in tasks
  /\ ~CommitRejected(r)
  /\ CompleteRun(r, r \in staged)
  /\ staged' = staged \ {r}
  /\ SettleOwnership(r)
  /\ UNCHANGED <<aborted, phase, restarts>>

(* Mutant: a failed run leaves its proposal in the stager.                  *)
TaskFailsKeepsStaged(r) ==
  /\ r \in tasks
  /\ FailRun(r)
  /\ SettleOwnership(r)
  /\ UNCHANGED <<aborted, staged, phase, restarts>>

(* A definitive rejection of the staged proposal (one is pending already,   *)
(* or the target's snapshot moved since staging) counts as settled: the     *)
(* transaction rolled back, the row is still running, ownership is released.*)
TaskRejected(r) ==
  /\ r \in tasks \intersect staged
  /\ status[r] = "running"
  /\ SettleOwnership(r)
  /\ UNCHANGED <<storeVars, aborted, staged, phase, restarts>>

TaskFails(r) ==
  /\ r \in tasks
  /\ FailRun(r)
  /\ staged' = staged \ {r}
  /\ SettleOwnership(r)
  /\ UNCHANGED <<aborted, phase, restarts>>

(* Mutant: a discarded result releases ownership and leaves the cancel to   *)
(* the watchdog it has just cleared.                                        *)
TaskDiscardedUnfinalized(r) ==
  /\ r \in tasks
  /\ status[r] # "running"
  /\ Release(r)
  /\ UNCHANGED <<storeVars, aborted, staged, phase, faults, restarts>>

(* Mutant: a discarded result keeps its slot.                               *)
TaskDiscardedKeepsSlot(r) ==
  /\ r \in tasks
  /\ status[r] # "running"
  /\ IF status[r] = "cancel_requested"
       THEN FinalizeCancelRequested(r) /\ staged' = staged \ {r}
       ELSE UNCHANGED <<storeVars, staged>>
  /\ tasks' = tasks \ {r}
  /\ UNCHANGED <<inFlight, watchdogs, aborted, phase, faults, restarts>>

(* The row left `running` while the strategy was out: the result is         *)
(* discarded and a requested cancel is finalized at once.                   *)
TaskDiscarded(r) ==
  /\ r \in tasks
  /\ status[r] # "running"
  /\ IF status[r] = "cancel_requested"
       THEN FinalizeCancelRequested(r) /\ staged' = staged \ {r}
       ELSE UNCHANGED <<storeVars, staged>>
  /\ Release(r)
  /\ UNCHANGED <<aborted, phase, faults, restarts>>

(* The commit (or the finalize) fails for good: the task is over and the    *)
(* run stays owned.                                                         *)
TaskPersistFails(r) ==
  /\ r \in tasks
  /\ StorageFails
  /\ tasks' = tasks \ {r}
  /\ UNCHANGED <<storeVars, inFlight, aborted, watchdogs, staged, phase, restarts>>

(* The cancel watchdog at its original deadline, if storage lets it.        *)
WatchdogFires(r) ==
  /\ r \in watchdogs
  /\ watchdogs' = watchdogs \ {r}
  /\ IF status[r] = "cancel_requested"
       THEN FinalizeCancelRequested(r) /\ staged' = staged \ {r}
       ELSE UNCHANGED <<storeVars, staged>>
  /\ UNCHANGED <<inFlight, tasks, aborted, phase, faults, restarts>>

WatchdogFails(r) ==
  /\ r \in watchdogs
  /\ StorageFails
  /\ watchdogs' = watchdogs \ {r}
  /\ UNCHANGED <<storeVars, inFlight, tasks, aborted, staged, phase, restarts>>

-----------------------------------------------------------------------------
TaskEnds(r) == TaskCompletes(r) \/ TaskRejected(r) \/ TaskFails(r) \/ TaskDiscarded(r)

RunStep(r) ==
  \/ Cancel(r)
  \/ Stage(r)
  \/ ToolEvent(r)
  \/ TaskCompletes(r)
  \/ TaskRejected(r)
  \/ TaskFails(r)
  \/ TaskDiscarded(r)
  \/ TaskPersistFails(r)
  \/ WatchdogFires(r)
  \/ WatchdogFails(r)

Next ==
  \/ Start \/ Crash \/ MarkDraining \/ BeginDrain \/ FinishDrain \/ DrainFails
  \/ Pump \/ PumpFaulty
  \/ \E s \in Sessions, r \in Runs, strategy \in Strategies, select \in BOOLEAN :
       \/ Message(s, r, strategy, select)
       \/ \E turn \in 1 .. MaxTurns : Retry(s, turn, r, strategy, select)
  \/ \E s \in Sessions : Resolve(s)
  \/ \E r \in Runs : RunStep(r)

Spec == Init /\ [][Next]_vars

(* The poll timer re-arms itself, the watchdog is a timer, and a process    *)
(* that went down is started again.  Strategies may hang.                   *)
FairSpec ==
  /\ Spec
  /\ WF_vars(Start)
  /\ WF_vars(Pump)
  /\ \A r \in Runs : WF_vars(WatchdogFires(r))

-----------------------------------------------------------------------------
(* Safety.                                                                  *)

(* A session never has two Runs that are queued, running or being           *)
(* cancelled, through retries, cancels, crashes and sweeps.                 *)
OneActivePerSession ==
  \A r, q \in Runs :
    /\ status[r] \in ACTIVE_STATUSES /\ status[q] \in ACTIVE_STATUSES
    /\ row[r].session = row[q].session
    => r = q

(* The journal agrees with the row: a Run has a terminal event exactly when *)
(* it is terminal, it is the last event and there is no other, and a Run    *)
(* that journalled a cancel request can only end cancelled.                 *)
JournalMatchesStatus ==
  \A r \in Runs :
    LET log == events[r]
        requested == \E i \in DOMAIN log : log[i] = "run.cancel_requested"
        ended     == \E i \in DOMAIN log : log[i] \in TERMINAL_EVENTS
    IN  /\ ended <=> status[r] \in TERMINAL_STATUSES
        /\ \A i \in DOMAIN log : log[i] \in TERMINAL_EVENTS => i = Len(log)
        /\ requested => status[r] \in {"cancel_requested", "cancelled"}

(* A proposal reaches the journal only with the completion of its Run: a    *)
(* Run that failed, was cancelled or abandoned proposes nothing.            *)
ProposalOnlyIfCompleted ==
  \A r \in Runs :
    (\E i \in DOMAIN events[r] : events[r][i] = "action.proposed")
      => status[r] = "completed"

(* turn_selections names the newest completed attempt that asked to be      *)
(* selected, and an attempt of that very turn.                              *)
SelectionIsLatestSuccess ==
  \A t \in Turns :
    LET successes == {r \in Runs : /\ status[r] = "completed"
                                   /\ row[r].select /\ TurnOf(r) = t}
    IN  IF selection[t] = None
          THEN successes = {}
          ELSE /\ selection[t] \in successes
               /\ \A q \in successes : row[q].attempt <= row[selection[t]].attempt

(* The process-wide execution bound holds whatever fails.                   *)
InFlightBounded == Cardinality(inFlight) <= MaxConcurrency

(* A strategy sees its signal aborted only after the store has committed    *)
(* that its result will not count.                                          *)
AbortAfterCommit ==
  \A r \in aborted : status[r] \in {"cancel_requested"} \union TERMINAL_STATUSES

(* Once shutdown has returned, no row claims that something is executing.   *)
StoppedIsSettled ==
  phase = "stopped" =>
    \A r \in Runs : status[r] \notin {"running", "cancel_requested"}

(* The in-memory stager holds no entry for a Run that can no longer commit  *)
(* it.                                                                      *)
StagedIsLive == \A r \in staged : status[r] = "running"

(* Without a storage failure, a row that claims to be executing is owned by *)
(* this process and its strategy is still out: nothing leaks as running.    *)
ActiveIsOwned ==
  faults = 0 /\ phase \in {"up", "gated", "draining"} =>
    \A r \in Runs :
      status[r] \in {"running", "cancel_requested"} => r \in inFlight \intersect tasks

(* Without a storage failure, a slot of the scheduler is held only while a  *)
(* strategy is out.                                                         *)
SlotsHaveTasks == faults = 0 => inFlight \subseteq tasks

(* What is durable and what is counted survive every failure: the journal   *)
(* tells the story of the row, no proposal outlives a Run that did not      *)
(* complete, and the execution bound holds.                                 *)
JournalSafe ==
  /\ JournalMatchesStatus
  /\ ProposalOnlyIfCompleted
  /\ InFlightBounded

(* Nothing leaks while Runs contend: rows, slots and strategies belong to   *)
(* each other, and the turn shows its newest success.                       *)
OwnershipSafe ==
  /\ SelectionIsLatestSuccess
  /\ ActiveIsOwned
  /\ SlotsHaveTasks

-----------------------------------------------------------------------------
(* Steps.                                                                   *)

(* Nothing changes a terminal Run or its journal: late results, late        *)
(* cancels, watchdogs and sweeps all leave it alone.                        *)
TerminalIsFinal ==
  [][\A r \in Runs : status[r] \in TERMINAL_STATUSES =>
       status'[r] = status[r] /\ events'[r] = events[r]]_vars

(* What the engine promises outside.                                        *)
Lifecycle ==
  INSTANCE RunLifecycle WITH sessionOf <- [r \in Runs |-> row[r].session]

(* Every engine step is a step of the abstract Run lifecycle.               *)
RefinesLifecycle == Lifecycle!LifecycleSpec

-----------------------------------------------------------------------------
(* Progress.                                                                *)

(* Every strategy settles: the agent's wall clock aborts it.                *)
StrategiesSettle == \A r \in Runs : WF_vars(TaskEnds(r))

(* If strategies settle, a Run whose strategy has a runtime leaves the      *)
(* queue while the scheduler is on, however many sessions compete for the   *)
(* slots.                                                                   *)
QueuedIsPickedUp ==
  StrategiesSettle =>
    \A r \in Runs :
      (status[r] = "queued" /\ row[r].strategy \in Registered)
        ~> (status[r] # "queued" \/ phase \notin {"up", "gated"})

(* A requested cancel is settled even if the strategy ignores its signal    *)
(* and even if the process goes down first.                                 *)
CancelSettles ==
  \A r \in Runs : status[r] = "cancel_requested" ~> status[r] = "cancelled"
=============================================================================
