---------------------------- MODULE MemoryOutbox ----------------------------
(***************************************************************************)
(* The memory service (apps/server/src/memory_service.ts) over the durable *)
(* outbox and operation tables (kernel repository.ts) and the shared       *)
(* background admission gate (background_resource.ts).                     *)
(*                                                                         *)
(* A job is named by its stable idempotency key, which is also the key of  *)
(* the call to the external memory program ("remind"): a tuple of the kind *)
(* and the Run or the client key it was derived from.  A correction is two *)
(* jobs: the source event and, once that is stored, the correct itself.    *)
(* Bodies, scopes, citations and the chunks of one text are left out; the  *)
(* evidence retry inside one call (a refused call wrote nothing) is part   *)
(* of the call.  next_due_at is modelled by the order in which jobs become *)
(* due: `dueJobs' is the list the due query returns, and a pending job     *)
(* outside it waits for its back-off.                                      *)
(***************************************************************************)
EXTENDS Naturals, Sequences, FiniteSets

CONSTANTS Runs,         \* Runs whose turns are stored
          CitedRuns,    \* those whose answers cite recalled memories
          Corrections,  \* client keys of record.correct requests
          Retires,      \* client keys of record.retire / reactivate requests
          DrainBatch,        \* MEMORY_DRAIN_BATCH
          MaxJobAttempts,  \* MEMORY_JOB_MAX_ATTEMPTS
          MaxRetries,   \* MEMORY_EXTRACT_RETRY_MAX_ATTEMPTS
          Workloads     \* bounds: which Runs complete, which keys are staged,
                        \* how many database calls and CLI calls fail,
                        \* processes end, notifications, foreign leases come

ASSUME MemoryAssumption ==
    /\ CitedRuns \subseteq Runs
    /\ Corrections \cap Retires = {}
    /\ Runs \cap {"free", "other", "distill"} = {}   \* a Run holds the gate under its own name
    /\ DrainBatch \in Nat \ {0} /\ MaxJobAttempts \in Nat \ {0} /\ MaxRetries \in Nat
    /\ Workloads \subseteq [runs: SUBSET Runs, keys: SUBSET (Corrections \cup Retires),
                            faults: Nat, failures: Nat, crashes: Nat, preempts: Nat, leases: Nat]

OpKeys == Corrections \cup Retires
Job == ({"event", "feedback", "remember", "distill"} \X Runs)
         \cup ({"source", "correct"} \X Corrections)
         \cup ({"retire"} \X Retires)
NoJob == <<"none">>
UnitFree == "free"
Other == "other"

VARIABLES memoryJobs,      \* memory_outbox: status and attempts of every key
          dueJobs,       \* the due jobs, oldest next_due_at first
          ops,       \* memory_operations: status and bound job
          store,     \* external: the keys the memory program has applied
          tick,      \* the drain tick in flight (drainInFlight)
          call,      \* the job whose CLI call it awaits
          rejoin,    \* a caller waits for the tick to drain once more
          run,       \* the Run as the repository shows it
          cult,      \* its cultivation: an extraction call in flight
          retry,     \* extractionRetryAttempts
          base,      \* attemptBase of the cultivation in flight
          anchor,    \* lastCompletedRun
          distill,   \* pendingDistillJobId
          gate,      \* BackgroundResourceGate: holder and closed
          staging,   \* stageMemoryMutation calls awaiting record.get
          assoc,     \* association maintenance: dirty flag and call
          memoryLife, \* life of the process
          budget     \* what the workload has left

memoryVars == <<memoryJobs, dueJobs, ops, store, tick, call, rejoin, run, cult, retry,
                base, anchor, distill, gate, staging, assoc, memoryLife, budget>>
outbox == <<memoryJobs, dueJobs, ops>>
cultivation == <<run, cult, retry, base, anchor>>

IdleTick == [on |-> FALSE, aborted |-> FALSE, executed |-> 0, page |-> <<>>,
             more |-> FALSE, before |-> 0]
NewTick == [IdleTick EXCEPT !.on = TRUE, !.more = TRUE]

MemoryInit ==
    /\ memoryJobs = [j \in Job |-> [status |-> "absent", attempts |-> 0]]
    /\ dueJobs = <<>>
    /\ ops = [k \in OpKeys |-> [status |-> "absent", job |-> NoJob]]
    /\ store = {}
    /\ tick \in {NewTick, IdleTick}   \* the recovery drain is under way, or found nothing
    /\ call = NoJob
    /\ rejoin = FALSE
    /\ run = [r \in Runs |-> "live"]
    /\ cult = [r \in Runs |-> "idle"]
    /\ retry = [r \in Runs |-> 0]
    /\ base = [r \in Runs |-> 0]
    /\ anchor = UnitFree
    /\ distill = NoJob
    /\ gate = [holder |-> UnitFree, closed |-> FALSE]
    /\ staging = [k \in OpKeys |-> 0]
    /\ assoc = [dirty |-> TRUE, calling |-> FALSE, live |-> FALSE]
    /\ memoryLife = "up"
    /\ budget \in Workloads

Up == memoryLife = "up"
Pending(j) == memoryJobs[j].status = "pending"
Fault == /\ budget.faults > 0
         /\ budget' = [budget EXCEPT !.faults = @ - 1]

---------------------------------------------------------------------------
(* The outbox tables: one transaction each *)

\* Mutant: the key is not looked up before the insert.
FreshAgain(j) == <<j>>

\* enqueueMemoryJob looks its key up first: one already there is left as it is
Fresh(j) == IF memoryJobs[j].status = "absent" THEN <<j>> ELSE <<>>

\* and inserts those that are new, one after the other
Enqueue(new) ==
    /\ memoryJobs' = [j \in Job |-> IF \E i \in DOMAIN new: new[i] = j
                               THEN [status |-> "pending", attempts |-> 0]
                               ELSE memoryJobs[j]]
    /\ dueJobs' = dueJobs \o new

\* the due list without j, which is on it at most once
Without(due0, j) ==
    IF \E i \in 1..Len(due0): due0[i] = j
    THEN LET at == CHOOSE i \in 1..Len(due0): due0[i] = j
         IN [i \in 1..(Len(due0) - 1) |-> IF i < at THEN due0[i] ELSE due0[i + 1]]
    ELSE due0

FirstJob(k) == IF k \in Corrections THEN <<"source", k>> ELSE <<"retire", k>>
RealJob(k) == IF k \in Corrections THEN <<"correct", k>> ELSE <<"retire", k>>

\* stageMemoryMutationAtomic: the first job and the operation, together
StageAtomic(k) ==
    IF ops[k].status # "absent"
    THEN UNCHANGED outbox
    ELSE /\ Enqueue(Fresh(FirstJob(k)))
         /\ ops' = [ops EXCEPT ![k] = [status |-> "pending", job |-> FirstJob(k)]]

\* bindCorrectionFollowupAtomic: the correct job and the rebound operation
BindFollowup(k) ==
    /\ Enqueue(Fresh(<<"correct", k>>))
    /\ ops' = [ops EXCEPT ![k].job = <<"correct", k>>]

\* the operations still bound to j and pending take its terminal status
MirrorOf(o, j, status) ==
    [k \in OpKeys |-> IF o[k].job = j /\ o[k].status = "pending"
                    THEN [o[k] EXCEPT !.status = status] ELSE o[k]]

\* Mutant: the acknowledgement forgets the operation row.
AckWithoutMirror(j) ==
    /\ memoryJobs' = [memoryJobs EXCEPT ![j].status = IF @ = "pending" THEN "acked" ELSE @]
    /\ dueJobs' = Without(dueJobs, j)
    /\ UNCHANGED ops

\* ackMemoryJobWithOperationMirror
AckWithMirror(j) ==
    /\ memoryJobs' = [memoryJobs EXCEPT ![j].status = IF @ = "pending" THEN "acked" ELSE @]
    /\ dueJobs' = Without(dueJobs, j)
    /\ ops' = IF Pending(j) THEN MirrorOf(ops, j, "acked") ELSE ops

\* failMemoryJobWithOperationMirror: the last attempt fails job and operation,
\* an earlier one only starts a back-off
FailWithMirror(j, max) ==
    LET n == memoryJobs[j].attempts + 1
        last == n >= max
    IN  /\ dueJobs' = Without(dueJobs, j)
        /\ memoryJobs' = [memoryJobs EXCEPT ![j] = [status |-> IF last THEN "failed" ELSE "pending",
                                        attempts |-> n]]
        /\ ops' = IF last THEN MirrorOf(ops, j, "failed") ELSE ops

\* the back-off of a pending job is over: next_due_at <= now
BackoffEnds(j) ==
    /\ Pending(j)
    /\ \A i \in DOMAIN dueJobs: dueJobs[i] # j
    /\ dueJobs' = Append(dueJobs, j)
    /\ UNCHANGED <<memoryJobs, ops, store, tick, call, rejoin, cultivation, distill,
                   gate, staging, assoc, memoryLife, budget>>

---------------------------------------------------------------------------
(* The drain tick: at most one, at most DrainBatch jobs *)

\* drainOnce joins the tick in flight; on a stopped service it does nothing
JoinTick == tick' = IF tick.on \/ ~Up THEN tick ELSE NewTick

\* the next due jobs of this page that may run now: only a distill needs the
\* shared background unit, and it is skipped when the unit is not free
Admitted(j) == j[1] = "distill" => gate.holder = UnitFree /\ ~gate.closed
Runnable == {i \in DOMAIN tick.page: Admitted(tick.page[i])}

TickHalted == ~Up \/ tick.aborted \/ tick.executed >= DrainBatch
\* the page is used up; another is read only if this one was full and some
\* job of it ran (a page of skipped jobs would be read again for ever)
PageDone == Runnable = {}
ReadsOn == tick.more /\ (tick.page = <<>> \/ tick.executed > tick.before)

TickReads ==
    /\ tick.on /\ call = NoJob /\ ~TickHalted
    /\ PageDone /\ ReadsOn /\ dueJobs # <<>>
    /\ LET asked == DrainBatch - tick.executed
           n == IF Len(dueJobs) < asked THEN Len(dueJobs) ELSE asked
       IN tick' = [tick EXCEPT !.page = SubSeq(dueJobs, 1, n), !.more = n = asked,
                               !.before = tick.executed]
    /\ UNCHANGED <<outbox, store, call, rejoin, cultivation, distill, gate,
                   staging, assoc, memoryLife, budget>>

\* the call of executeJob starts; a distill holds the background unit
TickCalls ==
    /\ tick.on /\ call = NoJob /\ ~TickHalted
    /\ Runnable # {}
    /\ LET i == CHOOSE i \in Runnable: \A h \in Runnable: i <= h
           j == tick.page[i]
       IN /\ call' = j
          /\ tick' = [tick EXCEPT !.page = SubSeq(@, i + 1, Len(@))]
          /\ gate' = IF j[1] = "distill" THEN [gate EXCEPT !.holder = "distill"]
                     ELSE gate
    /\ UNCHANGED <<outbox, store, rejoin, cultivation, distill, staging, assoc, memoryLife, budget>>

\* the tick is over (its due query may also fail); a caller that waited for it
\* to end drains once more
TickEnds ==
    /\ tick.on /\ call = NoJob
    /\ \/ /\ TickHalted \/ (PageDone /\ (~ReadsOn \/ dueJobs = <<>>))
          /\ UNCHANGED budget
       \/ /\ PageDone /\ ReadsOn
          /\ Fault
    /\ tick' = IF rejoin /\ Up THEN NewTick ELSE IdleTick
    /\ rejoin' = FALSE
    /\ UNCHANGED <<outbox, store, call, cultivation, distill, gate, staging,
                   assoc, memoryLife>>

\* external: the memory program applies the call under its key, once
CliApplies ==
    /\ call # NoJob /\ call \notin store
    /\ store' = store \cup {call}
    /\ UNCHANGED <<outbox, tick, call, rejoin, cultivation, distill, gate,
                   staging, assoc, memoryLife, budget>>

\* executeJob resumes: the call is counted, its lease is given back
CallSettles ==
    /\ call # NoJob
    /\ call' = NoJob
    /\ tick' = [tick EXCEPT !.executed = @ + 1]
    /\ gate' = IF gate.holder = "distill" THEN [gate EXCEPT !.holder = UnitFree] ELSE gate
    /\ UNCHANGED <<store, rejoin, cultivation, staging, assoc, memoryLife>>

ForgetDistill(j) == distill' = IF distill = j THEN NoJob ELSE distill

\* answered ok: the follow-up of a correction source is bound first, then the
\* job is acknowledged; either transaction may fail and leaves it pending
CallAnswersOk ==
    /\ call \in store
    /\ CallSettles
    /\ LET j == call
       IN  \/ /\ j[1] # "source"
              /\ AckWithMirror(j)
              /\ ForgetDistill(j)
              /\ UNCHANGED budget
           \/ /\ j[1] = "source"
              /\ LET k == j[2] IN
                 \* bindCorrectionFollowupAtomic, then the ack of the source:
                 \* the operation is no longer bound to it
                 /\ memoryJobs' = [memoryJobs EXCEPT ![j].status = IF @ = "pending" THEN "acked" ELSE @,
                                         ![<<"correct", k>>] =
                                 IF @.status = "absent"
                                 THEN [status |-> "pending", attempts |-> 0] ELSE @]
                 /\ dueJobs' = Without(dueJobs, j)
                             \o Fresh(<<"correct", k>>)
                 /\ ops' = [ops EXCEPT ![k].job = <<"correct", k>>]
              /\ UNCHANGED <<distill, budget>>
           \/ \* the follow-up is bound, the acknowledgement fails
              /\ j[1] = "source"
              /\ BindFollowup(j[2])
              /\ Fault
              /\ UNCHANGED distill
           \/ \* the first transaction fails
              /\ Fault
              /\ UNCHANGED <<outbox, distill>>

\* no answer, a time-out, an unavailable store: counted against
\* MaxJobAttempts; so is a call aborted by foreground work or by stop().  An
\* answer over the program's limits is final at once.
JobCallFails ==
    /\ budget.failures > 0
    /\ CallSettles
    /\ \/ /\ \E max \in {1, MaxJobAttempts}: FailWithMirror(call, max)
          /\ budget' = [budget EXCEPT !.failures = @ - 1]
       \/ Fault /\ UNCHANGED outbox
    /\ UNCHANGED distill

\* a domain refusal: final at once
CallRefused ==
    /\ call \notin store
    /\ budget.failures > 0
    /\ CallSettles
    /\ \/ /\ FailWithMirror(call, 1) /\ ForgetDistill(call)
          /\ budget' = [budget EXCEPT !.failures = @ - 1]
       \/ Fault /\ UNCHANGED <<outbox, distill>>

---------------------------------------------------------------------------
(* Cultivation of a completed Run *)

\* a retry of the turn completes: this Run is no longer the selected one
Superseded(r) ==
    /\ Up /\ run[r] = "selected"
    /\ run' = [run EXCEPT ![r] = "superseded"]
    /\ UNCHANGED <<outbox, store, tick, call, rejoin, cult, retry, base, anchor,
                   distill, gate, staging, assoc, memoryLife, budget>>

\* cultivateRun up to its first await.  Feedback and the raw event are stored
\* before anything asks for the model; a busy unit forgoes the extraction.
Cultivate(r, attempts) ==
    \/ /\ run[r] = "superseded"
       /\ UNCHANGED <<outbox, tick, rejoin, cult, base, anchor, gate, budget>>
    \/ /\ run[r] # "superseded"
       /\ anchor' = r
       /\ UNCHANGED ops
       /\ LET feedback == IF r \in CitedRuns THEN Fresh(<<"feedback", r>>) ELSE <<>>
          IN  \/ /\ gate.closed
                 /\ Enqueue(feedback)
                 /\ UNCHANGED <<tick, rejoin, cult, base, gate, budget>>
              \/ \* the raw event cannot be stored: no extraction either
                 /\ ~gate.closed
                 /\ Enqueue(feedback)
                 /\ Fault
                 /\ UNCHANGED <<tick, rejoin, cult, base, gate>>
              \/ /\ ~gate.closed
                 /\ Enqueue(feedback \o Fresh(<<"event", r>>))
                 /\ IF gate.holder = UnitFree
                    THEN /\ gate' = [gate EXCEPT !.holder = r]
                         /\ cult' = [cult EXCEPT ![r] = "calling"]
                         /\ base' = [base EXCEPT ![r] = attempts]
                         /\ UNCHANGED <<tick, rejoin>>
                    ELSE /\ JoinTick
                         /\ rejoin' = (rejoin \/ tick.on)
                         /\ UNCHANGED <<cult, base, gate>>
                 /\ UNCHANGED budget

\* completeRun commits and its wrapper calls onRunCompleted in the same turn of
\* the event loop (the process may end between the two: MemoryProcessEnds)
RunCompletes(r) ==
    /\ Up /\ run[r] = "live" /\ r \in budget.runs
    /\ run' = [run EXCEPT ![r] = "selected"]
    /\ Cultivate(r, 0)
    /\ UNCHANGED <<store, call, retry, distill, staging, assoc, memoryLife>>

\* the idle pass takes up a preempted extraction again (runExtractionRetries)
IdleRetry(r) ==
    /\ Up /\ retry[r] > 0 /\ cult[r] = "idle"
    /\ retry' = [retry EXCEPT ![r] = 0]
    /\ Cultivate(r, retry[r])
    /\ UNCHANGED <<store, call, run, distill, staging, assoc, memoryLife>>

\* the extraction call returns.  An aborted one is scheduled again, at most
\* MaxRetries times, unless the service is stopping; memories are stored only
\* if the Run is still the selected one.
ExtractionReturns(r) ==
    /\ cult[r] \in {"calling", "killed"}
    /\ cult' = [cult EXCEPT ![r] = "idle"]
    /\ gate' = [gate EXCEPT !.holder = UnitFree]
    /\ JoinTick
    /\ UNCHANGED ops
    /\ \/ \* aborted, by foreground work, its own budget or stop()
          /\ retry' = [retry EXCEPT ![r] =
                         IF Up /\ ~gate.closed /\ base[r] < MaxRetries
                         THEN base[r] + 1 ELSE 0]
          /\ UNCHANGED <<memoryJobs, dueJobs, assoc, budget>>
       \/ \* nothing to remember
          /\ cult[r] = "calling"
          /\ UNCHANGED <<memoryJobs, dueJobs, retry, assoc, budget>>
       \/ \* memories, for a Run that is still current
          /\ cult[r] = "calling" /\ Up /\ run[r] = "selected"
          /\ \/ Enqueue(Fresh(<<"remember", r>>)) /\ UNCHANGED budget
             \/ Fault /\ UNCHANGED <<memoryJobs, dueJobs>>
          /\ assoc' = [assoc EXCEPT !.dirty = TRUE]
          /\ UNCHANGED retry
    /\ UNCHANGED <<store, call, rejoin, run, base, anchor, distill, staging, memoryLife>>

---------------------------------------------------------------------------
(* Idle work *)

\* Mutant: without a completed Run to anchor it, nothing is drained.
IdleNeedsAnchor ==
    /\ Up
    /\ LET live == IF distill = NoJob THEN FALSE ELSE Pending(distill)
           old == IF live THEN distill ELSE NoJob
           isDue == \E i \in DOMAIN dueJobs: dueJobs[i] = distill
           key == <<"distill", anchor>>
       IN  \/ \* the distill is backing off: the timer is armed again
              /\ live /\ ~isDue
              /\ UNCHANGED <<memoryJobs, dueJobs, distill, tick>>
           \/ /\ live => isDue
              /\ dueJobs # <<>> /\ anchor # UnitFree
              /\ distill' = old
              /\ JoinTick
              /\ UNCHANGED <<memoryJobs, dueJobs>>
           \/ /\ live => isDue
              /\ anchor = UnitFree
              /\ distill' = old
              /\ UNCHANGED <<memoryJobs, dueJobs, tick>>
           \/ /\ live => isDue
              /\ dueJobs = <<>> /\ anchor # UnitFree
              /\ Enqueue(Fresh(key))
              /\ IF memoryJobs'[key].status = "pending"
                 THEN distill' = key /\ JoinTick
                 ELSE distill' = old /\ UNCHANGED tick
    /\ UNCHANGED <<ops, store, call, rejoin, cultivation, gate, staging, assoc, memoryLife, budget>>

\* the last part of runIdleDistill: drain what is due, otherwise enqueue the
\* one distill of the last completed Run and drain it
IdleDistill ==
    /\ Up
    /\ LET live == IF distill = NoJob THEN FALSE ELSE Pending(distill)
           old == IF live THEN distill ELSE NoJob
           isDue == \E i \in DOMAIN dueJobs: dueJobs[i] = distill
           key == <<"distill", anchor>>
       IN  \/ \* the distill is backing off: the timer is armed again
              /\ live /\ ~isDue
              /\ UNCHANGED <<memoryJobs, dueJobs, distill, tick>>
           \/ /\ live => isDue
              /\ dueJobs # <<>>
              /\ distill' = old
              /\ JoinTick
              /\ UNCHANGED <<memoryJobs, dueJobs>>
           \/ /\ live => isDue
              /\ dueJobs = <<>> /\ anchor = UnitFree
              /\ distill' = old
              /\ UNCHANGED <<memoryJobs, dueJobs, tick>>
           \/ /\ live => isDue
              /\ dueJobs = <<>> /\ anchor # UnitFree
              /\ Enqueue(Fresh(key))
              /\ IF memoryJobs'[key].status = "pending"
                 THEN distill' = key /\ JoinTick
                 ELSE distill' = old /\ UNCHANGED tick
    /\ UNCHANGED <<ops, store, call, rejoin, cultivation, gate, staging, assoc, memoryLife, budget>>

\* maintain.associate starts only when no outbox job is outstanding
AssociateStarts ==
    /\ Up /\ ~gate.closed
    /\ assoc.dirty /\ ~assoc.calling
    /\ \A j \in Job: ~Pending(j)
    /\ assoc' = [assoc EXCEPT !.calling = TRUE, !.live = TRUE]
    /\ UNCHANGED <<outbox, store, tick, call, rejoin, cultivation, distill, gate,
                   staging, memoryLife, budget>>

\* it answers: a pass that foreground work has overtaken changes nothing; one
\* that went through leaves the flag up only if more remains
AssociateReturns ==
    /\ assoc.calling
    /\ \/ \* failed, or the pass is no longer active
          /\ assoc' = [assoc EXCEPT !.calling = FALSE, !.live = FALSE]
       \/ /\ assoc.live /\ Up
          /\ \E remaining \in BOOLEAN:
               /\ assoc' = [dirty |-> remaining, calling |-> FALSE, live |-> FALSE]
    /\ UNCHANGED <<outbox, store, tick, call, rejoin, cultivation, distill, gate,
                   staging, memoryLife, budget>>

---------------------------------------------------------------------------
(* Requests, foreground work, other users of the gate, the process *)

\* stageMemoryMutation up to its fresh read: an operation already there is
\* answered with its stored status
StageBegins(k) ==
    /\ Up /\ ops[k].status = "absent" /\ k \in budget.keys /\ staging[k] < 2
    /\ staging' = [staging EXCEPT ![k] = @ + 1]
    /\ UNCHANGED <<outbox, store, tick, call, rejoin, cultivation, distill, gate,
                   assoc, memoryLife, budget>>

\* Mutant: no second look at `stopped' before the write.
StageEndsLate(k) ==
    /\ staging[k] > 0
    /\ staging' = [staging EXCEPT ![k] = @ - 1]
    /\ UNCHANGED outbox \/ StageAtomic(k)
    /\ UNCHANGED <<store, tick, call, rejoin, cultivation, distill, gate, assoc, memoryLife, budget>>

\* and after it: cancelled, refused by the record's state, or staged
StageEnds(k) ==
    /\ staging[k] > 0
    /\ staging' = [staging EXCEPT ![k] = @ - 1]
    /\ \/ UNCHANGED outbox
       \/ Up /\ StageAtomic(k)
    /\ UNCHANGED <<store, tick, call, rejoin, cultivation, distill, gate, assoc, memoryLife, budget>>

Killed(c) == [r \in Runs |-> IF c[r] = "calling" THEN "killed" ELSE c[r]]

\* Mutant: preemption gives the unit back at once.
NotifyReleases ==
    /\ Up /\ budget.preempts > 0
    /\ budget' = [budget EXCEPT !.preempts = @ - 1]
    /\ cult' = Killed(cult)
    /\ gate' = IF gate.holder \in Runs THEN [gate EXCEPT !.holder = UnitFree] ELSE gate
    /\ assoc' = [assoc EXCEPT !.live = FALSE]
    /\ UNCHANGED <<outbox, store, tick, call, rejoin, run, retry, base, anchor,
                   distill, staging, memoryLife>>

\* a message, a retry or a cancel: aborts the extraction and the idle
\* maintenance pass; an aborted distill call is one that may fail (JobCallFails)
NotifyForeground ==
    /\ Up /\ budget.preempts > 0
    /\ budget' = [budget EXCEPT !.preempts = @ - 1]
    /\ cult' = Killed(cult)
    /\ assoc' = [assoc EXCEPT !.live = FALSE]
    /\ UNCHANGED <<outbox, store, tick, call, rejoin, run, retry, base, anchor,
                   distill, gate, staging, memoryLife>>

\* another background service takes or returns the shared unit
OtherUnit ==
    /\ \/ /\ gate.holder = UnitFree /\ ~gate.closed /\ budget.leases > 0
          /\ gate' = [gate EXCEPT !.holder = Other]
          /\ budget' = [budget EXCEPT !.leases = @ - 1]
       \/ /\ gate.holder = Other
          /\ gate' = [gate EXCEPT !.holder = UnitFree]
          /\ UNCHANGED budget
    /\ UNCHANGED <<outbox, store, tick, call, rejoin, cultivation, distill,
                   staging, assoc, memoryLife>>

\* stop(): no admission, every call of the service aborted
Stop ==
    /\ Up /\ budget.crashes > 0
    /\ memoryLife' = "stopping"
    /\ gate' = [gate EXCEPT !.closed = TRUE]
    /\ cult' = Killed(cult)
    /\ tick' = [tick EXCEPT !.aborted = tick.on]
    /\ assoc' = [assoc EXCEPT !.live = FALSE]
    /\ UNCHANGED <<outbox, store, call, rejoin, run, retry, base, anchor, distill,
                   staging, budget>>

\* stop() has awaited the maintenance pass and the tick; it waits for the
\* stagings too, but at most five seconds
StopResolves ==
    /\ memoryLife = "stopping"
    /\ ~assoc.calling /\ ~tick.on
    /\ memoryLife' = "stopped"
    /\ UNCHANGED <<outbox, store, tick, call, rejoin, cultivation, distill, gate,
                   staging, assoc, budget>>

\* the process ends, at any point or after a stop, perhaps right after the
\* commit of a completed Run: what is in memory is gone
MemoryProcessEnds ==
    /\ memoryLife # "down" /\ budget.crashes > 0
    /\ budget' = [budget EXCEPT !.crashes = @ - 1]
    /\ memoryLife' = "down"
    /\ tick' = IdleTick
    /\ call' = NoJob
    /\ rejoin' = FALSE
    /\ cult' = [r \in Runs |-> "idle"]
    /\ retry' = [r \in Runs |-> 0]
    /\ base' = [r \in Runs |-> 0]
    /\ anchor' = UnitFree
    /\ distill' = NoJob
    /\ gate' = [holder |-> UnitFree, closed |-> FALSE]
    /\ staging' = [k \in OpKeys |-> 0]
    /\ assoc' = [dirty |-> TRUE, calling |-> FALSE, live |-> FALSE]
    /\ \/ UNCHANGED run
       \/ \E r \in budget.runs: Up /\ run[r] = "live" /\ run' = [run EXCEPT ![r] = "selected"]
    /\ UNCHANGED <<outbox, store>>

\* start(): the recovery drain
Restart ==
    /\ memoryLife = "down"
    /\ memoryLife' = "up"
    /\ tick' = NewTick
    /\ UNCHANGED <<outbox, store, call, rejoin, cultivation, distill, gate, staging,
                   assoc, budget>>

DrainStep ==
    \/ TickReads \/ TickCalls \/ TickEnds
    \/ CliApplies \/ CallAnswersOk \/ JobCallFails \/ CallRefused

MemoryNext ==
    \/ DrainStep
    \/ \E j \in Job: BackoffEnds(j)
    \/ \E r \in Runs: RunCompletes(r) \/ Superseded(r)
                        \/ IdleRetry(r) \/ ExtractionReturns(r)
    \/ IdleDistill \/ AssociateStarts \/ AssociateReturns
    \/ \E k \in OpKeys: StageBegins(k) \/ StageEnds(k)
    \/ NotifyForeground \/ OtherUnit
    \/ Stop \/ StopResolves \/ MemoryProcessEnds \/ Restart

MemorySpec == MemoryInit /\ [][MemoryNext]_memoryVars

\* Every await of the service is bounded (CLI and gateway time-outs), the due
\* time of a back-off passes, the idle timer is re-armed after every pass, other
\* services return the unit, and a process that stops ends and is started again.
MemoryFairness ==
    /\ WF_memoryVars(DrainStep)
    /\ WF_memoryVars(\E j \in Job: BackoffEnds(j))
    /\ WF_memoryVars(\E r \in Runs: ExtractionReturns(r))
    /\ WF_memoryVars(IdleDistill)
    /\ WF_memoryVars(AssociateReturns)
    /\ WF_memoryVars(gate.holder = Other /\ OtherUnit)
    /\ WF_memoryVars(StopResolves \/ Restart \/ (memoryLife = "stopped" /\ MemoryProcessEnds))
---------------------------------------------------------------------------
(* Properties *)

JobStatus == {"absent", "pending", "acked", "failed"}

\* Every table and every in-process variable keeps its shape; a due job is
\* pending and listed once, so a page never runs one job twice.
MemoryTypeOK ==
    /\ memoryJobs \in [Job -> [status: JobStatus, attempts: 0..MaxJobAttempts]]
    /\ \A i \in DOMAIN dueJobs: dueJobs[i] \in Job /\ Pending(dueJobs[i])
    /\ \A h, i \in DOMAIN dueJobs: dueJobs[h] = dueJobs[i] => h = i
    /\ ops \in [OpKeys -> [status: JobStatus, job: Job \cup {NoJob}]]
    /\ store \subseteq Job
    /\ call \in Job \cup {NoJob}
    /\ tick.executed \in 0..DrainBatch
    /\ run \in [Runs -> {"live", "selected", "superseded"}]
    /\ cult \in [Runs -> {"idle", "calling", "killed"}]
    /\ retry \in [Runs -> 0..MaxRetries] /\ base \in [Runs -> 0..MaxRetries]
    /\ gate.holder \in Runs \cup {UnitFree, Other, "distill"}
    /\ memoryLife \in {"up", "stopping", "stopped", "down"}

\* The status a poller reads is the status of the job the operation is bound
\* to, across the rebinding of a correction, crashes and failing writes
\* (ackMemoryJobWithOperationMirror, failMemoryJobWithOperationMirror).
MirrorAgrees ==
    \A k \in OpKeys: ops[k].status # "absent" => ops[k].status = memoryJobs[ops[k].job].status

\* An operation reported done has its real mutation in the memory program, and
\* no job is acknowledged that was not applied.
AckIsApplied ==
    /\ \A j \in Job: memoryJobs[j].status = "acked" => j \in store
    /\ \A k \in OpKeys: ops[k].status = "acked" => RealJob(k) \in store

\* Provenance comes first: no correction is queued before its source event is
\* stored, no memory before the raw event of its turn is queued.
SourceFirst ==
    /\ \A k \in Corrections: memoryJobs[<<"correct", k>>].status # "absent"
                               => <<"source", k>> \in store
    /\ \A r \in Runs: memoryJobs[<<"remember", r>>].status # "absent"
                        => memoryJobs[<<"event", r>>].status # "absent"

\* What memory management tells its users is true: the mirror, the
\* acknowledgements and the order of provenance together.
OperationsHonest == MirrorAgrees /\ AckIsApplied /\ SourceFirst

\* At most one model-heavy call of the background services runs at a time, and
\* the unit is held exactly by the one that runs it: an abort gives the lease
\* back only when the call has settled.
OneModelCall ==
    LET calling == {r \in Runs: cult[r] \in {"calling", "killed"}}
    IN  /\ \A r \in calling: gate.holder = r
        /\ call # NoJob /\ call[1] = "distill" => gate.holder = "distill"
        /\ gate.holder \in Runs => gate.holder \in calling
        /\ gate.holder = "distill" => call # NoJob /\ call[1] = "distill"

\* The memory service as its users and its neighbours see it.
MemorySafe == OperationsHonest /\ OneModelCall

\* Once stop() has returned, nothing is written to the outbox any more (the
\* database is closed next), although extractions and stagings may still be
\* in flight.
QuietAfterStop == [][memoryLife = "stopped" => UNCHANGED <<memoryJobs, ops>>]_memoryVars

\* A staged operation is pending: not for ever, behind a gated distill, a
\* back-off, failing calls, or a restart.
OperationPending == \E k \in OpKeys: ops[k].status = "pending"
=============================================================================
