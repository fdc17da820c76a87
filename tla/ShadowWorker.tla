---------------------------- MODULE ShadowWorker ----------------------------
(***************************************************************************)
(* Shadow deliberation: the job store of packages/kernel/src/shadow.ts and  *)
(* its one worker, apps/server/src/shadow_service.ts.                       *)
(*                                                                          *)
(* A change of policy state (a goal, a task, a conflict) queues a job in    *)
(* its own transaction and wakes the worker.  The worker takes the oldest   *)
(* job, recalls memory, claims the job (freezing what it will reason on),   *)
(* makes one model call and commits the decision behind fences.  Pause,     *)
(* foreground Runs, the shared background gate, shutdown and restart cut    *)
(* across it at every await.                                                *)
(*                                                                          *)
(* A job's version is its status seen as a number (every transition bumps   *)
(* it and none is undone), so a CAS on the version is a test of the status. *)
(* The frozen context is the scope's epoch and whether its records' windows *)
(* apply: every change of a record bumps the epoch in its transaction.      *)
(***************************************************************************)
EXTENDS Naturals, Sequences, FiniteSets

CONSTANTS
  Scopes,      \* (session, scope) pairs
  ShadowBatch,       \* MEMORY_DRAIN_BATCH
  MaxJobs,     \* bound: jobs
  ShadowLoads  \* bound: how often, in one behaviour, each thing happens

(* Changes of policy, explicit requests, control commands, foreground Runs, *)
(* other background units, windows crossed, restarts, failed writes of the  *)
(* worker.                                                                  *)
Happenings == {"changes", "requests", "flips", "posts", "units", "windows", "lives", "faults"}

ASSUME ShadowAssumption ==
  /\ ShadowBatch \in Nat \ {0}
  /\ MaxJobs \in Nat
  /\ ShadowLoads \subseteq [Happenings -> Nat]

VARIABLES
  policy,      \* autonomy_control: [paused, version]
  epoch,       \* shadow_scope_epochs
  applies,     \* whether the scope's windows cover now
  jobs,        \* shadow_jobs, oldest first
  due,         \* ghost: the last change of a scope made while unpaused: [job, epoch]
  drifted,     \* ghost: jobs whose ground changed after their claim
  drain,       \* the drain tick: [at, done, second, job]
  wakeQueued,
  cut,         \* the current call's signal is aborted
  wall,        \* the wall's timer fired
  lateLease,   \* the lease of the claimed job has run out
  holder,      \* holder of the background gate
  active,      \* a foreground Run is queued, running or being cancelled
  closing,     \* stop() was called
  faulted,     \* ghost: a write of the worker failed
  allow        \* what may still happen

policyVars == <<policy, epoch, applies>>
storeVars == <<jobs, due, drifted>>
workerVars == <<drain, wakeQueued, cut, wall, lateLease>>
shadowVars == <<policyVars, storeVars, workerVars, holder, active, closing, faulted, allow>>

Spend(what) ==
  /\ allow[what] > 0
  /\ allow' = [allow EXCEPT ![what] = @ - 1]
  /\ faulted' = (faulted \/ what = "faults")
Free == UNCHANGED <<allow, faulted>>

NoTick == [at |-> "off", done |-> 0, second |-> FALSE, job |-> 0]
Awaiting == drain.at \in {"recall", "chat"}
Terminal0 == {"held", "failed", "completed", "cancelled"}

(* The values the variables take.                                           *)
ShadowTypeOK ==
  /\ policy \in [paused : BOOLEAN, version : Nat]
  /\ epoch \in [Scopes -> Nat]
  /\ applies \in [Scopes -> BOOLEAN]
  /\ jobs \in Seq([scope : Scopes, kind : {"change", "request"},
                   status : {"pending", "claimed"} \union Terminal0,
                   control : Nat, epoch : Nat, applies : BOOLEAN])
  /\ Len(jobs) <= MaxJobs
  /\ due \in [Scopes -> [job : 0 .. Len(jobs), epoch : Nat]]
  /\ drifted \subseteq DOMAIN jobs
  /\ drain \in [at : {"off", "top", "recall", "chat"}, done : 0 .. ShadowBatch, second : BOOLEAN,
                job : 0 .. Len(jobs)]
  /\ {wakeQueued, cut, wall, lateLease, active, closing, faulted} \subseteq BOOLEAN
  /\ holder \in {"free", "shadow", "other"}
  /\ allow \in [Happenings -> Nat]

(* A server that was started and resumed.                                   *)
ShadowInit ==
  /\ policy = [paused |-> FALSE, version |-> 1]
  /\ epoch = [s \in Scopes |-> 0]
  /\ applies = [s \in Scopes |-> TRUE]
  /\ jobs = << >>
  /\ due = [s \in Scopes |-> [job |-> 0, epoch |-> 0]]
  /\ drifted = {}
  /\ drain = NoTick
  /\ wakeQueued = FALSE
  /\ cut = FALSE
  /\ wall = FALSE
  /\ lateLease = FALSE
  /\ holder = "free"
  /\ active = FALSE
  /\ closing = FALSE
  /\ faulted = FALSE
  /\ allow \in ShadowLoads

Having(status) == {j \in DOMAIN jobs : jobs[j].status = status}
Claimed == Having("claimed")

NewJob(s, kind, status) ==
  [scope |-> s, kind |-> kind, status |-> status, control |-> 0, epoch |-> 0, applies |-> TRUE]

(* Every live job in the given states becomes held.                         *)
HoldAll(from) ==
  jobs' = [j \in DOMAIN jobs |->
             IF jobs[j].status \in from THEN [jobs[j] EXCEPT !.status = "held"] ELSE jobs[j]]

-----------------------------------------------------------------------------
(* Waking.  wake() joins the tick under way or starts one, and first aborts *)
(* the current call when the control is paused.                             *)

StartTick(second) == [NoTick EXCEPT !.at = "top", !.second = second]

Wake ==
  /\ cut' = (cut \/ (Awaiting /\ policy'.paused))
  /\ IF closing
       THEN UNCHANGED <<drain, wakeQueued>>
       ELSE IF drain.at # "off"
              THEN wakeQueued' = TRUE /\ UNCHANGED drain
              ELSE drain' = StartTick(FALSE) /\ UNCHANGED wakeQueued

(* notifyForeground.                                                        *)
Preempted == cut' = (cut \/ Awaiting)

-----------------------------------------------------------------------------
(* The user's side: each handler commits, then wakes or notifies.           *)

(* Mutant: a change joins the job that is being worked on.                  *)
ReusableLive(s) ==
  {j \in Having("pending") \union Claimed : jobs[j].scope = s /\ jobs[j].kind = "change"}

(* A pending job of the same trigger is reused; a claimed one never is.     *)
Reusable(s) == {j \in Having("pending") : jobs[j].scope = s /\ jobs[j].kind = "change"}

(* enqueueShadowSourceInTx, in the transaction of the change.               *)
ScopePolicyChanges(s) ==
  /\ ~ closing
  /\ Spend("changes")
  /\ epoch' = [epoch EXCEPT ![s] = @ + 1]
  /\ drifted' = drifted \union {j \in Claimed : jobs[j].scope = s}
  /\ IF policy.paused
       THEN UNCHANGED <<jobs, due>>
       ELSE \/ /\ Reusable(s) = {}
               /\ Len(jobs) < MaxJobs
               /\ jobs' = Append(jobs, NewJob(s, "change", "pending"))
               /\ due' = [due EXCEPT ![s] = [job |-> Len(jobs) + 1, epoch |-> epoch[s] + 1]]
            \/ \E j \in Reusable(s) :
                 /\ due' = [due EXCEPT ![s] = [job |-> j, epoch |-> epoch[s] + 1]]
                 /\ UNCHANGED jobs
  /\ UNCHANGED <<policy, applies>>
  /\ Wake
  /\ UNCHANGED <<wall, lateLease, holder, active, closing>>

(* requestShadowDeliberation: the epoch is initialised, never bumped; a     *)
(* request made while paused is held at once.                               *)
RequestDeliberation(s) ==
  /\ ~ closing
  /\ Len(jobs) < MaxJobs
  /\ Spend("requests")
  /\ epoch' = [epoch EXCEPT ![s] = IF @ = 0 THEN 1 ELSE @]
  /\ jobs' = Append(jobs, NewJob(s, "request", IF policy.paused THEN "held" ELSE "pending"))
  /\ UNCHANGED <<policy, applies, due, drifted>>
  /\ Wake
  /\ UNCHANGED <<wall, lateLease, holder, active, closing>>

(* cancelShadowJob: only a pending job.                                     *)
CancelJob(j) ==
  /\ ~ closing
  /\ jobs[j].status = "pending"
  /\ jobs' = [jobs EXCEPT ![j].status = "cancelled"]
  /\ UNCHANGED <<policyVars, due, drifted, workerVars, holder, active, closing, faulted, allow>>

(* setAutonomyControl: a pause holds what is pending; what is claimed meets *)
(* the fences.  The handler notifies the worker, and wakes it on a resume.  *)
SetControlTo(paused) ==
  /\ ~ closing
  /\ Spend("flips")
  /\ policy' = [paused |-> paused, version |-> policy.version + 1]
  /\ drifted' = drifted \union Claimed
  /\ IF paused THEN HoldAll({"pending"}) ELSE UNCHANGED jobs
  /\ UNCHANGED <<epoch, applies, due>>
  /\ Wake
  /\ UNCHANGED <<wall, lateLease, holder, active, closing>>

WindowCrosses(s) ==
  /\ applies[s]
  /\ Spend("windows")
  /\ applies' = [applies EXCEPT ![s] = FALSE]
  /\ drifted' = drifted \union {j \in Claimed : jobs[j].scope = s}
  /\ UNCHANGED <<policy, epoch, jobs, due, workerVars, holder, active, closing>>

(* postMessage and postRetry.                                               *)
RunPosted ==
  /\ ~ closing
  /\ ~ active
  /\ Spend("posts")
  /\ active' = TRUE
  /\ Preempted
  /\ UNCHANGED <<policyVars, storeVars, drain, wakeQueued, wall, lateLease, holder, closing>>

(* completeRun, failRun, finalizeCancelRequested: settlement wakes.         *)
RunSettled ==
  /\ active
  /\ active' = FALSE
  /\ UNCHANGED policyVars
  /\ Wake
  /\ UNCHANGED <<storeVars, wall, lateLease, holder, closing, faulted, allow>>

(* cancelRun of a queued Run is its end, and notifies only; so does an      *)
(* action Run that is settled as abandoned.                                 *)
RunEndsUnannounced ==
  /\ active
  /\ active' = FALSE
  /\ Preempted
  /\ UNCHANGED <<policyVars, storeVars, drain, wakeQueued, wall, lateLease, holder, closing, faulted, allow>>

(* Another background unit takes and frees the gate; freeing it wakes.      *)
OtherTakesGate ==
  /\ holder = "free"
  /\ ~ closing
  /\ Spend("units")
  /\ holder' = "other"
  /\ UNCHANGED <<policyVars, storeVars, workerVars, active, closing>>

OtherFreesGate ==
  /\ holder = "other"
  /\ holder' = "free"
  /\ UNCHANGED policyVars
  /\ Wake
  /\ UNCHANGED <<storeVars, wall, lateLease, active, closing, faulted, allow>>

-----------------------------------------------------------------------------
(* The worker.                                                              *)

(* A tick ends.  The first one is followed by a second when a wake came     *)
(* during it; the second by none.                                           *)
TickOver ==
  IF ~ drain.second /\ wakeQueued /\ ~ closing
    THEN drain' = StartTick(TRUE) /\ wakeQueued' = FALSE
    ELSE drain' = NoTick /\ wakeQueued' = (drain.second /\ wakeQueued)

(* readPendingShadowJob: the oldest pending job, none while one is claimed. *)
Oldest0 == CHOOSE j \in Having("pending") : \A i \in Having("pending") : j <= i
Queue0 == IF Claimed = {} THEN Having("pending") ELSE {}

(* The batch is spent: with work left, wake() is called from inside.        *)
BatchSpent ==
  /\ drain.at = "top"
  /\ drain.done = ShadowBatch
  /\ LET queued == wakeQueued \/ (~ closing /\ Queue0 # {})
     IN IF ~ drain.second /\ queued /\ ~ closing
          THEN drain' = StartTick(TRUE) /\ wakeQueued' = FALSE
          ELSE drain' = NoTick /\ wakeQueued' = (drain.second /\ queued)
  /\ UNCHANGED <<policyVars, storeVars, cut, wall, lateLease, holder, active, closing, faulted, allow>>

NothingToDo ==
  /\ drain.at = "top"
  /\ drain.done < ShadowBatch
  /\ closing \/ active \/ Queue0 = {}
  /\ TickOver
  /\ UNCHANGED <<policyVars, storeVars, cut, wall, lateLease, holder, active, closing, faulted, allow>>

(* The gate is taken: the job is left alone and the loop goes on.           *)
Deferred ==
  /\ drain.at = "top"
  /\ drain.done < ShadowBatch
  /\ ~ closing /\ ~ active
  /\ Queue0 # {}
  /\ holder # "free"
  /\ drain' = [drain EXCEPT !.done = @ + 1]
  /\ UNCHANGED <<policyVars, storeVars, wakeQueued, cut, wall, lateLease, holder, active, closing, faulted, allow>>

(* Admitted: the call's controller is made and recall is asked.             *)
TakeJob ==
  /\ drain.at = "top"
  /\ drain.done < ShadowBatch
  /\ ~ closing /\ ~ active
  /\ Queue0 # {}
  /\ holder = "free"
  /\ holder' = "shadow"
  /\ drain' = [drain EXCEPT !.at = "recall", !.job = Oldest0]
  /\ cut' = FALSE
  /\ wall' = FALSE
  /\ UNCHANGED <<policyVars, storeVars, wakeQueued, lateLease, active, closing, faulted, allow>>

(* driveOneJob returns: its lease on the gate is freed, which wakes, and    *)
(* the loop goes on.                                                        *)
JobReturns ==
  /\ holder' = "free"
  /\ wakeQueued' = (wakeQueued \/ ~ closing)
  /\ drain' = [drain EXCEPT !.at = "top", !.done = @ + 1, !.job = 0]
  /\ cut' = FALSE
  /\ wall' = FALSE
  /\ lateLease' = FALSE

(* driveOneJob throws: the gate is freed, the tick is over and starts no    *)
(* other.                                                                   *)
JobThrows ==
  /\ holder' = "free"
  /\ drain' = NoTick
  /\ wakeQueued' = (drain.second /\ (wakeQueued \/ ~ closing))
  /\ cut' = FALSE
  /\ wall' = FALSE
  /\ lateLease' = FALSE

This == jobs[drain.job]
SetStatus(status) == jobs' = [jobs EXCEPT ![drain.job].status = status]

(* A hold or a failure that the store refuses is let go of.                 *)
Settles(status) ==
  \/ /\ IF This.status \in {"pending", "claimed"} THEN SetStatus(status) ELSE UNCHANGED jobs
     /\ Free
  \/ Spend("faults") /\ UNCHANGED jobs

RecallAborted ==
  /\ drain.at = "recall"
  /\ cut
  /\ \/ This.status = "pending" /\ Settles("held")
     \/ This.status # "pending" /\ UNCHANGED <<jobs, faulted, allow>>
  /\ JobReturns
  /\ UNCHANGED <<policyVars, due, drifted, active, closing>>

(* claimShadowJob refuses: the job moved on, or the control is paused.      *)
ClaimRefused0 ==
  /\ drain.at = "recall"
  /\ ~ cut
  /\ This.status # "pending" \/ policy.paused
  /\ UNCHANGED <<jobs, faulted, allow>>
  /\ JobReturns
  /\ UNCHANGED <<policyVars, due, drifted, active, closing>>

(* Another lease is live, or the store is busy: the drain stops.            *)
ClaimBusy ==
  /\ drain.at = "recall"
  /\ ~ cut
  /\ This.status = "pending" /\ ~ policy.paused
  /\ UNCHANGED jobs
  /\ IF Claimed # {} THEN Free ELSE Spend("faults")
  /\ JobThrows
  /\ UNCHANGED <<policyVars, due, drifted, active, closing>>

(* claimShadowJob: the context is frozen; a scope or a prompt that is too   *)
(* large is held before any call.                                           *)
Claim0 ==
  /\ drain.at = "recall"
  /\ ~ cut
  /\ This.status = "pending" /\ ~ policy.paused
  /\ Claimed = {}
  /\ \/ /\ jobs' = [jobs EXCEPT ![drain.job] =
                      [@ EXCEPT !.status = "claimed", !.control = policy.version,
                                !.epoch = epoch[This.scope], !.applies = applies[This.scope]]]
        /\ drain' = [drain EXCEPT !.at = "chat"]
        /\ UNCHANGED <<wakeQueued, cut, wall, lateLease, holder>>
     \/ SetStatus("held") /\ JobReturns
  /\ UNCHANGED <<policyVars, due, drifted, active, closing, faulted, allow>>

(* Mutant: nothing limits the model call.                                   *)
WallNever == FALSE /\ UNCHANGED shadowVars

(* The wall's timer aborts the call.                                        *)
WallFires ==
  /\ drain.at = "chat"
  /\ ~ wall
  /\ wall' = TRUE
  /\ cut' = TRUE
  /\ UNCHANGED <<policyVars, storeVars, drain, wakeQueued, lateLease, holder, active, closing, faulted, allow>>

LeaseRunsOut ==
  /\ drain.at = "chat"
  /\ ~ lateLease
  /\ lateLease' = TRUE
  /\ drifted' = drifted \union {drain.job}
  /\ UNCHANGED <<policyVars, jobs, due, drain, wakeQueued, cut, wall, holder, active, closing, faulted, allow>>

(* An aborted call, or a result that ignored the abort: a timeout fails the *)
(* job, a foreground or a pause holds it.                                   *)
ChatAborted ==
  /\ drain.at = "chat"
  /\ cut
  /\ Settles(IF wall /\ ~ policy.paused THEN "failed" ELSE "held")
  /\ JobReturns
  /\ UNCHANGED <<policyVars, due, drifted, active, closing>>

(* A transport failure, no call or not the one, or output that is refused.  *)
ChatUnusable ==
  /\ drain.at = "chat"
  /\ ~ cut
  /\ Settles("failed")
  /\ JobReturns
  /\ UNCHANGED <<policyVars, due, drifted, active, closing>>

(* Mutant: only the control and the targets' windows are compared.          *)
FencedLoosely(j) ==
  \/ policy.paused
  \/ policy.version # jobs[j].control
  \/ lateLease
  \/ applies[jobs[j].scope] # jobs[j].applies

(* The fences of a completion.                                              *)
Fenced(j) ==
  \/ policy.paused
  \/ policy.version # jobs[j].control
  \/ epoch[jobs[j].scope] # jobs[j].epoch
  \/ lateLease
  \/ applies[jobs[j].scope] # jobs[j].applies

(* completeShadowJob.  A store that fails it ends the tick.                 *)
ChatDecides ==
  /\ drain.at = "chat"
  /\ ~ cut
  /\ \/ /\ IF This.status # "claimed" THEN UNCHANGED jobs
           ELSE SetStatus(IF Fenced(drain.job) THEN "held" ELSE "completed")
        /\ Free
        /\ JobReturns
     \/ Spend("faults") /\ UNCHANGED jobs /\ JobThrows
  /\ UNCHANGED <<policyVars, due, drifted, active, closing>>

-----------------------------------------------------------------------------
(* stop(): the gate is closed, the own call aborted; the server then waits  *)
(* for the tick and ends.                                                   *)
ServiceStops ==
  /\ ~ closing
  /\ allow["lives"] > 0
  /\ closing' = TRUE
  /\ Preempted
  /\ UNCHANGED <<policyVars, storeVars, drain, wakeQueued, wall, lateLease, holder, active, faulted, allow>>

(* The process ends, in order or not, and starts again: the restart fence   *)
(* pauses the control and holds every live job.                             *)
ServiceRestarts ==
  /\ Spend("lives")
  /\ policy' = IF policy.paused THEN policy
               ELSE [paused |-> TRUE, version |-> policy.version + 1]
  /\ HoldAll({"pending", "claimed"})
  /\ drain' = NoTick
  /\ wakeQueued' = FALSE
  /\ cut' = FALSE
  /\ wall' = FALSE
  /\ lateLease' = FALSE
  /\ active' = FALSE
  /\ closing' = FALSE
  /\ holder' = "free"
  /\ UNCHANGED <<epoch, applies, due, drifted>>

Restarts == closing /\ drain.at = "off" /\ ServiceRestarts

UserStep ==
  \/ \E s \in Scopes : ScopePolicyChanges(s) \/ RequestDeliberation(s) \/ WindowCrosses(s)
  \/ \E j \in DOMAIN jobs : CancelJob(j)
  \/ \E paused \in BOOLEAN : SetControlTo(paused)
  \/ RunPosted
  \/ RunEndsUnannounced
  \/ OtherTakesGate

WorkerStep ==
  \/ BatchSpent
  \/ NothingToDo
  \/ Deferred
  \/ TakeJob
  \/ RecallAborted
  \/ ClaimRefused0
  \/ Claim0
  \/ ChatAborted

ShadowNext ==
  \/ UserStep
  \/ RunSettled
  \/ OtherFreesGate
  \/ WorkerStep
  \/ WallFires
  \/ ClaimBusy
  \/ LeaseRunsOut
  \/ ChatUnusable
  \/ ChatDecides
  \/ ServiceStops
  \/ ServiceRestarts

ShadowSpec == ShadowInit /\ [][ShadowNext]_shadowVars

(* Recall is bounded and an aborted call returns; the model need not        *)
(* answer.  Runs settle, other units end, a stopping server restarts.       *)
ShadowFairness ==
  /\ WF_shadowVars(WorkerStep)
  /\ WF_shadowVars(WallFires)
  /\ WF_shadowVars(RunSettled)
  /\ WF_shadowVars(OtherFreesGate)
  /\ WF_shadowVars(Restarts)

-----------------------------------------------------------------------------
(* One job is claimed at a time, it is the worker's own unless a write of   *)
(* the worker failed, and none waits while the control is paused.           *)
OneLease ==
  /\ Cardinality(Claimed) <= 1
  /\ ~ faulted => Claimed = IF drain.at = "chat" THEN {drain.job} ELSE {}
  /\ policy.paused => Having("pending") = {}

(* A decision stands only on ground that has not moved since the claim:     *)
(* no change in the scope, no pause or resume, no window crossed, no lease  *)
(* run out.                                                                 *)
DecisionIsFresh == \A j \in drifted : jobs[j].status # "completed"

(* No change made while unpaused is lost: the job that answers for it was   *)
(* claimed after it, or waits, or ended without a decision.                 *)
ChangeIsAnswered ==
  \A s \in Scopes :
    due[s].job # 0 /\ jobs[due[s].job].status \in {"claimed", "completed"} =>
      jobs[due[s].job].epoch >= due[s].epoch

ShadowSafe == OneLease /\ DecisionIsFresh /\ ChangeIsAnswered

(* A job is claimed and no write of the worker failed: this must end.       *)
ClaimOpen == Claimed # {} /\ ~ faulted

(* The store of jobs for a worker that is scheduled fairly.                 *)
ShadowFairSpec == ShadowSpec /\ ShadowFairness

(* "a single wake still drains the whole backlog" (shadow_service.ts): a    *)
(* job does not wait for ever.                                              *)
BacklogDrains ==
  \A j \in 1 .. MaxJobs :
    (j \in Having("pending")) ~> (j \notin Having("pending") \/ faulted)
=============================================================================
