--------------------------- MODULE TrialAuthority ---------------------------
(***************************************************************************)
(* Delegated trials on one workspace alias: the authority rows the kernel  *)
(* keeps (proposal, grant, worker boot, launch permit, outcome, alias      *)
(* fence) and the runner that claims a queued grant, spawns the bridge,    *)
(* opens its model relay and records what it did.                          *)
(*                                                                         *)
(* One action per kernel transaction or per stretch of runner code between *)
(* two awaits.  The bridge process, its systemd scope, the owner and the   *)
(* clock move on their own.  Executions are numbered in the order of their *)
(* creation, which is the order in which the runner pages its queue.       *)
(***************************************************************************)
EXTENDS Integers, FiniteSets

CONSTANTS
    TrialExecs,      \* executions: naturals, the older the smaller
    PolicyExecs,     \* those derived from a standing auto-dispatch policy
    TrialLoads       \* what the environment may do: see Quotas

\* Bounds on the executions that are proposed, the pause and resume commands,
\* the owner's edits (and lapses and policy changes), the messages that preempt
\* the runner, the ends of the server process, and the calls of the runner that
\* fail in a try/catch that swallows the error.
Quotas == [execs : SUBSET TrialExecs, controls : Nat, edits : Nat,
           posts : Nat, ends : Nat, faults : Nat]

ASSUME TrialAssumption ==
    /\ TrialExecs \subseteq Nat \ {0} /\ IsFiniteSet(TrialExecs)
    /\ PolicyExecs \subseteq TrialExecs
    /\ TrialLoads \subseteq Quotas

NoExec == 0

VARIABLES
    trial,    \* the rows of each execution
    owner,    \* what the owner's purposes, tasks and policies say of it
    control,  \* the autonomy_control row
    fences,   \* executions with an uncleared fence row on the alias
    runner,   \* locals of TrialRunner
    relay,    \* the model relay of the current execution
    busy,     \* engine.inflightCount() > 0
    host,     \* the server process
    work,     \* the bridge process and its systemd scope
    halted,   \* history: executions a stop reached while queued or claimed
    slipped,  \* history: executions let go without a row that says so
    quota     \* what is left of the bounds

histories == <<halted, slipped>>
trialVars == <<trial, owner, control, fences, runner, relay, busy, host, work,
               histories, quota>>
kernelVars == <<trial, owner, control, fences, histories>>
runnerVars == <<runner, relay>>
siteVars == <<busy, host, work>>
worldVars == <<siteVars, quota>>

Rows == [prop : {"none", "staged", "granted", "expired"},
         grant : {"none", "queued", "claimed", "revoked", "consumed", "interrupted"},
         cancel : BOOLEAN, gen : Nat, boot : BOOLEAN, permit : BOOLEAN,
         outcome : {"none", "done", "observed", "quiescent"}]

Places == {"down", "recover", "idle", "resolve", "starting", "identity",
           "waiting", "permit", "running", "settling", "reap", "leave"}

TrialTypeOK ==
    /\ trial \in [TrialExecs -> Rows]
    /\ owner \in [TrialExecs -> [ok : BOOLEAN, drift : BOOLEAN,
                                 lapsed : BOOLEAN, fresh : BOOLEAN]]
    /\ control \in [paused : BOOLEAN, version : Nat]
    /\ fences \subseteq TrialExecs
    /\ runner \in [pc : Places, exec : TrialExecs \union {NoExec},
                   page : SUBSET TrialExecs, latch : BOOLEAN]
    /\ relay \in {"none", "open", "permitted", "revoked"}
    /\ busy \in BOOLEAN
    /\ host \in {"up", "draining", "down"}
    /\ work \in [TrialExecs -> [proc : {"none", "live", "clean", "failed"},
                                scope : {"none", "active", "gone"}]]
    /\ halted \subseteq TrialExecs /\ slipped \subseteq TrialExecs
    /\ quota \in Quotas

NewRow == [prop |-> "none", grant |-> "none", cancel |-> FALSE, gen |-> 0,
           boot |-> FALSE, permit |-> FALSE, outcome |-> "none"]

Idle == [pc |-> "idle", exec |-> NoExec, page |-> {}, latch |-> FALSE]

TrialInit ==
    /\ trial = [e \in TrialExecs |-> NewRow]
    /\ owner = [e \in TrialExecs |-> [ok |-> TRUE, drift |-> FALSE,
                                      lapsed |-> FALSE, fresh |-> TRUE]]
    /\ control = [paused |-> FALSE, version |-> 1]
    /\ fences = {} /\ runner = Idle /\ relay = "none" /\ busy = FALSE
    /\ host = "up" /\ halted = {} /\ slipped = {}
    /\ work = [e \in TrialExecs |-> [proc |-> "none", scope |-> "none"]]
    /\ quota \in TrialLoads

----------------------------------------------------------------------------
(* The kernel's guards. *)

\* checkTrialAuthority: the task and its goal are live, no conflict or
\* constraint holds them; drift is a version the proposal was not staged with.
Authorised(e) == owner[e].ok
Undrifted(e) == ~owner[e].drift

\* policyGrantFreshness: nothing to say of a grant a human approved.
Fresh(e) == e \in PolicyExecs => owner[e].fresh /\ trial[e].gen = control.version

Live(row) == row.grant \in {"queued", "claimed"}

\* What an invalidation of the scope, of the policy or of the alias does.
Invalidate(row) == [row EXCEPT !.grant = IF @ = "queued" THEN "revoked" ELSE @,
                               !.cancel = @ \/ row.grant = "claimed"]

\* Known quiescence: an outcome at most once, and a claim ends interrupted.
Quiesce(row) == [row EXCEPT !.outcome = IF @ = "none" THEN "quiescent" ELSE @,
                            !.grant = IF @ = "claimed" THEN "interrupted" ELSE @]

Expire(row) == [row EXCEPT !.prop = IF @ = "staged" THEN "expired" ELSE @,
                           !.grant = IF @ = "queued" THEN "revoked" ELSE @]

----------------------------------------------------------------------------
(* Owner and host commands on the authority rows. *)

Listening == host = "up" /\ runner.pc # "recover"

StageTrial(e) ==
    /\ Listening /\ e \in quota.execs \ PolicyExecs
    /\ trial[e].prop = "none" /\ ~owner[e].lapsed
    /\ fences = {} /\ Authorised(e)
    /\ trial' = [trial EXCEPT ![e].prop = "staged"]
    /\ owner' = [owner EXCEPT ![e].drift = FALSE]
    /\ UNCHANGED <<control, fences, histories, runnerVars, worldVars>>

\* One grant per proposal; an expiry found here is committed, then reported.
ApproveTrial(e) ==
    /\ Listening /\ trial[e].prop = "staged" /\ trial[e].grant = "none"
    /\ \/ owner[e].lapsed /\ trial' = [trial EXCEPT ![e].prop = "expired"]
       \/ /\ ~owner[e].lapsed /\ fences = {} /\ ~control.paused
          /\ Authorised(e) /\ Undrifted(e)
          /\ trial' = [trial EXCEPT ![e].prop = "granted", ![e].grant = "queued",
                                    ![e].gen = control.version]
    /\ UNCHANGED <<owner, control, fences, histories, runnerVars, worldVars>>

\* derivePolicyTrialGrant: proposal and queued grant in one transaction.
DeriveGrant(e) ==
    /\ Listening /\ e \in quota.execs \intersect PolicyExecs
    /\ trial[e].prop = "none" /\ ~owner[e].lapsed
    /\ fences = {} /\ ~control.paused /\ Authorised(e)
    /\ trial' = [trial EXCEPT ![e].prop = "granted", ![e].grant = "queued",
                              ![e].gen = control.version]
    /\ owner' = [owner EXCEPT ![e].drift = FALSE]
    /\ UNCHANGED <<control, fences, histories, runnerVars, worldVars>>

ExpireTrial(e) ==
    /\ Listening /\ quota.edits > 0
    /\ trial[e].prop = "staged" \/ trial[e].grant = "queued"
    /\ trial' = [trial EXCEPT ![e] = Expire(@)]
    /\ quota' = [quota EXCEPT !.edits = @ - 1]
    /\ UNCHANGED <<owner, control, fences, histories, runnerVars, siteVars>>

\* A purpose or task of the scope changes; the same transaction invalidates.
EditScope(e) ==
    /\ Listening /\ quota.edits > 0
    /\ \E ok \in BOOLEAN : owner' = [owner EXCEPT ![e].ok = ok, ![e].drift = TRUE]
    /\ trial' = [trial EXCEPT ![e] = Invalidate(@)]
    /\ halted' = halted \union {x \in {e} : Live(trial[x])}
    /\ quota' = [quota EXCEPT !.edits = @ - 1]
    /\ UNCHANGED <<control, fences, slipped, runnerVars, siteVars>>

\* The proposal's expiry or the goal's window passes: no row moves.
Lapse(e) ==
    /\ quota.edits > 0 /\ ~owner[e].lapsed
    /\ owner' = [owner EXCEPT ![e].lapsed = TRUE]
    /\ quota' = [quota EXCEPT !.edits = @ - 1]
    /\ UNCHANGED <<trial, control, fences, histories, runnerVars, siteVars>>

\* The policy is revoked (its grants are invalidated), or a newer user turn
\* makes its source stale (nothing is written).
PolicyChanges(e) ==
    /\ Listening /\ quota.edits > 0 /\ e \in PolicyExecs /\ owner[e].fresh
    /\ owner' = [owner EXCEPT ![e].fresh = FALSE]
    /\ \/ /\ trial' = [trial EXCEPT ![e] = Invalidate(@)]
          /\ halted' = halted \union {x \in {e} : Live(trial[x])}
       \/ UNCHANGED <<trial, halted>>
    /\ quota' = [quota EXCEPT !.edits = @ - 1]
    /\ UNCHANGED <<control, fences, slipped, runnerVars, siteVars>>

\* setAutonomyControl: every accepted write moves the version, one that repeats
\* the value too; a pause revokes every claimed grant in the same transaction,
\* queued grants survive it.
SetControl ==
    /\ Listening /\ quota.controls > 0
    /\ \E pause \in BOOLEAN :
         /\ control' = [paused |-> pause, version |-> control.version + 1]
         /\ trial' = [e \in TrialExecs |->
                        IF pause /\ trial[e].grant = "claimed"
                        THEN [trial[e] EXCEPT !.grant = "revoked", !.cancel = TRUE]
                        ELSE trial[e]]
         /\ halted' = halted \union
                        {e \in TrialExecs : pause /\ trial[e].grant = "claimed"}
    /\ quota' = [quota EXCEPT !.controls = @ - 1]
    /\ UNCHANGED <<owner, fences, slipped, runnerVars, siteVars>>

OwnerStep ==
    \/ SetControl
    \/ \E e \in TrialExecs :
         StageTrial(e) \/ ApproveTrial(e) \/ DeriveGrant(e) \/ ExpireTrial(e)
           \/ EditScope(e) \/ Lapse(e) \/ PolicyChanges(e)

----------------------------------------------------------------------------
(* Foreground work and the server's life. *)

\* revokeForForeground: the latch always, the relay if there is one.
Preempt ==
    /\ runner' = [runner EXCEPT !.latch = TRUE]
    /\ relay' = IF relay = "none" THEN relay ELSE "revoked"

\* A message is posted: the hook preempts before the insert.
PostMessage ==
    /\ Listening /\ quota.posts > 0 /\ Preempt
    /\ quota' = [quota EXCEPT !.posts = @ - 1]
    /\ UNCHANGED <<kernelVars, siteVars>>

\* The engine picks a Run up (a queued or a retried one), and ends it.
ForegroundMoves ==
    /\ Listening
    /\ \/ busy /\ UNCHANGED quota
       \/ /\ ~busy /\ quota.posts > 0
          /\ quota' = [quota EXCEPT !.posts = @ - 1]
    /\ busy' = ~busy
    /\ UNCHANGED <<kernelVars, runnerVars, host, work>>

Shutdown ==
    /\ Listening /\ quota.ends > 0 /\ host' = "draining" /\ Preempt
    /\ UNCHANGED <<kernelVars, busy, work, quota>>

\* The process ends, after its bounded shutdown or by a crash at any point.
ProcessEnds ==
    /\ host # "down" /\ quota.ends > 0
    /\ quota' = [quota EXCEPT !.ends = @ - 1]
    /\ host' = "down" /\ busy' = FALSE /\ relay' = "none"
    /\ runner' = [Idle EXCEPT !.pc = "down"]
    /\ UNCHANGED <<kernelVars, work>>

\* A call that throws inside a try/catch that swallows it.
Swallowed == quota.faults > 0 /\ quota' = [quota EXCEPT !.faults = @ - 1]

\* applyAutonomyRestartFence, then the list recoverOnBoot works through: the
\* started workers whose grant is still claimed.  A permitted launch that a
\* pause revoked before the process ended is not on it; a scan that fails
\* leaves it empty.
RestartServer ==
    LET started == {e \in TrialExecs : trial[e].grant = "claimed" /\ trial[e].boot}
        revoked == {e \in TrialExecs : trial[e].grant = "revoked" /\ trial[e].permit}
    IN
    /\ host = "down" /\ host' = "up"
    /\ control' = IF control.paused THEN control
                  ELSE [paused |-> TRUE, version |-> control.version + 1]
    /\ trial' = [e \in TrialExecs |->
                   IF trial[e].grant = "claimed" /\ ~trial[e].boot
                   THEN [trial[e] EXCEPT !.grant = "revoked", !.cancel = TRUE]
                   ELSE trial[e]]
    /\ halted' = halted \union {e \in TrialExecs : trial[e].grant = "claimed"}
    /\ \/ /\ runner' = [Idle EXCEPT !.pc = "recover", !.page = started]
          /\ slipped' = slipped \union (revoked \ fences) /\ UNCHANGED quota
       \/ /\ Swallowed /\ runner' = [Idle EXCEPT !.pc = "recover"]
          /\ slipped' = slipped \union ((revoked \union started) \ fences)
    /\ UNCHANGED <<owner, fences, relay, busy, work>>

\* fenceUnknownExecution: the alias is closed, its queue revoked, its claims
\* asked to cancel.
FenceAlias(e) ==
    /\ fences' = fences \union {e}
    /\ trial' = [x \in TrialExecs |-> Invalidate(trial[x])]
    /\ halted' = halted \union {x \in TrialExecs : Live(trial[x])}

\* The record or the fence fails and the failure is swallowed: no row moves.
Slips(e) ==
    /\ Swallowed /\ slipped' = slipped \union ({e} \ fences)
    /\ UNCHANGED <<trial, fences, halted>>

\* Mutant: a worker that cannot be observed counts as gone.
RecoverTrusting(e) ==
    /\ runner.pc = "recover" /\ e \in runner.page
    /\ trial' = [trial EXCEPT ![e] = Quiesce(@)] /\ UNCHANGED <<fences, histories>>
    /\ runner' = [runner EXCEPT !.page = @ \ {e}]
    /\ UNCHANGED <<owner, control, relay, worldVars>>

RecoverWorker(e) ==
    /\ runner.pc = "recover" /\ e \in runner.page
    /\ \/ /\ work[e].scope = "gone" /\ work[e].proc # "live"
          /\ trial' = [trial EXCEPT ![e] = Quiesce(@)]
          /\ UNCHANGED <<fences, histories, quota>>
       \/ FenceAlias(e) /\ UNCHANGED <<slipped, quota>>
       \/ Slips(e)
    /\ runner' = [runner EXCEPT !.page = @ \ {e}]
    /\ UNCHANGED <<owner, control, relay, siteVars>>

Recovered ==
    /\ runner.pc = "recover" /\ runner.page = {}
    /\ runner' = [runner EXCEPT !.pc = "idle"]
    /\ UNCHANGED <<kernelVars, relay, worldVars>>

LifeStep ==
    \/ PostMessage \/ ForegroundMoves \/ Shutdown \/ ProcessEnds \/ RestartServer
    \/ Recovered \/ \E e \in TrialExecs : RecoverWorker(e)

----------------------------------------------------------------------------
(* runNext: pick, resolve, claim. *)

Stopping == runner.latch \/ host = "draining"
StopRequested(e) == Stopping \/ control.paused \/ busy \/ trial[e].cancel

Oldest(S) == CHOOSE e \in S : \A x \in S : e <= x

PickNext ==
    LET queue == {e \in TrialExecs : trial[e].grant = "queued"} IN
    /\ host = "up" /\ runner.pc = "idle" /\ ~control.paused /\ ~busy
    /\ queue # {}
    /\ runner' = [pc |-> "resolve", exec |-> Oldest(queue),
                  page |-> queue \ {Oldest(queue)}, latch |-> FALSE]
    /\ UNCHANGED <<kernelVars, relay, worldVars>>

\* The scan goes on to the next row of its snapshot unless a gate closed.
NextCandidate ==
    runner' = IF runner.page = {} \/ Stopping \/ control.paused \/ busy
              THEN [runner EXCEPT !.pc = "idle", !.exec = NoExec, !.page = {}]
              ELSE [runner EXCEPT !.exec = Oldest(runner.page),
                                  !.page = @ \ {Oldest(runner.page)}]

BackToIdle == runner' = [runner EXCEPT !.pc = "idle", !.exec = NoExec, !.page = {}]

\* Blocked or unknown materialisation: skipped, never revoked.
ResolveBlocked ==
    /\ runner.pc = "resolve" /\ NextCandidate
    /\ UNCHANGED <<kernelVars, relay, worldVars>>

Claimable(e) ==
    /\ trial[e].grant = "queued" /\ ~trial[e].cancel /\ ~owner[e].lapsed
    /\ ~control.paused /\ Fresh(e) /\ Authorised(e) /\ Undrifted(e) /\ fences = {}

\* The abort of a claim before its launch is permitted: known quiescence, or a
\* write that fails and is swallowed, after which the row stays as it is.
AbortClaim(e, row) ==
    \/ trial' = [trial EXCEPT ![e] = Quiesce(row)] /\ UNCHANGED quota
    \/ Swallowed /\ trial' = [trial EXCEPT ![e] = row]

\* claimTrialGrant succeeds; up to relay.start() the runner does not yield, so
\* a stop already latched settles the claim at once.  A directory or a relay
\* that cannot be made throws past the abort: the grant stays claimed.
ClaimGrant ==
    LET e == runner.exec
        claimed == [trial[e] EXCEPT !.grant = "claimed", !.gen = control.version]
    IN  /\ runner.pc = "resolve" /\ Claimable(e)
        /\ \/ /\ ~StopRequested(e)
              /\ trial' = [trial EXCEPT ![e] = claimed]
              /\ runner' = [runner EXCEPT !.pc = "starting", !.page = {}]
              /\ relay' = "open" /\ UNCHANGED quota
           \/ \* a stop, or the approved operator config no longer parses
              AbortClaim(e, claimed) /\ BackToIdle /\ UNCHANGED relay
        /\ UNCHANGED <<owner, control, fences, histories, siteVars>>

\* claimTrialGrant throws.  A pause or a fence ends the pick; anything else
\* (revoked meanwhile, lapsed, stale, drifted, window too short) retires the
\* row and the scan goes on.
ClaimRefused ==
    LET e == runner.exec IN
    /\ runner.pc = "resolve"
    /\ \/ /\ trial[e].grant = "queued" /\ ~owner[e].lapsed
          /\ control.paused \/ fences # {}
          /\ BackToIdle /\ UNCHANGED trial
       \/ /\ ~control.paused \/ owner[e].lapsed \/ trial[e].grant # "queued"
          /\ trial' = [trial EXCEPT ![e] = Expire(@)] /\ NextCandidate
    /\ UNCHANGED <<owner, control, fences, histories, relay, worldVars>>

----------------------------------------------------------------------------
(* executeClaimed: from the relay to the recorded result. *)

Move(place) == runner' = [runner EXCEPT !.pc = place]

\* The relay is up and the config written: gate 2, then the bridge is spawned;
\* any failure on the way is a known quiescence.
SpawnBridge ==
    LET e == runner.exec IN
    /\ runner.pc = "starting"
    /\ \/ /\ ~StopRequested(e)
          /\ work' = [work EXCEPT ![e].proc = "live"]
          /\ Move("identity") /\ UNCHANGED <<trial, relay, quota>>
       \/ /\ AbortClaim(e, trial[e])
          /\ BackToIdle /\ relay' = "none" /\ UNCHANGED work
    /\ UNCHANGED <<owner, control, fences, histories, busy, host>>

\* failLaunch and every refusal: relay revoked, fd3 closed, wait for the exit.
GiveUp == relay' = "revoked" /\ Move("reap")

\* Birth identity, then registerWorkerBoot (claimed and not cancelled).
RegisterBoot ==
    LET e == runner.exec IN
    /\ runner.pc = "identity"
    /\ \/ /\ work[e].proc = "live"
          /\ trial[e].grant = "claimed" /\ ~trial[e].cancel
          /\ trial' = [trial EXCEPT ![e].boot = TRUE]
          /\ Move("waiting") /\ UNCHANGED relay
       \/ GiveUp /\ UNCHANGED trial
    /\ UNCHANGED <<owner, control, fences, histories, worldVars>>

\* The scope is polled until it is active; a stop, the deadline or an exited
\* bridge ends the launch.
AwaitScope ==
    LET e == runner.exec IN
    /\ runner.pc = "waiting"
    /\ \/ /\ ~StopRequested(e) /\ work[e].scope = "active"
          /\ Move("permit") /\ UNCHANGED relay
       \/ GiveUp
    /\ UNCHANGED <<kernelVars, worldVars>>

Permittable(e) ==
    /\ ~trial[e].permit /\ trial[e].boot
    /\ trial[e].grant = "claimed" /\ ~trial[e].cancel
    /\ fences = {} /\ ~control.paused /\ ~busy /\ Fresh(e)
    /\ ~owner[e].lapsed /\ Authorised(e) /\ Undrifted(e)

\* Gate 3, issueLaunchPermit and setPermitted(true) in one stretch; after a
\* relay that refuses the runner waits for the exit and records nothing.
IssuePermit ==
    LET e == runner.exec IN
    /\ runner.pc = "permit"
    /\ \/ /\ work[e].proc = "live" /\ ~StopRequested(e) /\ Permittable(e)
          /\ trial' = [trial EXCEPT ![e].permit = TRUE]
          /\ \/ relay' = "permitted" /\ Move("running")
             \/ relay' = "revoked" /\ Move("leave")
       \/ GiveUp /\ UNCHANGED trial
    /\ UNCHANGED <<owner, control, fences, histories, worldVars>>

\* Mutant: the poll watches the pause only.
PollPauseOnly ==
    /\ runner.pc = "running" /\ relay = "permitted" /\ control.paused
    /\ relay' = "revoked" /\ runner' = [runner EXCEPT !.latch = TRUE]
    /\ UNCHANGED <<kernelVars, worldVars>>

PollStops ==
    /\ runner.pc = "running" /\ relay = "permitted"
    /\ control.paused \/ busy \/ trial[runner.exec].cancel
    /\ relay' = "revoked" /\ runner' = [runner EXCEPT !.latch = TRUE]
    /\ UNCHANGED <<kernelVars, worldVars>>

SeeExit ==
    /\ runner.pc = "running" /\ work[runner.exec].proc # "live"
    /\ Move("settling") /\ UNCHANGED <<kernelVars, relay, worldVars>>

\* Mutant: the result is judged by what the bridge says alone.
JudgeTrusting(e) ==
    IF work[e].proc = "clean" THEN "done" ELSE "observed"

\* The verdict of recordWorkerResult on a grant that is still claimed.
Judge(e) ==
    IF /\ work[e].proc = "clean" /\ ~trial[e].cancel /\ ~control.paused
       /\ Fresh(e) /\ Authorised(e) /\ ~owner[e].lapsed
    THEN "done" ELSE "observed"

\* recordWorkerResult: an outcome once; a late result of a grant that is no
\* longer claimed is observed and moves nothing else.
Record(e) ==
    LET verdict == IF trial[e].grant = "claimed" THEN Judge(e) ELSE "observed" IN
    IF trial[e].outcome # "none" THEN trial[e]
    ELSE [trial[e] EXCEPT
            !.outcome = verdict,
            !.grant = IF @ # "claimed" THEN @
                      ELSE IF verdict = "done" THEN "consumed" ELSE "interrupted"]

\* Mutant: a scope that outlives its deadline is recorded as quiescent.
SettleTrusting ==
    LET e == runner.exec IN
    /\ runner.pc = "settling"
    /\ trial' = [trial EXCEPT ![e] = IF work[e].scope = "gone" THEN Record(e) ELSE Quiesce(@)]
    /\ relay' = "none" /\ BackToIdle
    /\ UNCHANGED <<owner, control, fences, histories, worldVars>>

\* The scope is gone: the result is recorded; still there or unknown at the
\* deadline: the alias is fenced.  Either write may fail unnoticed.
Settle ==
    LET e == runner.exec IN
    /\ runner.pc = "settling"
    /\ \/ /\ work[e].scope = "gone"
          /\ trial' = [trial EXCEPT ![e] = Record(e)]
          /\ UNCHANGED <<fences, histories, quota>>
       \/ FenceAlias(e) /\ UNCHANGED <<slipped, quota>>
       \/ Slips(e)
    /\ relay' = "none" /\ BackToIdle
    /\ UNCHANGED <<owner, control, siteVars>>

\* The exit of a bridge that was never permitted.
Reap ==
    LET e == runner.exec IN
    /\ runner.pc = "reap" /\ work[e].proc # "live"
    /\ AbortClaim(e, trial[e])
    /\ relay' = "none" /\ BackToIdle
    /\ UNCHANGED <<owner, control, fences, histories, siteVars>>

\* The exit of a bridge whose relay refused after the permit: the grant stays
\* claimed and the alias open.
LeaveUnrecorded ==
    /\ runner.pc = "leave" /\ work[runner.exec].proc # "live"
    /\ slipped' = slipped \union {runner.exec}
    /\ relay' = "none" /\ BackToIdle
    /\ UNCHANGED <<trial, owner, control, fences, halted, worldVars>>

RunnerStep ==
    \/ PickNext \/ ResolveBlocked \/ ClaimGrant \/ ClaimRefused
    \/ SpawnBridge \/ RegisterBoot \/ AwaitScope \/ IssuePermit
    \/ PollStops \/ SeeExit \/ Settle \/ Reap \/ LeaveUnrecorded

----------------------------------------------------------------------------
(* The bridge (external): it starts its scope when it has the request, works *)
(* only over a permitted relay, and may leave descendants in the scope.      *)

BridgeMoves(e) ==
    /\ \/ /\ work[e].proc = "live" /\ work[e].scope = "none"
          /\ trial[e].boot
          /\ work' = [work EXCEPT ![e].scope = "active"]
       \/ /\ work[e].proc = "live"
          /\ \E end \in {"failed"} \union (IF trial[e].permit THEN {"clean"} ELSE {}) :
               work' = [work EXCEPT ![e].proc = end]
       \/ /\ work[e].scope = "active"
          /\ work' = [work EXCEPT ![e].scope = "gone"]
    /\ UNCHANGED <<kernelVars, runnerVars, busy, host, quota>>

TrialNext ==
    OwnerStep \/ LifeStep \/ RunnerStep \/ \E e \in TrialExecs : BridgeMoves(e)

TrialSpec == TrialInit /\ [][TrialNext]_trialVars

\* The poll timer fires and the settle loop has a deadline.
TrialFairness ==
    /\ WF_trialVars(PollStops)
    /\ WF_trialVars(SeeExit)
    /\ WF_trialVars(Settle)

----------------------------------------------------------------------------
(* Properties. *)

\* The rows of an execution tell one story: a permit follows a boot and a boot
\* a claim, an outcome ends the claim, and "done" is recorded exactly for the
\* consumed grant, whose launch was permitted and never asked to cancel.
RowsAgree ==
    \A e \in TrialExecs :
      LET r == trial[e] IN
      /\ r.grant # "none" => r.prop = "granted"
      /\ r.permit => r.boot
      /\ r.boot => r.grant \notin {"none", "queued"}
      /\ r.outcome # "none" => r.grant \in {"consumed", "interrupted", "revoked"}
      /\ r.grant = "interrupted" => r.outcome \in {"observed", "quiescent"}
      /\ (r.outcome = "done") <=> (r.grant = "consumed")
      /\ r.grant = "consumed" => r.permit /\ ~r.cancel

\* A stop (a pause, an edit of the scope, a withdrawn policy, a fence, a
\* restart) that reached a grant while it was queued or claimed is final: the
\* work is never recorded as authorised, however late its result arrives.
StopIsFinal == \A e \in halted : trial[e].outcome # "done"

\* Work that was let loose is not forgotten: an execution whose launch was
\* permitted and whose scope is alive is the runner's or on its recovery list,
\* or has its own fence on the alias, and the runner works beside it on no other
\* one.  Exactly three cases slip through: the relay refused after the permit,
\* the failure of the fence (or of recovery's work) was swallowed, or a pause
\* had revoked the grant when the process ended, so that recovery passes it by.
LooseWorkIsFenced ==
    \A e \in TrialExecs :
      /\ trial[e].permit /\ work[e].scope = "active" /\ e \notin slipped
      /\ host # "down" /\ runner.exec # e
      => IF runner.pc = "recover" THEN e \in runner.page \union fences
         ELSE e \in fences /\ runner.pc \in {"idle", "resolve"}

TrialSafe == RowsAgree /\ StopIsFinal /\ LooseWorkIsFenced

\* A relay that is permitted while a stop is wanted, and must close: the poll
\* of the run, or the end of the settle loop, gets to it.
RelayToClose == relay = "permitted" /\ (control.paused \/ trial[runner.exec].cancel)
=============================================================================
