---------------------------- MODULE AutoDispatch ----------------------------
(***************************************************************************)
(* Auto-dispatch: the ledger of packages/kernel/src/autodispatch.ts and its *)
(* one worker, apps/server/src/autodispatch_service.ts, for one session.    *)
(*                                                                          *)
(* A completed Run under a standing policy queues an intake with the turn,  *)
(* the policy and the control version it was captured under.  One drain     *)
(* takes intakes in order: fence, planner, fence, plan frozen, bytes        *)
(* prepared, fence, authorised.  Authorisation reserves a slot, derives a   *)
(* trial grant and links the two, in three transactions; the trial runner   *)
(* claims the grant later, behind fences of its own.                        *)
(***************************************************************************)
EXTENDS Naturals, Sequences, FiniteSets

CONSTANTS
  JobsPerDay,     \* caps.jobsPerDay
  Concurrent,     \* caps.concurrentExecutions
  MaxRetained,    \* AUTODISPATCH_MAX_RETAINED_JOBS
  MaxIntakes,     \* bound: Runs
  DispatchLoads   \* bound: how often, in one behaviour, each thing happens

(* User turns, retries, policies, revocations and expiries, control         *)
(* commands, plans posted by hand, other background units, days, weeks,     *)
(* restarts, failed writes.                                                 *)
DispatchEvents ==
  {"turns", "retries", "policies", "ends", "flips", "plans", "units", "days", "weeks",
   "lives", "faults"}

ASSUME DispatchAssumption ==
  /\ JobsPerDay \in Nat \ {0}
  /\ Concurrent \in Nat \ {0}
  /\ MaxRetained \in Nat \ {0}
  /\ MaxIntakes \in Nat
  /\ DispatchLoads \subseteq [DispatchEvents -> Nat]

VARIABLES
  chat,       \* the latest user turn: [turn, run, busy, sel]; sel is its selected completed Run
  brake,      \* autonomy_control: [paused, version]
  rules,      \* autodispatch_policies, oldest first; "lapsed" is past its expiry and unread
  plans,      \* autodispatch_plans, by revision
  execs,      \* autodispatch_executions with their trial grants
  jobRoots,     \* materialised job roots: the copy's execution, its retention record, age, admission
  waiting,    \* pendingIntakes
  intake,     \* the admitted intake: [at, cut, of, plan]; blind: its prune failed
  pump,       \* the drain: no task, top of its loop, in an intake, or returned
  wakeAgain,  \* wakeRequested
  slot,       \* holder of the background gate
  shut,       \* stop() was called
  era,        \* ghost: counts what a captured intent must not outlive
  spare       \* what may still happen

userVars == <<chat, brake>>
ledgerVars == <<rules, plans, execs>>
serviceVars == <<waiting, intake, pump, wakeAgain>>
dispatchVars == <<userVars, ledgerVars, serviceVars, jobRoots, slot, shut, era, spare>>

Uses(what) ==
  /\ spare[what] > 0
  /\ spare' = [spare EXCEPT ![what] = @ - 1]

Nobody == [run |-> 0, turn |-> 0, policy |-> 0, version |-> 0, era |-> 0]
NoIntake == [at |-> "off", cut |-> FALSE, of |-> Nobody, plan |-> 0, blind |-> FALSE]

Intakes == [run : Nat, turn : Nat, policy : Nat, version : Nat, era : Nat]

(* The values the variables take.                                           *)
DispatchTypeOK ==
  /\ chat \in [turn : Nat, run : Nat, busy : BOOLEAN, sel : Nat]
  /\ brake \in [paused : BOOLEAN, version : Nat]
  /\ rules \in Seq({"active", "lapsed", "expired", "revoked"})
  /\ plans \in Seq([policy : DOMAIN rules, turn : Nat, run : Nat,
                    status : {"frozen", "open", "superseded", "dispatched", "blocked"}])
  /\ execs \in Seq([plan : DOMAIN plans, policy : DOMAIN rules,
                    status : {"reserved", "authorized", "denied", "blocked", "superseded"},
                    linked : BOOLEAN, stop : BOOLEAN, gen : Nat, today : BOOLEAN,
                    grant : {"none", "queued", "claimed", "revoked", "stopped", "over"},
                    asked : Nat, given : Nat])
  /\ jobRoots \in Seq([exec : 0 .. Len(execs), is : {"prepared", "cleaned", "gone", "bare"},
                       old : BOOLEAN, blind : BOOLEAN])
  /\ waiting \in Seq(Intakes)
  /\ intake \in [at : {"off", "plan", "prepare"}, cut : BOOLEAN, of : Intakes,
                 plan : 0 .. Len(plans), blind : BOOLEAN]
  /\ pump \in {"off", "top", "in", "end"}
  /\ {wakeAgain, shut} \subseteq BOOLEAN
  /\ slot \in {"free", "mine", "other"}
  /\ era \in Nat
  /\ spare \in [DispatchEvents -> Nat]

(* A resumed server with one standing policy and nothing said.              *)
DispatchInit ==
  /\ chat = [turn |-> 0, run |-> 0, busy |-> FALSE, sel |-> 0]
  /\ brake = [paused |-> FALSE, version |-> 1]
  /\ rules = <<"active">>
  /\ plans = << >>
  /\ execs = << >>
  /\ jobRoots = << >>
  /\ waiting = << >>
  /\ intake = NoIntake
  /\ pump = "off"
  /\ wakeAgain = FALSE
  /\ slot = "free"
  /\ shut = FALSE
  /\ era = 0
  /\ spare \in DispatchLoads

-----------------------------------------------------------------------------
(* The ledger.                                                              *)

InForce == {p \in DOMAIN rules : rules[p] = "active"}
Newest(S) == IF S = {} THEN 0 ELSE CHOOSE i \in S : \A j \in S : j <= i
NoneLapsed == \A p \in DOMAIN rules : rules[p] # "lapsed"

(* Mutant: resumed counts as never paused.                                  *)
IntakeUnpaused(p) ==
  /\ ~ shut
  /\ ~ chat.busy
  /\ chat.turn = p.turn /\ chat.sel = p.run
  /\ Newest(InForce) = p.policy
  /\ ~ brake.paused

(* readCurrentIntake: what an intake captured, against what is in force.    *)
IntakeCurrent(p) ==
  /\ ~ shut
  /\ ~ chat.busy
  /\ chat.turn = p.turn /\ chat.sel = p.run
  /\ Newest(InForce) = p.policy
  /\ ~ brake.paused /\ brake.version = p.version

(* Mutant: a claimed grant is left to finish.                               *)
RetireQueued(ps) ==
  /\ plans' = [i \in DOMAIN plans |->
                 IF plans[i].policy \in ps /\ plans[i].status # "dispatched"
                   THEN [plans[i] EXCEPT !.status = "superseded"] ELSE plans[i]]
  /\ execs' = [e \in DOMAIN execs |->
                 IF execs[e].policy \in ps
                   THEN [execs[e] EXCEPT
                           !.status = IF @ = "reserved" THEN "superseded" ELSE @,
                           !.grant = IF @ = "queued" /\ execs[e].linked THEN "revoked" ELSE @]
                   ELSE execs[e]]

(* applyTerminalPolicyEffects: plans and reservations end, linked grants    *)
(* are revoked or asked to stop.                                            *)
Retire(ps) ==
  /\ plans' = [i \in DOMAIN plans |->
                 IF plans[i].policy \in ps /\ plans[i].status # "dispatched"
                   THEN [plans[i] EXCEPT !.status = "superseded"] ELSE plans[i]]
  /\ execs' = [e \in DOMAIN execs |->
                 IF execs[e].policy \in ps
                   THEN [execs[e] EXCEPT
                           !.status = IF @ = "reserved" THEN "superseded" ELSE @,
                           !.grant = IF @ = "queued" /\ execs[e].linked THEN "revoked" ELSE @,
                           !.stop = @ \/ (execs[e].grant = "claimed" /\ execs[e].linked)]
                   ELSE execs[e]]

(* A new plan supersedes every plan that was not dispatched.                *)
PlansWith(policy, status) ==
  Append([i \in DOMAIN plans |->
            IF plans[i].status = "dispatched" THEN plans[i]
            ELSE [plans[i] EXCEPT !.status = "superseded"]],
         [policy |-> policy, turn |-> chat.turn, run |-> chat.sel, status |-> status])

LatestPlan == Newest({i \in DOMAIN plans : plans[i].status # "superseded"})

Execution(i, status, grant, linked) ==
  [plan |-> i, policy |-> plans[i].policy, status |-> status, linked |-> linked,
   stop |-> FALSE, gen |-> brake.version, today |-> TRUE, grant |-> grant,
   asked |-> intake.of.era, given |-> era]

Spent(p) == {e \in DOMAIN execs : execs[e].policy = p /\ execs[e].status \in {"reserved", "authorized"}}
SpentToday(p) == {e \in Spent(p) : execs[e].today}
Running(p) ==
  {e \in Spent(p) : execs[e].status = "reserved" \/ execs[e].grant \in {"queued", "claimed"}}

(* What authorizeWithinPolicy accepts.                                      *)
Authorisable(i) ==
  /\ plans[i].status = "frozen"
  /\ LatestPlan = i
  /\ Cardinality(SpentToday(plans[i].policy)) < JobsPerDay
  /\ Cardinality(Running(plans[i].policy)) < Concurrent

-----------------------------------------------------------------------------
(* The drain's wakes.                                                       *)

(* Mutant: a wake during a drain is taken for granted.                      *)
RequestDrainLossy ==
  IF shut \/ pump # "off" \/ waiting' = << >>
    THEN UNCHANGED <<pump, wakeAgain>>
    ELSE pump' = "top" /\ UNCHANGED wakeAgain

RequestDrain ==
  IF shut THEN UNCHANGED <<pump, wakeAgain>>
  ELSE IF pump # "off" THEN wakeAgain' = TRUE /\ UNCHANGED pump
  ELSE IF waiting' = << >> THEN UNCHANGED <<pump, wakeAgain>>
  ELSE pump' = "top" /\ UNCHANGED wakeAgain

(* notifyForeground: queued intent is dropped, the own call aborted.        *)
DropIntent ==
  /\ waiting' = << >>
  /\ wakeAgain' = FALSE
  /\ intake' = [intake EXCEPT !.cut = @ \/ intake.at # "off"]

-----------------------------------------------------------------------------
(* The user's side.                                                         *)

PostIntent ==
  /\ ~ shut /\ ~ chat.busy /\ chat.run < MaxIntakes
  /\ Uses("turns")
  /\ chat' = [turn |-> chat.turn + 1, run |-> chat.run + 1, busy |-> TRUE, sel |-> 0]
  /\ era' = era + 1
  /\ DropIntent
  /\ UNCHANGED <<brake, ledgerVars, pump, jobRoots, slot, shut>>

PostRetryIntent ==
  /\ ~ shut /\ ~ chat.busy /\ chat.turn > 0 /\ chat.run < MaxIntakes
  /\ Uses("retries")
  /\ chat' = [chat EXCEPT !.run = @ + 1, !.busy = TRUE]
  /\ era' = era + 1
  /\ DropIntent
  /\ UNCHANGED <<brake, ledgerVars, pump, jobRoots, slot, shut>>

(* completeRun selects the Run; onRunCompleted captures the intent.         *)
TurnCompletes ==
  /\ chat.busy
  /\ NoneLapsed
  /\ chat' = [chat EXCEPT !.busy = FALSE, !.sel = chat.run]
  /\ IF shut \/ InForce = {}
       THEN UNCHANGED <<waiting, pump, wakeAgain>>
       ELSE /\ waiting' = Append(waiting, [run |-> chat.run, turn |-> chat.turn,
                                           policy |-> Newest(InForce),
                                           version |-> brake.version, era |-> era])
            /\ RequestDrain
  /\ UNCHANGED <<brake, ledgerVars, intake, jobRoots, slot, shut, era, spare>>

TurnFails ==
  /\ chat.busy
  /\ chat' = [chat EXCEPT !.busy = FALSE]
  /\ UNCHANGED <<brake, ledgerVars, serviceVars, jobRoots, slot, shut, era, spare>>

TurnCancelled ==
  /\ chat.busy
  /\ chat' = [chat EXCEPT !.busy = FALSE]
  /\ DropIntent
  /\ UNCHANGED <<brake, ledgerVars, pump, jobRoots, slot, shut, era, spare>>

(* setAutonomyControl: a pause revokes what is claimed; queued grants stay. *)
SetBrake(paused) ==
  /\ ~ shut
  /\ Uses("flips")
  /\ brake' = [paused |-> paused, version |-> brake.version + 1]
  /\ era' = era + 1
  /\ execs' = [e \in DOMAIN execs |->
                 IF paused /\ execs[e].grant = "claimed"
                   THEN [execs[e] EXCEPT !.grant = "stopped", !.stop = TRUE] ELSE execs[e]]
  /\ UNCHANGED <<chat, rules, plans, serviceVars, jobRoots, slot, shut>>

CreatePolicy ==
  /\ ~ shut
  /\ Uses("policies")
  /\ rules' = Append(rules, "active")
  /\ UNCHANGED <<userVars, plans, execs, serviceVars, jobRoots, slot, shut, era>>

RevokePolicy(p) ==
  /\ ~ shut
  /\ rules[p] \in {"active", "lapsed"}
  /\ Uses("ends")
  /\ rules' = [rules EXCEPT ![p] = "revoked"]
  /\ Retire({p})
  /\ UNCHANGED <<userVars, serviceVars, jobRoots, slot, shut, era>>

(* The stop command revokes every active policy and drops the intent.       *)
StopDispatch ==
  /\ ~ shut
  /\ NoneLapsed
  /\ Uses("ends")
  /\ rules' = [p \in DOMAIN rules |-> IF p \in InForce THEN "revoked" ELSE rules[p]]
  /\ Retire(InForce)
  /\ DropIntent
  /\ UNCHANGED <<userVars, pump, jobRoots, slot, shut, era>>

PolicyLapses(p) ==
  /\ rules[p] = "active"
  /\ Uses("ends")
  /\ rules' = [rules EXCEPT ![p] = "lapsed"]
  /\ UNCHANGED <<userVars, plans, execs, serviceVars, jobRoots, slot, shut, era>>

(* expireReadPolicy: the read that finds a policy lapsed expires it, in a   *)
(* transaction of its own; whatever reads policies does this first.         *)
ExpiryRead(p) ==
  /\ rules[p] = "lapsed"
  /\ rules' = [rules EXCEPT ![p] = "expired"]
  /\ Retire({p})
  /\ UNCHANGED <<userVars, serviceVars, jobRoots, slot, shut, era, spare>>

(* A plan posted over HTTP for the latest completed turn.                   *)
PlanPosted(p, status) ==
  /\ ~ shut
  /\ NoneLapsed
  /\ rules[p] = "active" /\ chat.sel > 0
  /\ Uses("plans")
  /\ plans' = PlansWith(p, status)
  /\ UNCHANGED <<userVars, rules, execs, serviceVars, jobRoots, slot, shut, era>>

OtherTakesSlot ==
  /\ slot = "free" /\ ~ shut
  /\ Uses("units")
  /\ slot' = "other"
  /\ UNCHANGED <<userVars, ledgerVars, serviceVars, jobRoots, shut, era>>

OtherFreesSlot ==
  /\ slot = "other"
  /\ slot' = "free"
  /\ UNCHANGED waiting
  /\ RequestDrain
  /\ UNCHANGED <<userVars, ledgerVars, intake, jobRoots, shut, era, spare>>

DayPasses ==
  /\ Uses("days")
  /\ execs' = [e \in DOMAIN execs |-> [execs[e] EXCEPT !.today = FALSE]]
  /\ UNCHANGED <<userVars, rules, plans, serviceVars, jobRoots, slot, shut, era>>

(* The copies outlive their retention window, which starts when they are    *)
(* made.                                                                    *)
WeekPasses ==
  /\ Uses("weeks")
  /\ jobRoots' = [c \in DOMAIN jobRoots |-> [jobRoots[c] EXCEPT !.old = TRUE]]
  /\ UNCHANGED <<userVars, ledgerVars, serviceVars, slot, shut, era>>

-----------------------------------------------------------------------------
(* The trial runner, as far as this ledger sees it.                         *)

(* policyGrantFreshness.                                                    *)
FreshGrant(e) ==
  LET x == execs[e] IN
  /\ x.status = "authorized"
  /\ rules[x.policy] = "active"
  /\ plans[x.plan].status = "dispatched" /\ LatestPlan = x.plan
  /\ chat.turn = plans[x.plan].turn /\ chat.sel = plans[x.plan].run
  /\ brake.version = x.gen

(* A grant without its link carries a profile that is nobody's: its claim   *)
(* is refused as drifted.                                                   *)
GrantClaimed(e) ==
  /\ ~ shut /\ ~ chat.busy /\ ~ brake.paused
  /\ execs[e].grant = "queued" /\ execs[e].linked
  /\ \A x \in DOMAIN execs : execs[x].grant # "claimed"
  /\ FreshGrant(e)
  /\ execs' = [execs EXCEPT ![e].grant = "claimed"]
  /\ UNCHANGED <<userVars, rules, plans, serviceVars, jobRoots, slot, shut, era, spare>>

GrantRefused(e) ==
  /\ ~ shut /\ ~ chat.busy /\ ~ brake.paused
  /\ execs[e].grant = "queued"
  /\ ~ (execs[e].linked /\ FreshGrant(e))
  /\ execs' = [execs EXCEPT ![e].grant = "revoked"]
  /\ UNCHANGED <<userVars, rules, plans, serviceVars, jobRoots, slot, shut, era, spare>>

(* The runner cleans the copy here or leaves it to the next prune, which    *)
(* counts it alike.                                                         *)
GrantEnds(e) ==
  /\ execs[e].grant = "claimed"
  /\ execs' = [execs EXCEPT ![e].grant = "over"]
  /\ UNCHANGED <<userVars, rules, plans, serviceVars, jobRoots, slot, shut, era, spare>>

-----------------------------------------------------------------------------
(* The service.                                                             *)

(* Mutant: any grant that is not queued has done with its bytes.            *)
SweptEarly(c) ==
  IF c.is # "prepared" \/ c.exec = 0 THEN c.is
  ELSE IF ~ execs[c.exec].linked THEN c.is
  ELSE IF execs[c.exec].grant = "revoked" THEN "gone"
  ELSE IF execs[c.exec].grant # "queued" THEN "cleaned" ELSE c.is

(* A prepared copy is let go of once its grant can never use it.            *)
Swept(c) ==
  IF c.is # "prepared" \/ c.exec = 0 THEN c.is
  ELSE IF ~ execs[c.exec].linked THEN c.is
  ELSE IF execs[c.exec].grant = "revoked" THEN "gone"
  ELSE IF execs[c.exec].grant = "over" THEN "cleaned" ELSE c.is

(* pruneAutodispatchMaterializations: the copies in `done` are swept, ...    *)
SweptAt(done) ==
  [c \in DOMAIN jobRoots |->
     IF c \in done THEN [jobRoots[c] EXCEPT !.is = Swept(jobRoots[c])] ELSE jobRoots[c]]

(* ... then, of the cleaned ones, all but the newest expire, and the old.   *)
Expiring ==
  LET swept == SweptAt(DOMAIN jobRoots)
      cleaned == {c \in DOMAIN swept : swept[c].is = "cleaned"}
  IN  {c \in cleaned : swept[c].old \/ Cardinality({d \in cleaned : d > c}) >= MaxRetained}

Expired(out) ==
  LET swept == SweptAt(DOMAIN jobRoots)
  IN  [c \in DOMAIN swept |-> IF c \in out THEN [swept[c] EXCEPT !.is = "gone"] ELSE swept[c]]

Pruned == Expired(Expiring)

(* writeRetention throws before or after it truncated the record.           *)
Torn(roots, c) == {roots, [roots EXCEPT ![c].is = "bare"]}

(* What a prune leaves that fails: the job roots cannot be listed, or a     *)
(* record cannot be written, in the sweep or after it.                      *)
BrokenPrunes ==
  LET due == {c \in DOMAIN jobRoots : Swept(jobRoots[c]) # jobRoots[c].is}
  IN  {jobRoots}
        \cup (UNION {UNION {Torn(SweptAt(done), c) : done \in SUBSET (due \ {c})} : c \in due})
        \cup (UNION {Torn(Expired({d \in Expiring : d < c}), c) : c \in Expiring})

(* What a prune that works counts: without its record a copy is not seen.   *)
Retained(cs) == {c \in DOMAIN cs : cs[c].is \in {"prepared", "cleaned"}}

(* Mutant: the budget is compared one too late.                             *)
BudgetLeftForOneMore(cs) == Cardinality(Retained(cs)) <= MaxRetained

BudgetLeft(cs) == Cardinality(Retained(cs)) < MaxRetained

(* drainPending up to its next await.                                       *)
DrainDrops ==
  /\ pump = "top"
  /\ NoneLapsed
  /\ ~ shut /\ waiting # << >>
  /\ ~ IntakeCurrent(Head(waiting))
  /\ waiting' = Tail(waiting)
  /\ UNCHANGED <<userVars, ledgerVars, intake, pump, wakeAgain, jobRoots, slot, shut, era, spare>>

DrainAdmits ==
  /\ pump = "top"
  /\ NoneLapsed
  /\ ~ shut /\ waiting # << >>
  /\ IntakeCurrent(Head(waiting))
  /\ slot = "free"
  /\ slot' = "mine"
  /\ pump' = "in"
  /\ waiting' = Tail(waiting)
  /\ intake' = [at |-> "plan", cut |-> FALSE, of |-> Head(waiting), plan |-> 0, blind |-> FALSE]
  /\ UNCHANGED <<userVars, ledgerVars, wakeAgain, jobRoots, shut, era, spare>>

(* Nothing waits, or the slot is busy: the drain returns.                   *)
DrainReturns ==
  /\ pump = "top"
  /\ NoneLapsed
  /\ ~ shut /\ waiting # << >> => IntakeCurrent(Head(waiting)) /\ slot = "other"
  /\ pump' = "end"
  /\ UNCHANGED <<userVars, ledgerVars, waiting, intake, wakeAgain, jobRoots, slot, shut, era, spare>>

(* The drain's finally.                                                     *)
DrainSettles ==
  /\ pump = "end"
  /\ wakeAgain' = FALSE
  /\ pump' = IF wakeAgain /\ ~ shut /\ waiting # << >> THEN "top" ELSE "off"
  /\ UNCHANGED <<userVars, ledgerVars, waiting, intake, jobRoots, slot, shut, era, spare>>

(* runIntake's finally: the slot is freed, which wakes, and the loop goes on. *)
IntakeOver ==
  /\ slot' = "free"
  /\ intake' = NoIntake
  /\ pump' = "top"
  /\ wakeAgain' = (wakeAgain \/ ~ shut)
  /\ UNCHANGED waiting

(* The planner throws, times out, or answers too late.                      *)
PlannerStops ==
  /\ intake.at = "plan"
  /\ NoneLapsed
  /\ IntakeOver
  /\ UNCHANGED <<userVars, ledgerVars, jobRoots, shut, era, spare>>

(* The bytes of plan i are prepared.                                        *)
Prepares(i, unseen) ==
  /\ intake' = [intake EXCEPT !.at = "prepare", !.plan = i, !.blind = unseen]
  /\ UNCHANGED <<waiting, pump, wakeAgain, slot>>

(* A prune that works refuses what there is no room for; one that throws    *)
(* reads as zero copies, and the intake goes on blind.                      *)
PrunesAndPrepares(i) ==
  \/ /\ jobRoots' = Pruned
     /\ IF BudgetLeft(Pruned) THEN Prepares(i, FALSE) ELSE IntakeOver
     /\ UNCHANGED spare
  \/ /\ Uses("faults")
     /\ jobRoots' \in BrokenPrunes
     /\ Prepares(i, TRUE)

(* The planner answers and the fence holds: the plan is stored, or an equal *)
(* one is found; only a frozen one goes on.                                 *)
PlannerReturns ==
  /\ intake.at = "plan"
  /\ NoneLapsed
  /\ IntakeCurrent(intake.of) /\ ~ intake.cut
  /\ \E i \in 1 .. Len(plans) + 1, status \in {"frozen", "open"} :
       /\ IF i > Len(plans)
            THEN plans' = PlansWith(intake.of.policy, status)
            ELSE /\ plans[i].policy = intake.of.policy
                 /\ plans[i].turn = chat.turn /\ plans[i].run = chat.sel
                 /\ (plans[i].status = "frozen") <=> (status = "frozen")
                 /\ UNCHANGED plans
       /\ IF status = "frozen"
            THEN PrunesAndPrepares(i)
            ELSE IntakeOver /\ UNCHANGED <<jobRoots, spare>>
  /\ UNCHANGED <<userVars, rules, execs, shut, era>>

Copy(exec, is) == [exec |-> exec, is |-> is, old |-> FALSE, blind |-> intake.blind]

(* rmSync fails: the copy stays, with its record or without.                *)
CopyStays(exec) == \E is \in {"prepared", "bare"} : jobRoots' = Append(jobRoots, Copy(exec, is))

(* The bytes are discarded, as far as that works.                           *)
Discards(exec) ==
  \/ UNCHANGED <<jobRoots, spare>>
  \/ Uses("faults") /\ CopyStays(exec)

(* prepare fails, or what it prepared is discarded behind the last fence.   *)
PrepareStops ==
  /\ intake.at = "prepare"
  /\ NoneLapsed
  /\ IntakeOver
  /\ Discards(0)
  /\ UNCHANGED <<userVars, ledgerVars, shut, era>>

PrepareReady ==
  /\ intake.at = "prepare"
  /\ NoneLapsed
  /\ IntakeCurrent(intake.of) /\ ~ intake.cut

(* The plan is no longer the one to authorise, a cap is reached, or the     *)
(* operator's limits or the profile refuse it; constraints that do not fit  *)
(* the wire block the plan as well.                                         *)
AuthoriseDenies ==
  /\ PrepareReady
  /\ execs' = Append(execs, Execution(intake.plan, "denied", "none", FALSE))
  /\ \/ UNCHANGED plans
     \/ /\ plans[intake.plan].status = "frozen" /\ LatestPlan = intake.plan
        /\ plans' = [plans EXCEPT ![intake.plan].status = "blocked"]
  /\ IntakeOver
  /\ Discards(Len(execs) + 1)
  /\ UNCHANGED <<userVars, rules, shut, era>>

AuthoriseGrants ==
  /\ PrepareReady
  /\ Authorisable(intake.plan)
  /\ execs' = Append(execs, Execution(intake.plan, "authorized", "queued", TRUE))
  /\ plans' = [plans EXCEPT ![intake.plan].status = "dispatched"]
  /\ jobRoots' = Append(jobRoots, Copy(Len(execs) + 1, "prepared"))
  /\ IntakeOver
  /\ UNCHANGED <<userVars, rules, shut, era, spare>>

(* The task, the grant or the link is refused: the row is blocked, unless   *)
(* that write fails as well, with or without a grant that nothing links,    *)
(* and the bytes are discarded.                                             *)
AuthoriseThrows(grant) ==
  /\ PrepareReady
  /\ Authorisable(intake.plan)
  /\ Uses("faults")
  /\ \E status \in {"blocked", "reserved"} :
       execs' = Append(execs, Execution(intake.plan, status, grant, FALSE))
  /\ IntakeOver
  /\ UNCHANGED jobRoots \/ CopyStays(Len(execs) + 1)
  /\ UNCHANGED <<userVars, rules, plans, shut, era>>

-----------------------------------------------------------------------------
(* stop(): intent is dropped, the own call aborted, and the drain awaited.  *)
StopService ==
  /\ ~ shut
  /\ spare["lives"] > 0
  /\ shut' = TRUE
  /\ DropIntent
  /\ UNCHANGED <<userVars, ledgerVars, pump, jobRoots, slot, era, spare>>

(* The new process prunes before boot recovery settles anything; `left` is  *)
(* the copy the old one was making.                                         *)
PrunesAtBoot(left) ==
  \/ /\ Uses("lives")
     /\ jobRoots' = Pruned \o left
  \/ /\ spare["lives"] > 0 /\ spare["faults"] > 0
     /\ spare' = [spare EXCEPT !["lives"] = @ - 1, !["faults"] = @ - 1]
     /\ \E roots \in BrokenPrunes : jobRoots' = roots \o left

(* The restart fence pauses; a claimed grant is revoked, or settled by boot *)
(* recovery; active Runs are interrupted; nothing captured survives.        *)
Reborn(rows, left) ==
  /\ PrunesAtBoot(left)
  /\ brake' = IF brake.paused THEN brake ELSE [paused |-> TRUE, version |-> brake.version + 1]
  /\ era' = era + 1
  /\ \E settled \in {"stopped", "over"} :
       execs' = [e \in DOMAIN rows |->
                   IF rows[e].grant = "claimed" THEN [rows[e] EXCEPT !.grant = settled] ELSE rows[e]]
  /\ chat' = [chat EXCEPT !.busy = FALSE]
  /\ waiting' = << >>
  /\ intake' = NoIntake
  /\ pump' = "off"
  /\ wakeAgain' = FALSE
  /\ slot' = "free"
  /\ shut' = FALSE
  /\ UNCHANGED <<rules, plans>>

(* The process ends, in order or not; the record is written last.           *)
ServerDies ==
  \E left \in {<< >>, <<Copy(0, "prepared")>>, <<Copy(0, "bare")>>} :
    /\ left # << >> => intake.at = "prepare"
    /\ Reborn(execs, left)

(* It ends inside authorizeWithinPolicy: a reservation without its grant,   *)
(* or with one that nothing links.                                          *)
DiesAuthorising(grant) ==
  /\ PrepareReady
  /\ Authorisable(intake.plan)
  /\ Reborn(Append(execs, Execution(intake.plan, "reserved", grant, FALSE)),
            <<Copy(Len(execs) + 1, "prepared")>>)

OwnerActs ==
  \/ PostIntent
  \/ PostRetryIntent
  \/ TurnFails
  \/ TurnCancelled
  \/ \E paused \in BOOLEAN : SetBrake(paused)
  \/ CreatePolicy
  \/ StopDispatch
  \/ \E p \in DOMAIN rules :
       RevokePolicy(p) \/ PolicyLapses(p) \/ \E s \in {"frozen", "open"} : PlanPosted(p, s)
  \/ OtherTakesSlot
  \/ DayPasses
  \/ WeekPasses

ServiceActs ==
  \/ DrainDrops
  \/ DrainAdmits
  \/ DrainReturns
  \/ DrainSettles
  \/ PlannerStops
  \/ PrepareStops
  \/ \E p \in DOMAIN rules : ExpiryRead(p)

DispatchNext ==
  \/ OwnerActs
  \/ TurnCompletes
  \/ OtherFreesSlot
  \/ ServiceActs
  \/ PlannerReturns
  \/ AuthoriseDenies
  \/ AuthoriseGrants
  \/ \E e \in DOMAIN execs : GrantClaimed(e) \/ GrantRefused(e) \/ GrantEnds(e)
  \/ \E grant \in {"none", "queued"} : AuthoriseThrows(grant) \/ DiesAuthorising(grant)
  \/ StopService
  \/ ServerDies

DispatchSpec == DispatchInit /\ [][DispatchNext]_dispatchVars

(* The drain runs, the planner has a deadline and prepare returns; other    *)
(* units end.                                                               *)
DispatchFairness ==
  /\ WF_dispatchVars(ServiceActs)
  /\ WF_dispatchVars(OtherFreesSlot)

-----------------------------------------------------------------------------
(* A grant answers the intent as it was captured: no turn, retry, pause,    *)
(* resume or restart came between the completion and the authorisation.     *)
GrantIsCurrent ==
  \A e \in DOMAIN execs : execs[e].grant # "none" => execs[e].asked = execs[e].given

(* A policy that ended has no reservation and no grant left to claim, and   *)
(* what was claimed under it was asked to stop.                             *)
RevokedIsStopped ==
  \A e \in DOMAIN execs :
    rules[execs[e].policy] \in {"revoked", "expired"} =>
      /\ execs[e].status # "reserved"
      /\ execs[e].linked => execs[e].grant # "queued"
      /\ execs[e].grant = "claimed" => execs[e].stop

(* The caps bound what was given, through crashes: a reservation counts     *)
(* until its policy ends.                                                   *)
DispatchCaps ==
  \A p \in DOMAIN rules :
    /\ Cardinality(SpentToday(p)) <= JobsPerDay
    /\ Cardinality({e \in DOMAIN execs :
                      /\ execs[e].policy = p /\ execs[e].status # "blocked"
                      /\ execs[e].grant \in {"queued", "claimed"}}) <= Concurrent

(* The copies that can be counted stay within the budget, but for those let *)
(* in behind a prune that failed, which reads as room; and no worker loses  *)
(* its own, whatever fails.                                                 *)
CopiesHeld ==
  /\ Cardinality({c \in Retained(jobRoots) : ~ jobRoots[c].blind}) <= MaxRetained
  /\ \A e \in DOMAIN execs :
       execs[e].grant \in {"claimed", "stopped"} =>
         \E c \in DOMAIN jobRoots : jobRoots[c].exec = e /\ jobRoots[c].is = "prepared"

DispatchSafe == GrantIsCurrent /\ RevokedIsStopped /\ DispatchCaps /\ CopiesHeld

(* Intakes wait: no wake is lost, so this must end.                         *)
IntakeWaits == waiting # << >>
=============================================================================
