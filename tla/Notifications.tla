---------------------------- MODULE Notifications ----------------------------
(***************************************************************************)
(* The notification projector: the store of                                 *)
(* packages/kernel/src/notifications.ts and its one worker,                 *)
(* apps/server/src/notification_service.ts, for one session.                *)
(*                                                                          *)
(* Committed changes of tasks, and settled shadow jobs and receipts, are    *)
(* rows of append-only sources.  A drain tick consumes them behind durable  *)
(* cursors, keeps the schedule of deadlines, records the deadlines that are *)
(* due and arms one timer for the next.  A tick awaits nothing, so nothing  *)
(* but the clock moves inside it; every database call of it may fail.  A    *)
(* task's deadline never changes, and a notice is a row of the session's    *)
(* feed: the two sources of notices are consumed alike and modelled as one. *)
(***************************************************************************)
EXTENDS Naturals, Sequences, FiniteSets

CONSTANTS
  Tasks,        \* user tasks with a deadline
  DueAt,        \* their deadlines
  EventBatch,   \* TASK_EVENT_BATCH, SHADOW_EVENT_BATCH, RECEIPT_BATCH
  MaxSweeps,    \* NOTIFICATION_MAX_SWEEPS
  LastTime,     \* bound: the clock
  NoticeLoads   \* bound: how often, in one behaviour, each thing happens

(* Writes of tasks, settlements, control commands, restarts, failed calls.  *)
NoticeEvents == {"writes", "settlements", "commands", "ends", "errors"}

ASSUME NoticeAssumption ==
  /\ LastTime \in Nat
  /\ DueAt \in [Tasks -> 0 .. LastTime]
  /\ EventBatch \in Nat \ {0}
  /\ MaxSweeps \in Nat \ {0}
  /\ NoticeLoads \subseteq [NoticeEvents -> Nat]

VARIABLES
  instant,
  stopping,    \* autonomy_control: [paused, at], at = updated_at
  task,        \* autonomy_tasks: [is, at], at = updated_at
  taskLog,     \* autonomy_task_events
  taskMark,    \* its cursor
  settlements, \* how many rows the sources of notices have
  feedMark,       \* their cursor: what is in the feed
  schedule,    \* notification_deadline_schedule
  alerted,     \* deadlines in the feed
  outdated,    \* those marked outdated
  built,       \* scheduleBuilt
  degraded,    \* the diagnostic is up
  alarm,       \* when the one timer fires: none or one time
  sweep,       \* the tick: [at, now, clean, moved, count]
  wakeLater,   \* wakeQueued
  up,          \* the server runs
  lapsed,      \* ghost: deadlines that passed while stopped, untouched since
  blind,       \* ghost: a read of the cursors failed
  margin       \* what may still happen

sourceVars == <<stopping, task, taskLog, settlements>>
projectionVars == <<taskMark, feedMark, schedule, alerted, outdated>>
projectorVars == <<built, degraded, alarm, sweep, wakeLater>>
noticeVars == <<instant, sourceVars, projectionVars, projectorVars, up, lapsed, blind, margin>>

Takes(what) ==
  /\ margin[what] > 0
  /\ margin' = [margin EXCEPT ![what] = @ - 1]

Resting == [at |-> "off", now |-> 0, clean |-> TRUE, moved |-> FALSE, count |-> 0]
FreshTick == [Resting EXCEPT !.at = "list", !.now = instant]
BetweenTicks == up /\ sweep.at \in {"off", "settling"}

(* The values the variables take.                                           *)
NoticeTypeOK ==
  /\ instant \in 0 .. LastTime
  /\ stopping \in [paused : BOOLEAN, at : 0 .. LastTime]
  /\ task \in [Tasks -> [is : {"none", "live", "done"}, at : 0 .. LastTime]]
  /\ taskLog \in Seq(Tasks) /\ taskMark \in 0 .. Len(taskLog)
  /\ settlements \in Nat /\ feedMark \in 0 .. settlements
  /\ schedule \subseteq Tasks /\ alerted \subseteq Tasks /\ outdated \subseteq alerted
  /\ alarm \subseteq 0 .. LastTime /\ Cardinality(alarm) <= 1
  /\ sweep.at \in {"off", "list", "ingest", "build", "record", "again", "arm", "settling"}
  /\ sweep.now \in 0 .. instant /\ sweep.count \in 0 .. MaxSweeps
  /\ {built, degraded, wakeLater, up, blind, sweep.clean, sweep.moved} \subseteq BOOLEAN
  /\ lapsed \subseteq Tasks
  /\ margin \in [NoticeEvents -> Nat]

(* A server that was started and resumed, with no task yet.                 *)
NoticeInit ==
  /\ instant = 0
  /\ stopping = [paused |-> FALSE, at |-> 0]
  /\ task = [t \in Tasks |-> [is |-> "none", at |-> 0]]
  /\ taskLog = << >> /\ taskMark = 0
  /\ settlements = 0 /\ feedMark = 0
  /\ schedule = {} /\ alerted = {} /\ outdated = {}
  /\ built = TRUE
  /\ degraded = FALSE
  /\ alarm = {}
  /\ sweep = Resting
  /\ wakeLater = FALSE
  /\ up = TRUE
  /\ lapsed = {} /\ blind = FALSE
  /\ margin \in NoticeLoads

-----------------------------------------------------------------------------
(* The committed changes, each followed by a wake.                          *)

WakeUp ==
  IF sweep.at = "off"
    THEN sweep' = FreshTick /\ UNCHANGED wakeLater
    ELSE wakeLater' = TRUE /\ UNCHANGED sweep

(* A task is created, started, held, resumed, or ended.                     *)
TaskWritten(t, is) ==
  /\ BetweenTicks
  /\ Takes("writes")
  /\ task[t].is # "done"
  /\ task[t].is = "none" => is = "live"
  /\ task' = [task EXCEPT ![t] = [is |-> is, at |-> instant]]
  /\ taskLog' = Append(taskLog, t)
  /\ lapsed' = lapsed \ {t}
  /\ WakeUp
  /\ UNCHANGED <<instant, stopping, settlements, projectionVars, built, degraded, alarm, up, blind>>

(* A shadow decision or an uncertain receipt is committed.                  *)
SourceSettles ==
  /\ BetweenTicks
  /\ Takes("settlements")
  /\ settlements' = settlements + 1
  /\ WakeUp
  /\ UNCHANGED <<instant, stopping, task, taskLog, projectionVars, built, degraded, alarm, up,
                 lapsed, blind>>

(* setAutonomyControlState: notifyControl clears the timer before the wake. *)
ControlWritten(paused) ==
  /\ BetweenTicks
  /\ Takes("commands")
  /\ stopping' = [paused |-> paused, at |-> instant]
  /\ lapsed' = IF stopping.paused /\ ~ paused
                 THEN lapsed \union {t \in Tasks \ alerted : task[t].is = "live" /\ DueAt[t] < instant}
                 ELSE lapsed
  /\ alarm' = {}
  /\ WakeUp
  /\ UNCHANGED <<instant, task, taskLog, settlements, projectionVars, built, degraded, up, blind>>

TimePasses ==
  /\ instant < LastTime
  /\ instant' = instant + 1
  /\ UNCHANGED <<sourceVars, projectionVars, projectorVars, up, lapsed, blind, margin>>

TimerFires ==
  /\ up /\ sweep.at = "off"
  /\ \E due \in alarm : due <= instant
  /\ alarm' = {}
  /\ sweep' = FreshTick
  /\ UNCHANGED <<instant, sourceVars, projectionVars, built, degraded, wakeLater, up, lapsed, blind,
                 margin>>

-----------------------------------------------------------------------------
(* The tick.                                                                *)

StepTo(at) == sweep' = [sweep EXCEPT !.at = at]

(* A call of the tick throws: the diagnostic goes up and the tick goes on.  *)
Degrades(at) ==
  /\ Takes("errors")
  /\ degraded' = TRUE
  /\ sweep' = [sweep EXCEPT !.at = at, !.clean = FALSE]

(* listSessionIds: a failure ends the tick and arms no timer.               *)
TickLists ==
  /\ sweep.at = "list"
  /\ \/ StepTo("ingest") /\ UNCHANGED <<degraded, margin>>
     \/ Degrades("settling")
  /\ UNCHANGED <<instant, sourceVars, projectionVars, built, alarm, wakeLater, up, lapsed, blind>>

Least(m, n) == IF m <= n THEN m ELSE n
Open(t) == task[t].is = "live"

(* projectTaskDeadlineInTx for the tasks of the given events.               *)
Project(events) ==
  /\ schedule' = (schedule \ events) \union {t \in events : Open(t)}
  /\ outdated' = outdated \union {t \in events \intersect schedule \intersect alerted : ~ Open(t)}

(* Mutant: the cursor moves past events the batch left out.                 *)
IngestPastBatch ==
  LET last == Least(taskMark + EventBatch, Len(taskLog))
  IN /\ Project({taskLog[i] : i \in taskMark + 1 .. last})
     /\ taskMark' = Len(taskLog)
     /\ feedMark' = Least(feedMark + EventBatch, settlements)

(* ingestNotifications: one batch of every source, one transaction.         *)
Ingest ==
  LET last == Least(taskMark + EventBatch, Len(taskLog))
  IN /\ Project({taskLog[i] : i \in taskMark + 1 .. last})
     /\ taskMark' = last
     /\ feedMark' = Least(feedMark + EventBatch, settlements)

TickIngests ==
  /\ sweep.at = "ingest"
  /\ \/ /\ Ingest
        /\ sweep' = [sweep EXCEPT !.at = "build",
                                  !.moved = taskMark' > taskMark \/ feedMark' > feedMark]
        /\ UNCHANGED <<degraded, margin>>
     \/ Degrades("build") /\ UNCHANGED <<taskMark, feedMark, schedule, outdated>>
  /\ UNCHANGED <<instant, sourceVars, alerted, built, alarm, wakeLater, up, lapsed, blind>>

(* buildDeadlineSchedule, until it has gone through once.                   *)
TickBuilds ==
  /\ sweep.at = "build"
  /\ \/ /\ IF built THEN UNCHANGED <<schedule, outdated>> ELSE Project(Tasks)
        /\ built' = TRUE
        /\ StepTo("record")
        /\ UNCHANGED <<degraded, margin>>
     \/ ~ built /\ Degrades("record") /\ UNCHANGED <<schedule, outdated, built>>
  /\ UNCHANGED <<instant, sourceVars, taskMark, feedMark, alerted, alarm, wakeLater, up, lapsed, blind>>

(* Due before the last control write, and not written since: silent.        *)
Silenced(t) == DueAt[t] < stopping.at /\ task[t].at <= stopping.at

(* recordDueDeadlines.  Without a control version it records nothing.       *)
TickRecords ==
  /\ sweep.at = "record"
  /\ \/ LET due == IF stopping.paused THEN {} ELSE {t \in schedule : DueAt[t] <= sweep.now}
            new == {t \in due \ alerted : Open(t) /\ ~ Silenced(t)}
        IN /\ alerted' = alerted \union new
           /\ schedule' = {t \in schedule : t \in due => Open(t)}
           /\ outdated' = outdated \union {t \in due \intersect alerted : ~ Open(t)}
           /\ sweep' = [sweep EXCEPT !.at = "again", !.moved = @ \/ new # {}]
           /\ UNCHANGED <<degraded, margin>>
     \/ Degrades("again") /\ UNCHANGED <<alerted, schedule, outdated>>
  /\ UNCHANGED <<instant, sourceVars, taskMark, feedMark, built, alarm, wakeLater, up, lapsed, blind>>

(* A sweep that moved something is followed by another, up to the bound.    *)
(* When the cursors cannot be read, what moved only a cursor is not seen.   *)
SweepsAgain ==
  /\ sweep.at = "again"
  /\ \E moved \in {sweep.moved, FALSE} :
       /\ IF moved = sweep.moved THEN UNCHANGED <<blind, margin>>
          ELSE Takes("errors") /\ blind' = TRUE
       /\ sweep' = [sweep EXCEPT
                      !.count = @ + 1, !.moved = moved,
                      !.at = IF moved /\ sweep.count + 1 < MaxSweeps THEN "ingest" ELSE "arm"]
  /\ UNCHANGED <<instant, sourceVars, projectionVars, built, degraded, alarm, wakeLater, up, lapsed>>

(* Mutant: no floor, a deadline already due arms nothing.                   *)
UpcomingOnly == {t \in schedule \ alerted : Open(t) /\ ~ Silenced(t) /\ DueAt[t] > instant}

(* getNextDeadline: what may still alert.                                   *)
Upcoming == {t \in schedule \ alerted : Open(t) /\ ~ Silenced(t)}

(* rescheduleTimer; a deadline already due fires after the floor.  A tick   *)
(* whose last sweep still moved something continues in another.             *)
TickArms ==
  /\ sweep.at = "arm"
  /\ \/ /\ degraded' = (degraded /\ ~ sweep.clean)
        /\ alarm' = IF stopping.paused \/ Upcoming = {} THEN {}
                    ELSE {DueAt[CHOOSE t \in Upcoming : \A u \in Upcoming : DueAt[t] <= DueAt[u]]}
        /\ UNCHANGED margin
     \/ Takes("errors") /\ degraded' = TRUE /\ alarm' = {}
  /\ sweep' = IF sweep.count = MaxSweeps /\ sweep.moved THEN FreshTick
              ELSE [Resting EXCEPT !.at = "settling"]
  /\ UNCHANGED <<instant, sourceVars, projectionVars, built, wakeLater, up, lapsed, blind>>

(* followUp: a wake that came while the tick settled is answered by another *)
(* (at once, or past the chain's bound from setImmediate).                  *)
TickSettles ==
  /\ sweep.at = "settling"
  /\ sweep' = IF wakeLater THEN FreshTick ELSE Resting
  /\ wakeLater' = FALSE
  /\ UNCHANGED <<instant, sourceVars, projectionVars, built, degraded, alarm, up, lapsed, blind, margin>>

-----------------------------------------------------------------------------
(* The process ends, in order or not; the restart fence pauses the control, *)
(* and the first tick rebuilds the schedule.                                *)
ProjectorDies ==
  /\ up
  /\ Takes("ends")
  /\ up' = FALSE
  /\ alarm' = {}
  /\ sweep' = Resting
  /\ wakeLater' = FALSE
  /\ UNCHANGED <<instant, sourceVars, projectionVars, built, degraded, lapsed, blind>>

ProjectorStarts ==
  /\ ~ up
  /\ up' = TRUE
  /\ stopping' = IF stopping.paused THEN stopping ELSE [paused |-> TRUE, at |-> instant]
  /\ built' = FALSE
  /\ degraded' = FALSE
  /\ sweep' = FreshTick
  /\ UNCHANGED <<instant, task, taskLog, settlements, projectionVars, alarm, wakeLater, lapsed, blind, margin>>

TickStep ==
  \/ TickLists \/ TickIngests \/ TickBuilds \/ TickRecords
  \/ SweepsAgain \/ TickArms \/ TickSettles

NoticeNext ==
  \/ \E t \in Tasks, is \in {"live", "done"} : TaskWritten(t, is)
  \/ SourceSettles
  \/ \E paused \in BOOLEAN : ControlWritten(paused)
  \/ TimePasses
  \/ TimerFires
  \/ TickStep
  \/ ProjectorDies
  \/ ProjectorStarts

NoticeSpec == NoticeInit /\ [][NoticeNext]_noticeVars

(* A tick awaits nothing and runs to its end; a timer whose time has come   *)
(* fires.  Time need not pass.                                              *)
NoticeFairness ==
  /\ WF_noticeVars(TickStep)
  /\ WF_noticeVars(TimerFires)

-----------------------------------------------------------------------------
(* The derived schedule is the one of the tasks, for every task whose       *)
(* events are consumed, however the batches, failures and restarts fell;    *)
(* and the alert of a task that ended is marked outdated.                   *)
ScheduleFollows ==
  \A t \in Tasks :
    (\A i \in taskMark + 1 .. Len(taskLog) : taskLog[i] # t) =>
      /\ t \in schedule <=> Open(t)
      /\ task[t].is = "done" /\ t \in alerted => t \in outdated

(* "offline-time deadlines never catch up": a deadline that passed while    *)
(* the control was paused or the server down stays silent until its task    *)
(* is written again, and none is announced early.                           *)
AlertIsTimely ==
  /\ lapsed \intersect alerted = {}
  /\ \A t \in alerted : DueAt[t] <= instant

NotifySafe == ScheduleFollows /\ AlertIsTimely

(* Settlements that are not in the feed, or deadlines in force that were    *)
(* not announced, with no diagnostic up: this must end.                     *)
NoticeOwed ==
  /\ up /\ ~ degraded /\ ~ blind
  /\ \/ feedMark < settlements
     \/ \E t \in Tasks \ alerted :
          Open(t) /\ DueAt[t] <= instant /\ ~ Silenced(t) /\ ~ stopping.paused
=============================================================================
