------------------------- MODULE BackgroundProofs -------------------------
(***************************************************************************)
(* Proofs about the background services beside memory: the notification     *)
(* projector, shadow deliberation and auto-dispatch, and their composition. *)
(*                                                                          *)
(* Each service has an inductive invariant of its own: a type part, what    *)
(* its durable rows say of each other, and the ghosts its safety speaks of. *)
(* One lemma per operation shows that the operation keeps it.               *)
(***************************************************************************)
EXTENDS MCBackground, MemoryOutboxProofs, FiniteSetTheorems

(***************************************************************************)
(* Notifications.                                                           *)
(***************************************************************************)
SweepAt == {"off", "list", "ingest", "build", "record", "again", "arm", "settling"}
SweepRecord ==
  [at : SweepAt, now : 0 .. LastTime, clean : BOOLEAN, moved : BOOLEAN, count : 0 .. MaxSweeps]

(* The types, the rows of the two cursors, and the one timer.               *)
RowsTyped ==
  /\ task \in [Tasks -> [is : {"none", "live", "done"}, at : 0 .. LastTime]]
  /\ taskLog \in Seq(Tasks)
  /\ taskMark \in 0 .. Len(taskLog)
  /\ settlements \in Nat
  /\ feedMark \in 0 .. settlements

FeedTyped ==
  /\ schedule \subseteq Tasks
  /\ alerted \subseteq Tasks
  /\ outdated \subseteq alerted
  /\ lapsed \subseteq Tasks

TickTyped ==
  /\ instant \in 0 .. LastTime
  /\ stopping \in [paused : BOOLEAN, at : 0 .. LastTime]
  /\ alarm = {} \/ \E d \in 0 .. LastTime : alarm = {d}
  /\ sweep \in SweepRecord
  /\ sweep.at \notin {"off", "arm", "settling"} => sweep.count < MaxSweeps
  /\ margin \in [NoticeEvents -> Nat]

NoticeFlags ==
  /\ built \in BOOLEAN
  /\ degraded \in BOOLEAN
  /\ wakeLater \in BOOLEAN
  /\ up \in BOOLEAN
  /\ blind \in BOOLEAN

(* Nothing was written after now.                                           *)
ClockOrdered ==
  /\ sweep.now <= instant
  /\ stopping.at <= instant
  /\ \A t \in Tasks : task[t].at <= instant

(* An event of t lies behind the cursor's reach.                            *)
Awaited(t) == \E i \in taskMark + 1 .. Len(taskLog) : taskLog[i] = t

(* A task with no event to consume is scheduled just when it is open; a     *)
(* task that was announced is still scheduled, or has ended and its alert   *)
(* is outdated.                                                             *)
Followed(t) ==
  /\ ~ Awaited(t) => (t \in schedule <=> Open(t))
  /\ t \in alerted => /\ task[t].is # "none"
                      /\ t \in schedule \/ (task[t].is = "done" /\ t \in outdated)

(* What was announced was due; what lapsed while stopped is silenced by the *)
(* last control write, which is later than its deadline and its last write. *)
Timely(t) ==
  /\ t \in alerted => DueAt[t] <= instant
  /\ t \in lapsed => t \notin alerted /\ Silenced(t)

NoticeInv ==
  /\ RowsTyped
  /\ FeedTyped
  /\ TickTyped
  /\ NoticeFlags
  /\ ClockOrdered
  /\ \A t \in Tasks : Followed(t)
  /\ \A t \in Tasks : Timely(t)

(* A tick is a record; it starts, or changes, as one.                       *)
LEMMA SweepFresh ==
  ASSUME NoticeInv
  PROVE  /\ FreshTick \in SweepRecord
         /\ FreshTick.at = "list" /\ FreshTick.now = instant /\ FreshTick.count = 0
         /\ Resting \in SweepRecord
         /\ Resting.at = "off" /\ Resting.now = 0
         /\ [Resting EXCEPT !.at = "settling"] \in SweepRecord
         /\ [Resting EXCEPT !.at = "settling"].at = "settling"
         /\ [Resting EXCEPT !.at = "settling"].now = 0
<1>1. instant \in 0 .. LastTime /\ 0 \in 0 .. LastTime /\ 0 \in 0 .. MaxSweeps
  BY NoticeAssumption DEF NoticeInv, TickTyped
<1>2. /\ Resting \in SweepRecord
      /\ Resting.at = "off" /\ Resting.now = 0 /\ Resting.count = 0
  BY <1>1 DEF Resting, SweepRecord, SweepAt
<1>3. PICK rest : rest = Resting
  OBVIOUS
<1>4. "list" \in SweepAt /\ "settling" \in SweepAt
  BY DEF SweepAt
<1>5. PICK settling : settling = [rest EXCEPT !.at = "settling"]
  OBVIOUS
<1>6. settling \in SweepRecord /\ settling.at = "settling" /\ settling.now = 0
  BY <1>2, <1>3, <1>4, <1>5 DEF SweepRecord
<1>7. PICK fresh : fresh = [rest EXCEPT !.at = "list", !.now = instant]
  OBVIOUS
<1>8. fresh \in SweepRecord /\ fresh.at = "list" /\ fresh.now = instant /\ fresh.count = 0
  BY <1>1, <1>2, <1>3, <1>4, <1>7 DEF SweepRecord
<1>9. FreshTick = fresh /\ [Resting EXCEPT !.at = "settling"] = settling
  BY Zenon, <1>3, <1>5, <1>7 DEF FreshTick
<1>. QED
  BY <1>2, <1>6, <1>8, <1>9

(* A wake starts a tick or is noted for the one under way.                  *)
LEMMA WakeTyped ==
  ASSUME NoticeInv, WakeUp, UNCHANGED instant
  PROVE  /\ sweep' \in SweepRecord
         /\ sweep'.at \notin {"off", "arm", "settling"} => sweep'.count < MaxSweeps
         /\ sweep'.now <= instant'
         /\ wakeLater' \in BOOLEAN
<1>1. /\ FreshTick \in SweepRecord
      /\ FreshTick.at = "list" /\ FreshTick.now = instant /\ FreshTick.count = 0
  BY Zenon, SweepFresh
<1>2. wakeLater' \in BOOLEAN
  BY Zenon DEF WakeUp, NoticeInv, NoticeFlags
<1>3. CASE sweep' = FreshTick
  BY <1>1, <1>2, <1>3, NoticeAssumption DEF NoticeInv, TickTyped
<1>4. CASE sweep' = sweep
  BY <1>2, <1>4 DEF NoticeInv, TickTyped, ClockOrdered
<1>. QED
  BY <1>3, <1>4 DEF WakeUp

(* What may still happen stays a record of counts.                          *)
LEMMA MarginTyped ==
  ASSUME NoticeInv, NEW what \in NoticeEvents, Takes(what)
  PROVE  margin' \in [NoticeEvents -> Nat]
BY DEF Takes, NoticeInv, TickTyped

(* Nothing of the projection and its sources moves.                         *)
LEMMA ProjectionStays ==
  ASSUME NoticeInv, UNCHANGED <<task, taskLog, settlements, projectionVars>>
  PROVE  /\ RowsTyped'
         /\ \A t \in Tasks : Followed(t)'
BY DEF NoticeInv, RowsTyped, Followed, Awaited, Open, projectionVars

(* What was announced and what lapsed stay in time while the clock goes on. *)
LEMMA TimelyStays ==
  ASSUME NoticeInv, UNCHANGED <<stopping, task, alerted, lapsed>>, instant' \in Nat,
         instant <= instant'
  PROVE  \A t \in Tasks : Timely(t)'
<1>. SUFFICES ASSUME NEW t \in Tasks PROVE Timely(t)'
  OBVIOUS
<1>1. Timely(t) /\ DueAt[t] \in 0 .. LastTime /\ instant \in Nat
  BY NoticeAssumption DEF NoticeInv, TickTyped
<1>2. Silenced(t) => Silenced(t)'
  BY DEF Silenced
<1>. QED
  BY <1>1, <1>2 DEF Timely

LEMMA SettlementKept ==
  ASSUME NoticeInv, SourceSettles
  PROVE  NoticeInv'
<1>1. UNCHANGED <<instant, stopping, task, taskLog, taskMark, feedMark, schedule, alerted, outdated,
                  built, degraded, alarm, up, lapsed, blind>>
  BY DEF SourceSettles, projectionVars
<1>2. WakeUp /\ settlements' = settlements + 1 /\ Takes("settlements")
  BY DEF SourceSettles
<1>3. RowsTyped'
  BY <1>1, <1>2 DEF NoticeInv, RowsTyped
<1>4. FeedTyped' /\ \A t \in Tasks : Followed(t)'
  BY <1>1 DEF NoticeInv, FeedTyped, Followed, Awaited, Open
<1>5. margin' \in [NoticeEvents -> Nat]
  BY Zenon, <1>2, MarginTyped DEF NoticeEvents
<1>6. TickTyped' /\ ClockOrdered'
  BY Zenon, <1>1, <1>2, <1>5, WakeTyped DEF NoticeInv, TickTyped, ClockOrdered
<1>7. NoticeFlags'
  BY Zenon, <1>1, <1>2, WakeTyped DEF NoticeInv, NoticeFlags
<1>8. \A t \in Tasks : Timely(t)'
  BY <1>1, TimelyStays DEF NoticeInv, TickTyped
<1>. QED
  BY <1>3, <1>4, <1>6, <1>7, <1>8 DEF NoticeInv

LEMMA ControlKept ==
  ASSUME NoticeInv, NEW paused \in BOOLEAN, ControlWritten(paused)
  PROVE  NoticeInv'
<1>1. UNCHANGED <<instant, task, taskLog, settlements, taskMark, feedMark, schedule, alerted,
                  outdated, built, degraded, up, blind>>
  BY DEF ControlWritten, projectionVars
<1>2. /\ WakeUp /\ Takes("commands") /\ alarm' = {}
      /\ stopping' = [paused |-> paused, at |-> instant]
      /\ lapsed' \subseteq lapsed \union {t \in Tasks \ alerted : DueAt[t] < instant}
  BY DEF ControlWritten
<1>3. RowsTyped' /\ \A t \in Tasks : Followed(t)'
  BY Zenon, <1>1, ProjectionStays DEF projectionVars
<1>4. FeedTyped'
  BY <1>1, <1>2 DEF NoticeInv, FeedTyped
<1>5. margin' \in [NoticeEvents -> Nat]
  BY Zenon, <1>2, MarginTyped DEF NoticeEvents
<1>6. stopping' \in [paused : BOOLEAN, at : 0 .. LastTime] /\ stopping'.at = instant
  BY <1>2 DEF NoticeInv, TickTyped
<1>7. TickTyped' /\ ClockOrdered'
  BY <1>1, <1>2, <1>5, <1>6, WakeTyped DEF NoticeInv, TickTyped, ClockOrdered
<1>8. NoticeFlags'
  BY Zenon, <1>1, <1>2, WakeTyped DEF NoticeInv, NoticeFlags
<1>9. \A t \in Tasks : Timely(t)'
  <2>. SUFFICES ASSUME NEW t \in Tasks PROVE Timely(t)'
    OBVIOUS
  <2>1. /\ Timely(t) /\ DueAt[t] \in 0 .. LastTime /\ instant \in Nat
        /\ stopping.at <= instant /\ stopping.at \in Nat
        /\ task[t].at <= instant /\ task[t].at \in Nat
    BY NoticeAssumption DEF NoticeInv, TickTyped, ClockOrdered, RowsTyped
  <2>2. t \in lapsed' => t \notin alerted /\ DueAt[t] < instant
    BY <1>2, <2>1 DEF Timely, Silenced
  <2>. QED
    BY <1>1, <1>6, <2>1, <2>2 DEF Timely, Silenced
<1>. QED
  BY <1>3, <1>4, <1>7, <1>8, <1>9 DEF NoticeInv

LEMMA TimeKept ==
  ASSUME NoticeInv, TimePasses
  PROVE  NoticeInv'
<1>1. UNCHANGED <<stopping, task, taskLog, settlements, taskMark, feedMark, schedule, alerted,
                  outdated, built, degraded, alarm, sweep, wakeLater, up, lapsed, blind, margin>>
  BY DEF TimePasses, sourceVars, projectionVars, projectorVars
<1>2. instant' = instant + 1 /\ instant' \in 0 .. LastTime
  BY NoticeAssumption DEF TimePasses, NoticeInv, TickTyped
<1>3. RowsTyped' /\ \A t \in Tasks : Followed(t)'
  BY Zenon, <1>1, ProjectionStays DEF projectionVars
<1>4. FeedTyped' /\ NoticeFlags'
  BY <1>1 DEF NoticeInv, FeedTyped, NoticeFlags
<1>5. TickTyped'
  BY <1>1, <1>2 DEF NoticeInv, TickTyped
<1>6. ClockOrdered'
  BY <1>1, <1>2 DEF NoticeInv, TickTyped, RowsTyped, ClockOrdered, SweepRecord
<1>7. \A t \in Tasks : Timely(t)'
  BY <1>1, <1>2, TimelyStays DEF NoticeInv, TickTyped
<1>. QED
  BY <1>3, <1>4, <1>5, <1>6, <1>7 DEF NoticeInv

(* A step of the tick that leaves the sources, the projection, the ghosts   *)
(* and the clock alone.                                                     *)
LEMMA TickMoves ==
  ASSUME NoticeInv,
         UNCHANGED <<instant, task, taskLog, settlements, taskMark, feedMark, schedule, alerted,
                     outdated, stopping, lapsed>>,
         sweep' \in SweepRecord,
         sweep'.at \notin {"off", "arm", "settling"} => sweep'.count < MaxSweeps,
         sweep'.now <= instant,
         alarm' = {} \/ \E d \in 0 .. LastTime : alarm' = {d},
         margin' \in [NoticeEvents -> Nat],
         NoticeFlags'
  PROVE  NoticeInv'
<1>1. RowsTyped' /\ \A t \in Tasks : Followed(t)'
  BY Zenon, ProjectionStays DEF projectionVars
<1>2. FeedTyped'
  BY DEF NoticeInv, FeedTyped
<1>3. TickTyped'
  BY DEF NoticeInv, TickTyped
<1>4. ClockOrdered'
  BY DEF NoticeInv, ClockOrdered
<1>5. \A t \in Tasks : Timely(t)'
  BY TimelyStays DEF NoticeInv, TickTyped
<1>. QED
  BY <1>1, <1>2, <1>3, <1>4, <1>5 DEF NoticeInv

LEMMA TimerKept ==
  ASSUME NoticeInv, TimerFires
  PROVE  NoticeInv'
<1>1. UNCHANGED <<instant, task, taskLog, settlements, taskMark, feedMark, schedule, alerted,
                  outdated, stopping, lapsed, margin, built, degraded, wakeLater, up, blind>>
  BY DEF TimerFires, sourceVars, projectionVars
<1>2. alarm' = {} /\ sweep' = FreshTick
  BY DEF TimerFires
<1>3. NoticeFlags' /\ margin' \in [NoticeEvents -> Nat]
  BY <1>1 DEF NoticeInv, NoticeFlags, TickTyped
<1>4. /\ sweep' \in SweepRecord /\ sweep'.count < MaxSweeps /\ sweep'.now <= instant
  BY <1>2, SweepFresh, NoticeAssumption DEF NoticeInv, TickTyped
<1>. QED
  BY Zenon, <1>1, <1>2, <1>3, <1>4, TickMoves

(* One part of the tick gives way to the next.                              *)
LEMMA StepTyped ==
  ASSUME NoticeInv, NEW at \in SweepAt, StepTo(at)
  PROVE  /\ sweep' \in SweepRecord
         /\ sweep'.at = at /\ sweep'.count = sweep.count /\ sweep'.now = sweep.now
BY DEF StepTo, SweepRecord, NoticeInv, TickTyped

LEMMA DegradesTyped ==
  ASSUME NoticeInv, NEW at \in SweepAt, Degrades(at)
  PROVE  /\ sweep' \in SweepRecord
         /\ sweep'.at = at /\ sweep'.count = sweep.count /\ sweep'.now = sweep.now
         /\ degraded' = TRUE
         /\ margin' \in [NoticeEvents -> Nat]
<1>1. Takes("errors") /\ degraded' = TRUE /\ sweep' = [sweep EXCEPT !.at = at, !.clean = FALSE]
  BY DEF Degrades
<1>2. margin' \in [NoticeEvents -> Nat]
  BY Zenon, <1>1, MarginTyped DEF NoticeEvents
<1>3. sweep' \in SweepRecord /\ sweep'.at = at /\ sweep'.count = sweep.count /\ sweep'.now = sweep.now
  BY <1>1 DEF SweepRecord, NoticeInv, TickTyped
<1>. QED
  BY <1>1, <1>2, <1>3

LEMMA ListKept ==
  ASSUME NoticeInv, TickLists
  PROVE  NoticeInv'
<1>1. UNCHANGED <<instant, task, taskLog, settlements, taskMark, feedMark, schedule, alerted,
                  outdated, stopping, lapsed, built, alarm, wakeLater, up, blind>>
  BY DEF TickLists, sourceVars, projectionVars
<1>2. sweep.at = "list" /\ sweep.count < MaxSweeps /\ sweep.now <= instant
  BY DEF TickLists, NoticeInv, TickTyped, ClockOrdered
<1>3. CASE StepTo("ingest") /\ UNCHANGED <<degraded, margin>>
  <2>1. NoticeFlags' /\ margin' \in [NoticeEvents -> Nat]
    BY <1>1, <1>3 DEF NoticeInv, NoticeFlags, TickTyped
  <2>2. "ingest" \in SweepAt
    BY DEF SweepAt
  <2>. QED
    BY Zenon, <1>1, <1>2, <1>3, <2>1, <2>2, StepTyped, TickMoves DEF NoticeInv, TickTyped
<1>4. CASE Degrades("settling")
  <2>1. "settling" \in SweepAt
    BY DEF SweepAt
  <2>2. /\ sweep' \in SweepRecord
        /\ sweep'.at = "settling" /\ sweep'.now = sweep.now /\ degraded' = TRUE
        /\ margin' \in [NoticeEvents -> Nat]
    BY Zenon, <1>4, <2>1, DegradesTyped
  <2>3. NoticeFlags'
    BY Zenon, <1>1, <2>2 DEF NoticeInv, NoticeFlags
  <2>. QED
    BY Zenon, <1>1, <1>2, <2>2, <2>3, TickMoves DEF NoticeInv, TickTyped
<1>. QED
  BY <1>3, <1>4 DEF TickLists

LEMMA AgainKept ==
  ASSUME NoticeInv, SweepsAgain
  PROVE  NoticeInv'
<1>1. UNCHANGED <<instant, task, taskLog, settlements, taskMark, feedMark, schedule, alerted,
                  outdated, stopping, lapsed, built, degraded, alarm, wakeLater, up>>
  BY DEF SweepsAgain, sourceVars, projectionVars
<1>2. PICK moved \in {sweep.moved, FALSE} :
        /\ IF moved = sweep.moved THEN UNCHANGED <<blind, margin>>
           ELSE Takes("errors") /\ blind' = TRUE
        /\ sweep' = [sweep EXCEPT
                       !.count = @ + 1, !.moved = moved,
                       !.at = IF moved /\ sweep.count + 1 < MaxSweeps THEN "ingest" ELSE "arm"]
  BY DEF SweepsAgain
<1>3. sweep.at = "again" /\ sweep.count < MaxSweeps /\ sweep.now <= instant /\ sweep \in SweepRecord
  BY DEF SweepsAgain, NoticeInv, TickTyped, ClockOrdered
<1>4. moved \in BOOLEAN
  BY <1>3 DEF SweepRecord
<1>5. PICK at : at = (IF moved /\ sweep.count + 1 < MaxSweeps THEN "ingest" ELSE "arm")
  OBVIOUS
<1>6. at \in SweepAt /\ (at \notin {"off", "arm", "settling"} => sweep.count + 1 < MaxSweeps)
  BY <1>5 DEF SweepAt
<1>7. sweep' = [sweep EXCEPT !.count = @ + 1, !.moved = moved, !.at = at]
  BY <1>2, <1>5
<1>8. sweep.count + 1 \in 0 .. MaxSweeps
  BY <1>3, NoticeAssumption DEF SweepRecord
<1>9. /\ sweep' \in SweepRecord /\ sweep'.at = at /\ sweep'.count = sweep.count + 1
      /\ sweep'.now = sweep.now
  BY <1>3, <1>4, <1>6, <1>7, <1>8 DEF SweepRecord
<1>10. margin' \in [NoticeEvents -> Nat]
  <2>1. CASE moved = sweep.moved
    BY <1>2, <2>1 DEF NoticeInv, TickTyped
  <2>2. CASE moved # sweep.moved
    BY Zenon, <1>2, <2>2, MarginTyped DEF NoticeEvents
  <2>. QED
    BY <2>1, <2>2
<1>11. NoticeFlags'
  <2>1. blind' = blind \/ blind' = TRUE
    BY <1>2
  <2>2. blind' \in BOOLEAN
    BY Zenon, <2>1 DEF NoticeInv, NoticeFlags
  <2>. QED
    BY Zenon, <1>1, <2>2 DEF NoticeInv, NoticeFlags
<1>. QED
  BY Zenon, <1>1, <1>3, <1>6, <1>9, <1>10, <1>11, TickMoves DEF NoticeInv, TickTyped

LEMMA ArmKept ==
  ASSUME NoticeInv, TickArms
  PROVE  NoticeInv'
<1>1. UNCHANGED <<instant, task, taskLog, settlements, taskMark, feedMark, schedule, alerted,
                  outdated, stopping, lapsed, built, wakeLater, up, blind>>
  BY DEF TickArms, sourceVars, projectionVars
<1>2. \/ sweep' = FreshTick
      \/ sweep' = [Resting EXCEPT !.at = "settling"]
  BY DEF TickArms
<1>3. /\ sweep' \in SweepRecord /\ sweep'.now <= instant
      /\ sweep'.at \notin {"off", "arm", "settling"} => sweep'.count < MaxSweeps
  <2>1. CASE sweep' = FreshTick
    BY <2>1, SweepFresh, NoticeAssumption DEF NoticeInv, TickTyped
  <2>2. PICK settling : settling = [Resting EXCEPT !.at = "settling"]
    OBVIOUS
  <2>3. settling \in SweepRecord /\ settling.at = "settling" /\ settling.now = 0
    BY Zenon, <2>2, SweepFresh
  <2>4. sweep' = FreshTick \/ sweep' = settling
    BY Zenon, <1>2, <2>2
  <2>5. 0 <= instant
    BY DEF NoticeInv, TickTyped
  <2>. QED
    BY <2>1, <2>3, <2>4, <2>5
<1>4. alarm' = {} \/ \E d \in 0 .. LastTime : alarm' = {d}
  <2>. SUFFICES ASSUME alarm' # {}
                PROVE  \E d \in 0 .. LastTime : alarm' = {d}
    OBVIOUS
  <2>. DEFINE first == CHOOSE t \in Upcoming : \A u \in Upcoming : DueAt[t] <= DueAt[u]
  <2>1. Upcoming # {} /\ alarm' = {DueAt[first]}
    BY DEF TickArms
  <2>2. Upcoming \subseteq Tasks
    BY DEF Upcoming, NoticeInv, FeedTyped
  <2>3. {DueAt[t] : t \in Upcoming} # {} /\ {DueAt[t] : t \in Upcoming} \subseteq Nat
    BY <2>1, <2>2, NoticeAssumption
  <2>4. PICK d \in {DueAt[t] : t \in Upcoming} : \A e \in {DueAt[t] : t \in Upcoming} : d <= e
    BY Zenon, <2>3, HasLeast
  <2>5. PICK t \in Upcoming : \A u \in Upcoming : DueAt[t] <= DueAt[u]
    BY <2>4
  <2>6. first \in Upcoming
    BY <2>5
  <2>. QED
    BY <2>1, <2>2, <2>6, NoticeAssumption
<1>5. margin' \in [NoticeEvents -> Nat]
  <2>1. CASE UNCHANGED margin
    BY <2>1 DEF NoticeInv, TickTyped
  <2>2. CASE Takes("errors")
    BY Zenon, <2>2, MarginTyped DEF NoticeEvents
  <2>. QED
    BY <2>1, <2>2 DEF TickArms
<1>6. NoticeFlags'
  <2>1. degraded' \in BOOLEAN
    BY Zenon DEF TickArms
  <2>. QED
    BY Zenon, <1>1, <2>1 DEF NoticeInv, NoticeFlags
<1>. QED
  BY Zenon, <1>1, <1>3, <1>4, <1>5, <1>6, TickMoves

LEMMA SettlesKept ==
  ASSUME NoticeInv, TickSettles
  PROVE  NoticeInv'
<1>1. UNCHANGED <<instant, task, taskLog, settlements, taskMark, feedMark, schedule, alerted,
                  outdated, stopping, lapsed, built, degraded, alarm, up, blind, margin>>
  BY DEF TickSettles, sourceVars, projectionVars
<1>2. sweep' = FreshTick \/ sweep' = Resting
  BY DEF TickSettles
<1>3. /\ sweep' \in SweepRecord /\ sweep'.now <= instant
      /\ sweep'.at \notin {"off", "arm", "settling"} => sweep'.count < MaxSweeps
  BY <1>2, SweepFresh, NoticeAssumption DEF NoticeInv, TickTyped
<1>4. NoticeFlags' /\ margin' \in [NoticeEvents -> Nat]
  BY <1>1 DEF NoticeInv, NoticeFlags, TickTyped, TickSettles
<1>. QED
  BY Zenon, <1>1, <1>3, <1>4, TickMoves DEF NoticeInv, TickTyped

LEMMA DeathKept ==
  ASSUME NoticeInv, ProjectorDies
  PROVE  NoticeInv'
<1>1. UNCHANGED <<instant, task, taskLog, settlements, taskMark, feedMark, schedule, alerted,
                  outdated, stopping, lapsed, built, degraded, blind>>
  BY DEF ProjectorDies, sourceVars, projectionVars
<1>2. alarm' = {} /\ sweep' = Resting /\ Takes("ends") /\ up' = FALSE /\ wakeLater' = FALSE
  BY DEF ProjectorDies
<1>3. /\ sweep' \in SweepRecord /\ sweep'.at = "off" /\ sweep'.now <= instant
  BY <1>2, SweepFresh DEF NoticeInv, TickTyped
<1>4. NoticeFlags' /\ margin' \in [NoticeEvents -> Nat]
  BY Zenon, <1>1, <1>2, MarginTyped DEF NoticeInv, NoticeFlags, NoticeEvents
<1>. QED
  BY Zenon, <1>1, <1>2, <1>3, <1>4, TickMoves

LEMMA StartKept ==
  ASSUME NoticeInv, ProjectorStarts
  PROVE  NoticeInv'
<1>1. UNCHANGED <<instant, task, taskLog, settlements, taskMark, feedMark, schedule, alerted,
                  outdated, lapsed, alarm, wakeLater, blind, margin>>
  BY DEF ProjectorStarts, projectionVars
<1>2. sweep' = FreshTick /\ up' = TRUE /\ built' = FALSE /\ degraded' = FALSE
  BY DEF ProjectorStarts
<1>3. /\ stopping' \in [paused : BOOLEAN, at : 0 .. LastTime]
      /\ stopping'.at = stopping.at \/ stopping'.at = instant
  BY DEF ProjectorStarts, NoticeInv, TickTyped
<1>4. RowsTyped' /\ \A t \in Tasks : Followed(t)'
  BY Zenon, <1>1, ProjectionStays DEF projectionVars
<1>5. FeedTyped' /\ NoticeFlags'
  BY <1>1, <1>2 DEF NoticeInv, FeedTyped, NoticeFlags
<1>6. sweep' \in SweepRecord /\ sweep'.count < MaxSweeps /\ sweep'.now <= instant
  BY <1>2, SweepFresh, NoticeAssumption DEF NoticeInv, TickTyped
<1>7. TickTyped' /\ ClockOrdered'
  BY <1>1, <1>3, <1>6 DEF NoticeInv, TickTyped, ClockOrdered
<1>8. \A t \in Tasks : Timely(t)'
  <2>. SUFFICES ASSUME NEW t \in Tasks PROVE Timely(t)'
    OBVIOUS
  <2>1. /\ Timely(t) /\ DueAt[t] \in 0 .. LastTime /\ instant \in Nat
        /\ stopping.at <= instant /\ stopping.at \in Nat
        /\ task[t].at <= instant /\ task[t].at \in Nat
    BY NoticeAssumption DEF NoticeInv, TickTyped, ClockOrdered, RowsTyped
  <2>. QED
    BY <1>1, <1>3, <2>1 DEF Timely, Silenced
<1>. QED
  BY <1>4, <1>5, <1>7, <1>8 DEF NoticeInv

(* A written task has an event to consume, and has not lapsed.              *)
LEMMA WriteKept ==
  ASSUME NoticeInv, NEW t \in Tasks, NEW is \in {"live", "done"}, TaskWritten(t, is)
  PROVE  NoticeInv'
<1>1. UNCHANGED <<instant, stopping, settlements, taskMark, feedMark, schedule, alerted, outdated,
                  built, degraded, alarm, up, blind>>
  BY DEF TaskWritten, projectionVars
<1>2. /\ task' = [task EXCEPT ![t] = [is |-> is, at |-> instant]]
      /\ task[t].is # "done"
      /\ taskLog' = Append(taskLog, t) /\ lapsed' = lapsed \ {t}
      /\ WakeUp /\ Takes("writes")
  BY DEF TaskWritten
<1>3. /\ task \in [Tasks -> [is : {"none", "live", "done"}, at : 0 .. LastTime]]
      /\ taskLog \in Seq(Tasks) /\ taskMark \in 0 .. Len(taskLog)
      /\ instant \in 0 .. LastTime
  BY DEF NoticeInv, RowsTyped, TickTyped
<1>4. /\ task' \in [Tasks -> [is : {"none", "live", "done"}, at : 0 .. LastTime]]
      /\ task'[t].at = instant /\ task'[t].is # "none"
      /\ \A u \in Tasks \ {t} : task'[u] = task[u]
  BY <1>2, <1>3
<1>5. /\ taskLog' \in Seq(Tasks) /\ Len(taskLog') = Len(taskLog) + 1
      /\ taskLog'[Len(taskLog) + 1] = t
      /\ \A i \in 1 .. Len(taskLog) : taskLog'[i] = taskLog[i]
  BY <1>2, <1>3
<1>6. RowsTyped'
  BY <1>1, <1>3, <1>4, <1>5 DEF NoticeInv, RowsTyped
<1>7. FeedTyped'
  BY <1>1, <1>2 DEF NoticeInv, FeedTyped
<1>8. margin' \in [NoticeEvents -> Nat]
  BY Zenon, <1>2, MarginTyped DEF NoticeEvents
<1>9. TickTyped'
  BY Zenon, <1>1, <1>2, <1>8, WakeTyped DEF NoticeInv, TickTyped
<1>10. ClockOrdered'
  BY <1>1, <1>2, <1>3, <1>4, WakeTyped DEF NoticeInv, ClockOrdered
<1>11. NoticeFlags'
  <2>1. wakeLater' \in BOOLEAN
    BY Zenon, <1>1, <1>2, WakeTyped
  <2>. QED
    BY Zenon, <1>1, <2>1 DEF NoticeInv, NoticeFlags
<1>12. ASSUME NEW u \in Tasks
       PROVE  Followed(u)' /\ Timely(u)'
  <2>1. Followed(u) /\ Timely(u)
    BY DEF NoticeInv
  <2>2. CASE u # t
    <3>1. task'[u] = task[u] /\ (u \in lapsed' <=> u \in lapsed)
      BY <1>2, <1>4, <2>2
    <3>2. Awaited(u) => Awaited(u)'
      <4>. SUFFICES ASSUME NEW i \in taskMark + 1 .. Len(taskLog), taskLog[i] = u
                    PROVE  \E k \in taskMark' + 1 .. Len(taskLog') : taskLog'[k] = u
        BY Zenon DEF Awaited
      <4>1. i \in 1 .. Len(taskLog) /\ i \in taskMark' + 1 .. Len(taskLog')
        BY SMTT(30), <1>1, <1>3, <1>5
      <4>2. taskLog'[i] = u
        BY <1>5, <4>1
      <4>. QED
        BY Zenon, <4>1, <4>2
    <3>3. Followed(u)'
      BY <1>1, <2>1, <3>1, <3>2 DEF Followed, Open
    <3>4. Timely(u)'
      BY <1>1, <2>1, <3>1 DEF Timely, Silenced
    <3>. QED
      BY <3>3, <3>4
  <2>3. CASE u = t
    <3>1. Awaited(t)'
      BY <1>1, <1>3, <1>5 DEF Awaited
    <3>2. t \in alerted => t \in schedule
      BY <1>2, <2>1, <2>3 DEF Followed
    <3>. QED
      BY <1>1, <1>2, <1>4, <2>1, <2>3, <3>1, <3>2 DEF Followed, Timely
  <2>. QED
    BY <2>2, <2>3
<1>. QED
  BY <1>6, <1>7, <1>9, <1>10, <1>11, <1>12 DEF NoticeInv

(* A batch of events brings the schedule of their tasks up to date, and     *)
(* keeps every alert either scheduled or, its task ended, outdated.         *)
LEMMA ProjectKept ==
  ASSUME NoticeInv, NEW events \in SUBSET Tasks, Project(events), UNCHANGED <<task, alerted, lapsed>>
  PROVE  /\ FeedTyped'
         /\ \A t \in events : t \in schedule' <=> Open(t)
         /\ \A t \in Tasks \ events : t \in schedule' <=> t \in schedule
         /\ \A t \in alerted : t \in schedule' \/ (task[t].is = "done" /\ t \in outdated')
<1>1. /\ schedule' = (schedule \ events) \union {t \in events : Open(t)}
      /\ outdated' = outdated \union
                       {t \in events \intersect schedule \intersect alerted : ~ Open(t)}
  BY DEF Project
<1>2. /\ schedule \subseteq Tasks /\ alerted \subseteq Tasks
      /\ outdated \subseteq alerted /\ lapsed \subseteq Tasks
  BY DEF NoticeInv, FeedTyped
<1>3. FeedTyped'
  BY <1>1, <1>2 DEF FeedTyped
<1>4. \A t \in alerted : t \in schedule' \/ (task[t].is = "done" /\ t \in outdated')
  <2>. SUFFICES ASSUME NEW t \in alerted
                PROVE  t \in schedule' \/ (task[t].is = "done" /\ t \in outdated')
    OBVIOUS
  <2>1. /\ task[t].is \in {"none", "live", "done"} /\ task[t].is # "none"
        /\ t \in schedule \/ (task[t].is = "done" /\ t \in outdated)
    BY <1>2 DEF NoticeInv, Followed, RowsTyped
  <2>. QED
    BY <1>1, <1>2, <2>1 DEF Open
<1>. QED
  BY <1>1, <1>3, <1>4

(* One batch of events: what is no longer awaited was in the batch.         *)
LEMMA IngestsKept ==
  ASSUME NoticeInv, Ingest, UNCHANGED <<task, taskLog, settlements, alerted, lapsed>>
  PROVE  RowsTyped' /\ FeedTyped' /\ \A t \in Tasks : Followed(t)'
<1>. DEFINE last == Least(taskMark + EventBatch, Len(taskLog))
            events == {taskLog[i] : i \in taskMark + 1 .. last}
<1>1. Project(events) /\ taskMark' = last /\ feedMark' = Least(feedMark + EventBatch, settlements)
  BY DEF Ingest
<1>2. /\ taskLog \in Seq(Tasks) /\ taskMark \in 0 .. Len(taskLog) /\ Len(taskLog) \in Nat
      /\ settlements \in Nat /\ feedMark \in 0 .. settlements /\ EventBatch \in Nat \ {0}
  BY NoticeAssumption DEF NoticeInv, RowsTyped
<1>3. last \in taskMark .. Len(taskLog)
  BY <1>2 DEF Least
<1>4. feedMark' \in 0 .. settlements
  BY <1>1, <1>2 DEF Least
<1>. HIDE DEF last
<1>5. events \in SUBSET Tasks
  BY <1>2, <1>3
<1>6. \A t \in Tasks \ events : Awaited(t) => Awaited(t)'
  <2>. SUFFICES ASSUME NEW t \in Tasks \ events, Awaited(t)
                PROVE  Awaited(t)'
    OBVIOUS
  <2>1. PICK i \in taskMark + 1 .. Len(taskLog) : taskLog[i] = t
    BY DEF Awaited
  <2>2. i \notin taskMark + 1 .. last
    BY <2>1
  <2>3. i \in last + 1 .. Len(taskLog)
    BY <1>2, <1>3, <2>1, <2>2
  <2>. QED
    BY <1>1, <2>1, <2>3 DEF Awaited
<1>. HIDE DEF events
<1>7. /\ FeedTyped'
      /\ \A t \in events : t \in schedule' <=> Open(t)
      /\ \A t \in Tasks \ events : t \in schedule' <=> t \in schedule
      /\ \A t \in alerted : t \in schedule' \/ (task[t].is = "done" /\ t \in outdated')
  BY Zenon, <1>1, <1>5, ProjectKept
<1>8. RowsTyped'
  BY <1>1, <1>2, <1>3, <1>4 DEF NoticeInv, RowsTyped
<1>9. \A t \in Tasks : Followed(t)'
  BY <1>6, <1>7 DEF NoticeInv, Followed, Open
<1>. QED
  BY <1>7, <1>8, <1>9

LEMMA IngestKept ==
  ASSUME NoticeInv, TickIngests
  PROVE  NoticeInv'
<1>1. UNCHANGED <<instant, task, taskLog, settlements, alerted, stopping, lapsed, built, alarm,
                  wakeLater, up, blind>>
  BY DEF TickIngests, sourceVars
<1>2. sweep.at = "ingest" /\ sweep.count < MaxSweeps /\ sweep.now <= instant /\ sweep \in SweepRecord
  BY DEF TickIngests, NoticeInv, TickTyped, ClockOrdered
<1>3. CASE /\ Ingest
           /\ sweep' = [sweep EXCEPT !.at = "build",
                                     !.moved = taskMark' > taskMark \/ feedMark' > feedMark]
           /\ UNCHANGED <<degraded, margin>>
  <2>1. RowsTyped' /\ FeedTyped' /\ \A t \in Tasks : Followed(t)'
    BY Zenon, <1>1, <1>3, IngestsKept
  <2>2. PICK moved \in BOOLEAN : moved = (taskMark' > taskMark \/ feedMark' > feedMark)
    OBVIOUS
  <2>3. sweep' = [sweep EXCEPT !.at = "build", !.moved = moved]
    BY Zenon, <1>3, <2>2
  <2>4. /\ sweep' \in SweepRecord /\ sweep'.at = "build" /\ sweep'.count = sweep.count
        /\ sweep'.now = sweep.now
    BY <1>2, <2>3 DEF SweepRecord, SweepAt
  <2>5. TickTyped' /\ NoticeFlags'
    BY <1>1, <1>2, <1>3, <2>4 DEF NoticeInv, TickTyped, NoticeFlags
  <2>6. ClockOrdered'
    BY <1>1, <1>2, <2>4 DEF NoticeInv, ClockOrdered
  <2>7. \A t \in Tasks : Timely(t)'
    BY <1>1, TimelyStays DEF NoticeInv, TickTyped
  <2>. QED
    BY <2>1, <2>5, <2>6, <2>7 DEF NoticeInv
<1>4. CASE Degrades("build") /\ UNCHANGED <<taskMark, feedMark, schedule, outdated>>
  <2>1. "build" \in SweepAt
    BY DEF SweepAt
  <2>2. /\ sweep' \in SweepRecord /\ sweep'.at = "build" /\ sweep'.count = sweep.count
        /\ sweep'.now = sweep.now /\ degraded' = TRUE /\ margin' \in [NoticeEvents -> Nat]
    BY Zenon, <1>4, <2>1, DegradesTyped
  <2>3. NoticeFlags'
    BY Zenon, <1>1, <2>2 DEF NoticeInv, NoticeFlags
  <2>. QED
    BY Zenon, <1>1, <1>2, <1>4, <2>2, <2>3, TickMoves DEF NoticeInv, TickTyped
<1>. QED
  BY <1>3, <1>4 DEF TickIngests

LEMMA BuildKept ==
  ASSUME NoticeInv, TickBuilds
  PROVE  NoticeInv'
<1>1. UNCHANGED <<instant, task, taskLog, taskMark, feedMark, settlements, alerted, stopping, lapsed,
                  alarm, wakeLater, up, blind>>
  BY DEF TickBuilds, sourceVars
<1>2. sweep.at = "build" /\ sweep.count < MaxSweeps /\ sweep.now <= instant
  BY DEF TickBuilds, NoticeInv, TickTyped, ClockOrdered
<1>3. "record" \in SweepAt
  BY DEF SweepAt
<1>4. CASE /\ IF built THEN UNCHANGED <<schedule, outdated>> ELSE Project(Tasks)
           /\ built' = TRUE
           /\ StepTo("record")
           /\ UNCHANGED <<degraded, margin>>
  <2>1. /\ sweep' \in SweepRecord /\ sweep'.at = "record" /\ sweep'.count = sweep.count
        /\ sweep'.now = sweep.now
    BY Zenon, <1>3, <1>4, StepTyped
  <2>2. NoticeFlags' /\ margin' \in [NoticeEvents -> Nat]
    BY <1>1, <1>4 DEF NoticeInv, NoticeFlags, TickTyped
  <2>3. CASE built
    BY Zenon, <1>1, <1>2, <1>4, <2>1, <2>2, <2>3, TickMoves DEF NoticeInv, TickTyped
  <2>4. CASE ~ built
    <3>1. /\ FeedTyped'
          /\ \A t \in Tasks : t \in schedule' <=> Open(t)
          /\ \A t \in alerted : t \in schedule' \/ (task[t].is = "done" /\ t \in outdated')
      BY Zenon, <1>1, <1>4, <2>4, ProjectKept
    <3>2. RowsTyped' /\ \A t \in Tasks : Followed(t)'
      BY <1>1, <3>1 DEF NoticeInv, RowsTyped, Followed, Open
    <3>3. TickTyped' /\ ClockOrdered'
      BY <1>1, <1>2, <2>1, <2>2 DEF NoticeInv, TickTyped, ClockOrdered
    <3>4. \A t \in Tasks : Timely(t)'
      BY <1>1, TimelyStays DEF NoticeInv, TickTyped
    <3>. QED
      BY <2>2, <3>1, <3>2, <3>3, <3>4 DEF NoticeInv
  <2>. QED
    BY <2>3, <2>4
<1>5. CASE ~ built /\ Degrades("record") /\ UNCHANGED <<schedule, outdated, built>>
  <2>1. /\ sweep' \in SweepRecord /\ sweep'.at = "record" /\ sweep'.count = sweep.count
        /\ sweep'.now = sweep.now /\ degraded' = TRUE /\ margin' \in [NoticeEvents -> Nat]
    BY Zenon, <1>3, <1>5, DegradesTyped
  <2>2. NoticeFlags'
    BY Zenon, <1>1, <1>5, <2>1 DEF NoticeInv, NoticeFlags
  <2>. QED
    BY Zenon, <1>1, <1>2, <1>5, <2>1, <2>2, TickMoves DEF NoticeInv, TickTyped
<1>. QED
  BY <1>4, <1>5 DEF TickBuilds

(* Deadlines are announced for open tasks whose time has come and that the  *)
(* last control write does not silence; what they leave is outdated.        *)
LEMMA RecordKept ==
  ASSUME NoticeInv, TickRecords
  PROVE  NoticeInv'
<1>1. UNCHANGED <<instant, task, taskLog, taskMark, feedMark, settlements, stopping, lapsed, built,
                  alarm, wakeLater, up, blind>>
  BY DEF TickRecords, sourceVars
<1>2. sweep.at = "record" /\ sweep.count < MaxSweeps /\ sweep.now <= instant /\ sweep \in SweepRecord
  BY DEF TickRecords, NoticeInv, TickTyped, ClockOrdered
<1>3. "again" \in SweepAt
  BY DEF SweepAt
<1>4. CASE Degrades("again") /\ UNCHANGED <<alerted, schedule, outdated>>
  <2>1. /\ sweep' \in SweepRecord /\ sweep'.at = "again" /\ sweep'.count = sweep.count
        /\ sweep'.now = sweep.now /\ degraded' = TRUE /\ margin' \in [NoticeEvents -> Nat]
    BY Zenon, <1>3, <1>4, DegradesTyped
  <2>2. NoticeFlags'
    BY Zenon, <1>1, <2>1 DEF NoticeInv, NoticeFlags
  <2>. QED
    BY Zenon, <1>1, <1>2, <1>4, <2>1, <2>2, TickMoves DEF NoticeInv, TickTyped
<1>5. CASE ~ (Degrades("again") /\ UNCHANGED <<alerted, schedule, outdated>>)
  <2>1. PICK dues : dues = (IF stopping.paused THEN {}
                            ELSE {t \in schedule : DueAt[t] <= sweep.now})
    OBVIOUS
  <2>2. PICK new : new = {t \in dues \ alerted : Open(t) /\ ~ Silenced(t)}
    OBVIOUS
  <2>3. /\ alerted' = alerted \union new
        /\ schedule' = {t \in schedule : t \in dues => Open(t)}
        /\ outdated' = outdated \union {t \in dues \intersect alerted : ~ Open(t)}
        /\ sweep' = [sweep EXCEPT !.at = "again", !.moved = @ \/ new # {}]
        /\ UNCHANGED <<degraded, margin>>
    BY <1>5, <2>1, <2>2 DEF TickRecords
  <2>4. dues \subseteq schedule /\ \A t \in dues : DueAt[t] <= sweep.now
    BY <2>1
  <2>5. new \subseteq dues /\ \A t \in new : Open(t) /\ ~ Silenced(t)
    BY <2>2
  <2>6. RowsTyped'
    BY <1>1 DEF NoticeInv, RowsTyped
  <2>7. FeedTyped'
    BY <1>1, <2>3, <2>4, <2>5 DEF NoticeInv, FeedTyped
  <2>8. PICK moved \in BOOLEAN : moved = (sweep.moved \/ new # {})
    OBVIOUS
  <2>9. sweep' = [sweep EXCEPT !.at = "again", !.moved = moved]
    BY Zenon, <2>3, <2>8
  <2>10. /\ sweep' \in SweepRecord /\ sweep'.at = "again" /\ sweep'.count = sweep.count
         /\ sweep'.now = sweep.now
    BY <1>2, <1>3, <2>9 DEF SweepRecord
  <2>11. TickTyped' /\ ClockOrdered'
    BY <1>1, <1>2, <2>3, <2>10 DEF NoticeInv, TickTyped, ClockOrdered
  <2>12. NoticeFlags'
    BY <1>1, <2>3 DEF NoticeInv, NoticeFlags
  <2>13. ASSUME NEW t \in Tasks
         PROVE  Followed(t)' /\ Timely(t)'
    <3>1. /\ Followed(t) /\ Timely(t)
          /\ task[t].is \in {"none", "live", "done"}
          /\ schedule \subseteq Tasks /\ alerted \subseteq Tasks
      BY DEF NoticeInv, RowsTyped, FeedTyped
    <3>2. Awaited(t)' <=> Awaited(t)
      BY <1>1 DEF Awaited
    <3>3. t \in schedule' <=> t \in schedule /\ (t \in dues => Open(t))
      BY <2>3
    <3>4. t \in outdated' <=> t \in outdated \/ (t \in dues /\ t \in alerted /\ ~ Open(t))
      BY <2>3
    <3>5. t \in alerted' <=> t \in alerted \/ t \in new
      BY <2>3
    <3>6. Followed(t)'
      BY <1>1, <2>4, <2>5, <3>1, <3>2, <3>3, <3>4, <3>5 DEF Followed, Open
    <3>7. t \in alerted' => DueAt[t] <= instant
      BY <1>2, <2>4, <2>5, <3>1, <3>5, NoticeAssumption
         DEF Timely, SweepRecord, NoticeInv, TickTyped
    <3>8. Silenced(t)' <=> Silenced(t)
      BY <1>1 DEF Silenced
    <3>9. Timely(t)'
      BY <1>1, <2>5, <3>1, <3>5, <3>7, <3>8 DEF Timely
    <3>. QED
      BY <3>6, <3>9
  <2>. QED
    BY <2>6, <2>7, <2>11, <2>12, <2>13 DEF NoticeInv
<1>. QED
  BY <1>4, <1>5

LEMMA NoticeStarts ==
  ASSUME NoticeInit
  PROVE  NoticeInv
<1>1. Resting \in SweepRecord /\ Resting.at = "off" /\ Resting.now = 0
  BY NoticeAssumption DEF Resting, SweepRecord, SweepAt
<1>2. RowsTyped /\ FeedTyped
  BY NoticeAssumption DEF NoticeInit, RowsTyped, FeedTyped
<1>3. TickTyped
  BY <1>1, NoticeAssumption DEF NoticeInit, TickTyped
<1>4. NoticeFlags
  BY Zenon DEF NoticeInit, NoticeFlags
<1>5. ClockOrdered
  BY <1>1 DEF NoticeInit, ClockOrdered
<1>6. \A t \in Tasks : Followed(t) /\ Timely(t)
  BY DEF NoticeInit, Followed, Timely, Open
<1>. QED
  BY <1>2, <1>3, <1>4, <1>5, <1>6 DEF NoticeInv

LEMMA NoticeStep ==
  ASSUME NoticeInv, [NoticeNext]_noticeVars
  PROVE  NoticeInv'
<1>1. CASE \E t \in Tasks, is \in {"live", "done"} : TaskWritten(t, is)
  BY Zenon, <1>1, WriteKept
<1>2. CASE SourceSettles
  BY Zenon, <1>2, SettlementKept
<1>3. CASE \E paused \in BOOLEAN : ControlWritten(paused)
  BY Zenon, <1>3, ControlKept
<1>4. CASE TimePasses
  BY Zenon, <1>4, TimeKept
<1>5. CASE TimerFires
  BY Zenon, <1>5, TimerKept
<1>6. CASE TickStep
  BY Zenon, <1>6, ListKept, IngestKept, BuildKept, RecordKept, AgainKept, ArmKept, SettlesKept DEF TickStep
<1>7. CASE ProjectorDies
  BY Zenon, <1>7, DeathKept
<1>8. CASE ProjectorStarts
  BY Zenon, <1>8, StartKept
<1>9. CASE UNCHANGED noticeVars
  <2>1. NoticeFlags' /\ margin' \in [NoticeEvents -> Nat]
    BY <1>9 DEF noticeVars, projectorVars, NoticeInv, NoticeFlags, TickTyped
  <2>. QED
    BY Zenon, <1>9, <2>1, TickMoves
       DEF noticeVars, sourceVars, projectionVars, projectorVars, NoticeInv, TickTyped, ClockOrdered
<1>. QED
  BY <1>1, <1>2, <1>3, <1>4, <1>5, <1>6, <1>7, <1>8, <1>9 DEF NoticeNext

(* What the invariant says covers the types and the safety of the alerts.   *)
LEMMA NoticeInvTyped ==
  ASSUME NoticeInv
  PROVE  NoticeTypeOK
<1>1. IsFiniteSet(alarm) /\ Cardinality(alarm) <= 1
  <2>1. CASE alarm = {}
    BY <2>1, FS_EmptySet
  <2>2. CASE \E d \in 0 .. LastTime : alarm = {d}
    BY <2>2, FS_Singleton
  <2>. QED
    BY <2>1, <2>2 DEF NoticeInv, TickTyped
<1>2. alarm \subseteq 0 .. LastTime
  BY DEF NoticeInv, TickTyped
<1>3. /\ sweep.at \in SweepAt /\ sweep.now \in 0 .. instant /\ sweep.count \in 0 .. MaxSweeps
      /\ sweep.clean \in BOOLEAN /\ sweep.moved \in BOOLEAN
  BY DEF NoticeInv, TickTyped, ClockOrdered, SweepRecord
<1>4. {built, degraded, wakeLater, up, blind, sweep.clean, sweep.moved} \subseteq BOOLEAN
  BY Zenon, <1>3 DEF NoticeInv, NoticeFlags
<1>. QED
  BY <1>1, <1>2, <1>3, <1>4 DEF NoticeInv, RowsTyped, FeedTyped, TickTyped, NoticeTypeOK, SweepAt

LEMMA NoticeInvSafe ==
  ASSUME NoticeInv
  PROVE  NotifySafe
<1>1. ScheduleFollows
  BY DEF ScheduleFollows, NoticeInv, Followed, Awaited, Open
<1>2. AlertIsTimely
  BY DEF AlertIsTimely, NoticeInv, Timely, FeedTyped
<1>. QED
  BY <1>1, <1>2 DEF NotifySafe

(* The schedule of deadlines follows the tasks, and no deadline is          *)
(* announced early or caught up with after a stop (ingestNotifications,     *)
(* recordDueDeadlines, buildDeadlineSchedule), for any tasks, batches,      *)
(* failed calls and restarts.                                               *)
THEOREM NotifySound == NoticeSpec => []NotifySafe
<1>1. NoticeInit => NoticeInv
  BY Zenon, NoticeStarts
<1>2. NoticeInv /\ [NoticeNext]_noticeVars => NoticeInv'
  BY Zenon, NoticeStep
<1>3. NoticeInv => NotifySafe
  BY Zenon, NoticeInvSafe
<1>. QED
  BY <1>1, <1>2, <1>3, PTL DEF NoticeSpec

(***************************************************************************)
(* Shadow deliberation.                                                     *)
(***************************************************************************)
JobRow == [scope : Scopes, kind : {"change", "request"},
           status : {"pending", "claimed"} \union Terminal0,
           control : Nat, epoch : Nat, applies : BOOLEAN]
DrainRecord == [at : {"off", "top", "recall", "chat"}, done : 0 .. ShadowBatch, second : BOOLEAN,
                job : Nat]

(* The tables of the store.                                                 *)
ShadowTables ==
  /\ policy \in [paused : BOOLEAN, version : Nat]
  /\ epoch \in [Scopes -> Nat]
  /\ applies \in [Scopes -> BOOLEAN]
  /\ jobs \in Seq(JobRow) /\ Len(jobs) <= MaxJobs
  /\ due \in [Scopes -> [job : 0 .. Len(jobs), epoch : Nat]]
  /\ drifted \subseteq 1 .. Len(jobs)

(* No two jobs are claimed, none waits under a pause, and a job whose       *)
(* ground moved was claimed by then and is not decided.                     *)
LoneClaim ==
  \A i, j \in 1 .. Len(jobs) : jobs[i].status = "claimed" /\ jobs[j].status = "claimed" => i = j
NoneWaits == policy.paused => \A j \in 1 .. Len(jobs) : jobs[j].status # "pending"
DriftedUndecided == \A j \in drifted : jobs[j].status \notin {"pending", "completed"}

(* The job that answers for a change is of its scope, and its frozen epoch  *)
(* is no older than the change once it is claimed.                          *)
Answered(s) ==
  due[s].job # 0 =>
    /\ jobs[due[s].job].scope = s
    /\ due[s].epoch <= epoch[s]
    /\ jobs[due[s].job].status \in {"claimed", "completed"} =>
         due[s].epoch <= jobs[due[s].job].epoch

ShadowStore ==
  /\ ShadowTables
  /\ LoneClaim
  /\ NoneWaits
  /\ DriftedUndecided
  /\ \A s \in Scopes : Answered(s)

(* The fences of a completion that see what moved since the claim.          *)
Moved(j) ==
  \/ policy.version # jobs[j].control
  \/ epoch[jobs[j].scope] # jobs[j].epoch
  \/ lateLease
  \/ applies[jobs[j].scope] # jobs[j].applies

(* What a job froze at its claim is in force or behind, and the fences see  *)
(* that its ground moved.                                                   *)
Frozen(j) ==
  /\ jobs[j].status = "claimed"
  /\ jobs[j].control <= policy.version
  /\ jobs[j].epoch <= epoch[jobs[j].scope]
  /\ applies[jobs[j].scope] => jobs[j].applies
  /\ j \in drifted => Moved(j)

ShadowWork ==
  /\ drain \in DrainRecord
  /\ drain.job <= Len(jobs)
  /\ Awaiting => drain.job # 0 /\ drain.done < ShadowBatch
  /\ drain.at = "chat" => Frozen(drain.job)
  /\ drain.at # "chat" /\ ~ faulted => \A j \in 1 .. Len(jobs) : jobs[j].status # "claimed"

ShadowFlags ==
  /\ wakeQueued \in BOOLEAN
  /\ cut \in BOOLEAN
  /\ wall \in BOOLEAN
  /\ lateLease \in BOOLEAN
  /\ active \in BOOLEAN
  /\ closing \in BOOLEAN
  /\ faulted \in BOOLEAN
  /\ holder \in {"free", "shadow", "other"}
  /\ allow \in [Happenings -> Nat]

ShadowInv == ShadowStore /\ ShadowWork /\ ShadowFlags

(* The parts of a job that its status leaves alone.                         *)
SameGround(k) ==
  /\ jobs'[k].scope = jobs[k].scope
  /\ jobs'[k].kind = jobs[k].kind
  /\ jobs'[k].control = jobs[k].control
  /\ jobs'[k].epoch = jobs[k].epoch
  /\ jobs'[k].applies = jobs[k].applies

LEMMA StatusSet ==
  ASSUME ShadowTables, NEW j \in 1 .. Len(jobs),
         NEW st \in {"pending", "claimed"} \union Terminal0,
         jobs' = [jobs EXCEPT ![j].status = st]
  PROVE  /\ jobs' \in Seq(JobRow) /\ Len(jobs') = Len(jobs)
         /\ \A k \in 1 .. Len(jobs) : SameGround(k)
         /\ jobs'[j].status = st
         /\ \A k \in 1 .. Len(jobs) \ {j} : jobs'[k].status = jobs[k].status
<1>1. jobs \in Seq(JobRow) /\ jobs[j] \in JobRow
  BY DEF ShadowTables
<1>2. PICK row : row = [jobs[j] EXCEPT !.status = st]
  OBVIOUS
<1>3. /\ row \in JobRow /\ row.status = st /\ row.scope = jobs[j].scope /\ row.kind = jobs[j].kind
      /\ row.control = jobs[j].control /\ row.epoch = jobs[j].epoch /\ row.applies = jobs[j].applies
  BY <1>1, <1>2 DEF JobRow
<1>4. jobs' = [jobs EXCEPT ![j] = row]
  BY Zenon, <1>2
<1>5. /\ jobs' \in Seq(JobRow) /\ Len(jobs') = Len(jobs) /\ jobs'[j] = row
      /\ \A k \in 1 .. Len(jobs) \ {j} : jobs'[k] = jobs[k]
  BY <1>1, <1>3, <1>4
<1>. QED
  BY <1>3, <1>5 DEF SameGround

LEMMA StatusesHeld ==
  ASSUME ShadowTables, NEW from, HoldAll(from)
  PROVE  /\ jobs' \in Seq(JobRow) /\ Len(jobs') = Len(jobs)
         /\ \A k \in 1 .. Len(jobs) : SameGround(k)
         /\ \A k \in 1 .. Len(jobs) :
              jobs'[k].status = IF jobs[k].status \in from THEN "held" ELSE jobs[k].status
<1>1. jobs \in Seq(JobRow) /\ DOMAIN jobs = 1 .. Len(jobs) /\ Len(jobs) \in Nat
  BY DEF ShadowTables
<1>. DEFINE row(k) == IF jobs[k].status \in from THEN [jobs[k] EXCEPT !.status = "held"] ELSE jobs[k]
<1>2. jobs' = [k \in 1 .. Len(jobs) |-> row(k)]
  BY <1>1 DEF HoldAll
<1>3. \A k \in 1 .. Len(jobs) :
        /\ row(k) \in JobRow /\ row(k).scope = jobs[k].scope /\ row(k).kind = jobs[k].kind
        /\ row(k).control = jobs[k].control /\ row(k).epoch = jobs[k].epoch
        /\ row(k).applies = jobs[k].applies
        /\ row(k).status = IF jobs[k].status \in from THEN "held" ELSE jobs[k].status
  <2>. SUFFICES ASSUME NEW k \in 1 .. Len(jobs)
                PROVE  /\ row(k) \in JobRow /\ row(k).scope = jobs[k].scope
                       /\ row(k).kind = jobs[k].kind
                       /\ row(k).control = jobs[k].control /\ row(k).epoch = jobs[k].epoch
                       /\ row(k).applies = jobs[k].applies
                       /\ row(k).status = IF jobs[k].status \in from THEN "held" ELSE jobs[k].status
    OBVIOUS
  <2>1. jobs[k] \in JobRow
    BY <1>1
  <2>. QED
    BY <2>1 DEF JobRow, Terminal0
<1>. HIDE DEF row
<1>4. jobs' \in Seq(JobRow) /\ Len(jobs') = Len(jobs)
  BY <1>1, <1>2, <1>3
<1>. QED
  BY <1>2, <1>3, <1>4 DEF SameGround

(* A job is added; it waits only when nothing is paused.                    *)
LEMMA JobAppended ==
  ASSUME ShadowTables, NEW s \in Scopes, NEW kind \in {"change", "request"},
         NEW st \in {"pending", "held"}, jobs' = Append(jobs, NewJob(s, kind, st))
  PROVE  /\ jobs' \in Seq(JobRow) /\ Len(jobs') = Len(jobs) + 1
         /\ \A k \in 1 .. Len(jobs) : jobs'[k] = jobs[k]
         /\ jobs'[Len(jobs) + 1].status = st /\ jobs'[Len(jobs) + 1].scope = s
<1>1. PICK row : row = NewJob(s, kind, st)
  OBVIOUS
<1>2. row \in JobRow /\ row.status = st /\ row.scope = s
  BY <1>1 DEF NewJob, JobRow, Terminal0
<1>. QED
  BY <1>1, <1>2 DEF ShadowTables

(* No new job, and none comes to wait or to be claimed: the store keeps     *)
(* what it says of its rows while the ground moves forward.                 *)
LEMMA StoreKept ==
  ASSUME ShadowStore,
         policy' \in [paused : BOOLEAN, version : Nat],
         epoch' \in [Scopes -> Nat], \A s \in Scopes : epoch[s] <= epoch'[s],
         applies' \in [Scopes -> BOOLEAN],
         due' = due,
         jobs' \in Seq(JobRow), Len(jobs') = Len(jobs),
         \A k \in 1 .. Len(jobs) : SameGround(k),
         \A k \in 1 .. Len(jobs) :
            \/ jobs'[k].status = jobs[k].status
            \/ jobs'[k].status \in {"held", "failed", "cancelled"}
            \/ jobs[k].status = "claimed" /\ jobs'[k].status = "completed" /\ k \notin drifted',
         drifted' \subseteq 1 .. Len(jobs),
         \A k \in drifted' \ drifted : jobs[k].status = "claimed",
         NoneWaits'
  PROVE  ShadowStore'
<1>1. ShadowTables'
  BY DEF ShadowStore, ShadowTables
<1>2. LoneClaim'
  BY DEF ShadowStore, LoneClaim
<1>3. DriftedUndecided'
  BY DEF ShadowStore, ShadowTables, DriftedUndecided
<1>4. ASSUME NEW s \in Scopes PROVE Answered(s)'
  <2>. SUFFICES ASSUME due[s].job # 0
                PROVE  /\ jobs'[due[s].job].scope = s
                       /\ due[s].epoch <= epoch'[s]
                       /\ jobs'[due[s].job].status \in {"claimed", "completed"} =>
                            due[s].epoch <= jobs'[due[s].job].epoch
    BY DEF Answered
  <2>1. /\ due[s].job \in 1 .. Len(jobs) /\ due[s].epoch \in Nat
        /\ epoch[s] \in Nat /\ epoch'[s] \in Nat /\ epoch[s] <= epoch'[s]
        /\ Answered(s)
    BY DEF ShadowStore, ShadowTables
  <2>2. jobs'[due[s].job].status \in {"claimed", "completed"} =>
          jobs[due[s].job].status \in {"claimed", "completed"}
    BY <2>1
  <2>3. SameGround(due[s].job)
    BY <2>1
  <2>. QED
    BY <2>1, <2>2, <2>3 DEF Answered, SameGround
<1>. QED
  BY <1>1, <1>2, <1>3, <1>4 DEF ShadowStore

(* What the fences see of a job they keep seeing.                           *)
LEMMA MovedStays ==
  ASSUME ShadowTables, ShadowTables', NEW j \in 1 .. Len(jobs), Len(jobs) <= Len(jobs'),
         SameGround(j), Frozen(j), jobs'[j].status = "claimed", lateLease' = lateLease,
         policy.version <= policy'.version,
         \A s \in Scopes : epoch[s] <= epoch'[s] /\ (applies'[s] => applies[s]),
         j \in drifted' => j \in drifted \/ Moved(j)'
  PROVE  Frozen(j)'
<1>1. /\ jobs[j] \in JobRow /\ jobs'[j] \in JobRow
      /\ policy.version \in Nat /\ policy'.version \in Nat
      /\ epoch \in [Scopes -> Nat] /\ epoch' \in [Scopes -> Nat]
  BY DEF ShadowTables
<1>2. PICK s \in Scopes : s = jobs[j].scope
  BY <1>1 DEF JobRow
<1>3. /\ jobs'[j].scope = s /\ jobs'[j].control = jobs[j].control /\ jobs'[j].epoch = jobs[j].epoch
      /\ jobs'[j].applies = jobs[j].applies
      /\ jobs[j].control \in Nat /\ jobs[j].epoch \in Nat /\ jobs[j].applies \in BOOLEAN
  BY <1>1, <1>2 DEF SameGround, JobRow
<1>4. /\ jobs[j].control <= policy.version /\ jobs[j].epoch <= epoch[s]
      /\ applies[s] => jobs[j].applies
      /\ epoch[s] \in Nat /\ epoch'[s] \in Nat /\ epoch[s] <= epoch'[s]
      /\ applies'[s] => applies[s]
  BY <1>1, <1>2 DEF Frozen
<1>5. applies[s] \in BOOLEAN /\ applies'[s] \in BOOLEAN
  BY DEF ShadowTables
<1>6. jobs'[j].control <= policy'.version /\ jobs'[j].epoch <= epoch'[s]
  BY <1>1, <1>3, <1>4
<1>7. Moved(j) => Moved(j)'
  <2>1. policy.version # jobs[j].control => policy'.version # jobs'[j].control
    BY <1>1, <1>3, <1>4
  <2>2. epoch[s] # jobs[j].epoch => epoch'[s] # jobs'[j].epoch
    BY <1>3, <1>4
  <2>3. applies[s] # jobs[j].applies => applies'[s] # jobs'[j].applies
    BY <1>3, <1>4, <1>5
  <2>. QED
    BY <1>2, <1>3, <2>1, <2>2, <2>3 DEF Moved
<1>8. j \in drifted' => Moved(j)'
  BY <1>7 DEF Frozen
<1>9. applies'[s] => jobs'[j].applies
  BY <1>3, <1>4
<1>. QED
  BY <1>3, <1>6, <1>8, <1>9 DEF Frozen

(* A wake joins the tick under way or starts one.                           *)
WakesTick == drain' = drain \/ (drain.at = "off" /\ drain' = StartTick(FALSE))

LEMMA TickStarts ==
  ASSUME NEW second \in BOOLEAN
  PROVE  /\ StartTick(second) \in DrainRecord /\ StartTick(second).at = "top"
         /\ StartTick(second).job = 0
         /\ NoTick \in DrainRecord /\ NoTick.at = "off" /\ NoTick.job = 0
<1>1. 0 \in 0 .. ShadowBatch
  BY ShadowAssumption
<1>2. NoTick \in DrainRecord /\ NoTick.at = "off" /\ NoTick.job = 0
  BY <1>1 DEF NoTick, DrainRecord
<1>3. PICK rest : rest = NoTick
  OBVIOUS
<1>4. PICK start : start = [rest EXCEPT !.at = "top", !.second = second]
  OBVIOUS
<1>5. start \in DrainRecord /\ start.at = "top" /\ start.job = 0
  BY <1>2, <1>3, <1>4 DEF DrainRecord
<1>6. StartTick(second) = start
  BY Zenon, <1>3, <1>4 DEF StartTick
<1>. QED
  BY <1>2, <1>5, <1>6

LEMMA WakeMoves ==
  ASSUME ShadowInv, Wake
  PROVE  WakesTick /\ cut' \in BOOLEAN /\ wakeQueued' \in BOOLEAN
<1>1. WakesTick
  BY DEF Wake, WakesTick
<1>2. cut' \in BOOLEAN /\ wakeQueued' \in BOOLEAN
  BY Zenon DEF Wake, ShadowInv, ShadowFlags
<1>. QED
  BY <1>1, <1>2

LEMMA SpendTyped ==
  ASSUME ShadowInv, NEW what \in Happenings, Spend(what)
  PROVE  /\ allow' \in [Happenings -> Nat] /\ faulted' \in BOOLEAN
         /\ faulted => faulted'
         /\ what = "faults" => faulted'
<1>1. allow' \in [Happenings -> Nat]
  BY DEF Spend, ShadowInv, ShadowFlags
<1>2. faulted' \in BOOLEAN /\ (faulted => faulted') /\ (what = "faults" => faulted')
  BY Zenon DEF Spend, ShadowInv, ShadowFlags
<1>. QED
  BY <1>1, <1>2

(* The worker's own state through a step that claims and releases nothing.  *)
LEMMA WorkStays ==
  ASSUME ShadowInv, ShadowTables', WakesTick, lateLease' = lateLease,
         faulted => faulted',
         policy.version <= policy'.version,
         \A s \in Scopes : epoch[s] <= epoch'[s] /\ (applies'[s] => applies[s]),
         Len(jobs) <= Len(jobs'),
         \A k \in 1 .. Len(jobs) : SameGround(k),
         \A k \in 1 .. Len(jobs) : jobs'[k].status = "claimed" <=> jobs[k].status = "claimed",
         \A k \in Len(jobs) + 1 .. Len(jobs') : jobs'[k].status # "claimed",
         drain.at = "chat" /\ drain.job \in drifted' => drain.job \in drifted \/ Moved(drain.job)'
  PROVE  ShadowWork'
<1>1. /\ drain \in DrainRecord /\ drain.job \in Nat /\ drain.job <= Len(jobs)
      /\ Awaiting => drain.job # 0 /\ drain.done < ShadowBatch
      /\ Len(jobs) \in Nat /\ Len(jobs') \in Nat
  BY DEF ShadowInv, ShadowWork, DrainRecord, ShadowStore, ShadowTables
<1>2. drain.at # "chat" /\ ~ faulted' => \A k \in 1 .. Len(jobs') : jobs'[k].status # "claimed"
  <2>. SUFFICES ASSUME drain.at # "chat", ~ faulted', NEW k \in 1 .. Len(jobs')
                PROVE  jobs'[k].status # "claimed"
    OBVIOUS
  <2>1. CASE k \in 1 .. Len(jobs)
    BY <2>1 DEF ShadowInv, ShadowWork
  <2>2. CASE k \in Len(jobs) + 1 .. Len(jobs')
    BY <2>2
  <2>. QED
    BY <1>1, <2>1, <2>2
<1>3. CASE drain' = drain
  <2>1. drain.at = "chat" => Frozen(drain.job)'
    <3>. SUFFICES ASSUME drain.at = "chat" PROVE Frozen(drain.job)'
      OBVIOUS
    <3>1. drain.job \in 1 .. Len(jobs) /\ Frozen(drain.job)
      BY <1>1 DEF Awaiting, ShadowInv, ShadowWork
    <3>2. PICK j \in 1 .. Len(jobs) : j = drain.job
      BY <3>1
    <3>3. jobs'[j].status = "claimed"
      <4>1. jobs[j].status = "claimed"
        BY <3>1, <3>2 DEF Frozen
      <4>. QED
        BY Zenon, <4>1
    <3>4. Frozen(j)'
      <4>1. /\ ShadowTables /\ Frozen(j) /\ SameGround(j)
            /\ j \in drifted' => j \in drifted \/ Moved(j)'
        BY <1>3, <3>1, <3>2 DEF ShadowInv, ShadowStore
      <4>. QED
        BY Zenon, <3>3, <4>1, MovedStays
    <3>. QED
      BY <1>3, <3>2, <3>4
  <2>. QED
    BY <1>1, <1>2, <1>3, <2>1 DEF ShadowWork, Awaiting
<1>4. CASE drain.at = "off" /\ drain' = StartTick(FALSE)
  <2>1. drain' \in DrainRecord /\ drain'.at = "top" /\ drain'.job = 0
    BY Zenon, <1>4, TickStarts
  <2>2. drain'.job <= Len(jobs') /\ ~ Awaiting'
    BY <1>1, <2>1 DEF Awaiting
  <2>3. ~ faulted' => \A k \in 1 .. Len(jobs') : jobs'[k].status # "claimed"
    BY Zenon, <1>2, <1>4
  <2>4. drain'.at # "chat"
    BY <2>1
  <2>. QED
    BY Zenon, <2>1, <2>2, <2>3, <2>4 DEF ShadowWork
<1>. QED
  BY <1>3, <1>4 DEF WakesTick

(* Nothing of the store moves.                                              *)
LEMMA StoreStays ==
  ASSUME ShadowStore, UNCHANGED <<policyVars, storeVars>>
  PROVE  ShadowStore'
BY DEF ShadowStore, ShadowTables, LoneClaim, NoneWaits, DriftedUndecided, Answered, policyVars, storeVars

(* Nothing of the store moves, and the tick goes on as it was or starts.    *)
LEMMA ShadowStays ==
  ASSUME ShadowInv, UNCHANGED <<policyVars, storeVars, lateLease>>, WakesTick,
         faulted => faulted', ShadowFlags'
  PROVE  ShadowInv'
<1>1. ShadowStore'
  BY Zenon, StoreStays DEF ShadowInv
<1>2. /\ policy'.version \in Nat /\ policy.version = policy'.version
      /\ epoch' = epoch /\ epoch \in [Scopes -> Nat] /\ applies' = applies
      /\ jobs' = jobs /\ Len(jobs) \in Nat /\ drifted' = drifted
  BY <1>1 DEF ShadowStore, ShadowTables, policyVars, storeVars
<1>3. \A k \in 1 .. Len(jobs) : SameGround(k)
  BY <1>2 DEF SameGround
<1>4. ShadowWork'
  BY <1>1, <1>2, <1>3, WorkStays DEF ShadowStore
<1>. QED
  BY <1>1, <1>4 DEF ShadowInv

LEMMA PostKept ==
  ASSUME ShadowInv, RunPosted
  PROVE  ShadowInv'
<1>1. UNCHANGED <<policyVars, storeVars, lateLease, drain, wakeQueued, wall, holder, closing>>
  BY DEF RunPosted
<1>2. Spend("posts") /\ Preempted /\ active' = TRUE
  BY DEF RunPosted
<1>3. cut' \in BOOLEAN
  BY Zenon, <1>2 DEF Preempted, ShadowInv, ShadowFlags
<1>4. /\ allow' \in [Happenings -> Nat] /\ faulted' \in BOOLEAN /\ (faulted => faulted')
  BY Zenon, <1>2, SpendTyped DEF Happenings
<1>5. ShadowFlags'
  BY Zenon, <1>1, <1>2, <1>3, <1>4 DEF ShadowInv, ShadowFlags
<1>. QED
  BY Zenon, <1>1, <1>4, <1>5, ShadowStays DEF WakesTick

LEMMA SettleKept ==
  ASSUME ShadowInv, RunSettled
  PROVE  ShadowInv'
<1>1. UNCHANGED <<policyVars, storeVars, lateLease, wall, holder, closing, faulted, allow>>
  BY DEF RunSettled
<1>2. Wake /\ active' = FALSE
  BY DEF RunSettled
<1>3. ShadowFlags'
  BY Zenon, <1>1, <1>2, WakeMoves DEF ShadowInv, ShadowFlags
<1>. QED
  BY Zenon, <1>1, <1>2, <1>3, WakeMoves, ShadowStays

LEMMA UnannouncedKept ==
  ASSUME ShadowInv, RunEndsUnannounced
  PROVE  ShadowInv'
<1>1. UNCHANGED <<policyVars, storeVars, lateLease, drain, wakeQueued, wall, holder, closing,
                  faulted, allow>>
  BY DEF RunEndsUnannounced
<1>2. cut' \in BOOLEAN /\ active' = FALSE
  BY Zenon DEF RunEndsUnannounced, Preempted, ShadowInv, ShadowFlags
<1>3. ShadowFlags'
  BY Zenon, <1>1, <1>2 DEF ShadowInv, ShadowFlags
<1>. QED
  BY Zenon, <1>1, <1>3, ShadowStays DEF WakesTick

LEMMA GateKept ==
  ASSUME ShadowInv, OtherTakesGate \/ OtherFreesGate
  PROVE  ShadowInv'
<1>1. CASE OtherTakesGate
  <2>1. UNCHANGED <<policyVars, storeVars, lateLease, drain, wakeQueued, cut, wall, active, closing>>
    BY <1>1 DEF OtherTakesGate, workerVars
  <2>2. Spend("units") /\ holder' \in {"free", "shadow", "other"}
    BY <1>1 DEF OtherTakesGate
  <2>3. /\ allow' \in [Happenings -> Nat] /\ faulted' \in BOOLEAN /\ (faulted => faulted')
    BY Zenon, <2>2, SpendTyped DEF Happenings
  <2>4. ShadowFlags'
    BY Zenon, <2>1, <2>2, <2>3 DEF ShadowInv, ShadowFlags
  <2>. QED
    BY Zenon, <2>1, <2>3, <2>4, ShadowStays DEF WakesTick
<1>2. CASE OtherFreesGate
  <2>1. UNCHANGED <<policyVars, storeVars, lateLease, wall, active, closing, faulted, allow>>
    BY <1>2 DEF OtherFreesGate
  <2>2. Wake /\ holder' \in {"free", "shadow", "other"}
    BY <1>2 DEF OtherFreesGate
  <2>3. ShadowFlags'
    BY Zenon, <2>1, <2>2, WakeMoves DEF ShadowInv, ShadowFlags
  <2>. QED
    BY Zenon, <2>1, <2>2, <2>3, WakeMoves, ShadowStays
<1>. QED
  BY <1>1, <1>2

LEMMA StopKept ==
  ASSUME ShadowInv, ServiceStops
  PROVE  ShadowInv'
<1>1. UNCHANGED <<policyVars, storeVars, lateLease, drain, wakeQueued, wall, holder, active,
                  faulted, allow>>
  BY DEF ServiceStops
<1>2. cut' \in BOOLEAN /\ closing' = TRUE
  BY Zenon DEF ServiceStops, Preempted, ShadowInv, ShadowFlags
<1>3. ShadowFlags'
  BY Zenon, <1>1, <1>2 DEF ShadowInv, ShadowFlags
<1>. QED
  BY Zenon, <1>1, <1>3, ShadowStays DEF WakesTick

(* Jobs may be added that are not claimed, waiting ones only unpaused, and  *)
(* a waiting job may come to answer for a change.                           *)
LEMMA StoreGrows ==
  ASSUME ShadowStore,
         UNCHANGED <<policy, applies>>,
         epoch' \in [Scopes -> Nat], \A s \in Scopes : epoch[s] <= epoch'[s],
         jobs' \in Seq(JobRow), Len(jobs) <= Len(jobs'), Len(jobs') <= MaxJobs,
         \A k \in 1 .. Len(jobs) : jobs'[k] = jobs[k],
         \A k \in Len(jobs) + 1 .. Len(jobs') :
            jobs'[k].status \in {"held", "pending"} /\ (policy.paused => jobs'[k].status = "held"),
         due' \in [Scopes -> [job : 0 .. Len(jobs'), epoch : Nat]],
         \A s \in Scopes :
            \/ due'[s] = due[s]
            \/ /\ due'[s].job \in 1 .. Len(jobs')
               /\ jobs'[due'[s].job].scope = s /\ jobs'[due'[s].job].status = "pending"
               /\ due'[s].epoch <= epoch'[s],
         drifted' \subseteq 1 .. Len(jobs),
         \A k \in drifted' \ drifted : jobs[k].status = "claimed"
  PROVE  ShadowStore'
<1>1. /\ Len(jobs) \in Nat /\ Len(jobs') \in Nat
      /\ \A k \in 1 .. Len(jobs') : k \in 1 .. Len(jobs) \/ k \in Len(jobs) + 1 .. Len(jobs')
  BY DEF ShadowStore, ShadowTables
<1>2. ShadowTables'
  BY <1>1 DEF ShadowStore, ShadowTables
<1>3. \A k \in 1 .. Len(jobs') : jobs'[k].status = "claimed" => k \in 1 .. Len(jobs)
  BY <1>1
<1>4. LoneClaim'
  <2>. SUFFICES ASSUME NEW i \in 1 .. Len(jobs'), NEW j \in 1 .. Len(jobs'),
                       jobs'[i].status = "claimed", jobs'[j].status = "claimed"
                PROVE  i = j
    BY DEF LoneClaim
  <2>1. i \in 1 .. Len(jobs) /\ j \in 1 .. Len(jobs)
    BY <1>3
  <2>. QED
    BY <2>1 DEF ShadowStore, LoneClaim
<1>5. NoneWaits'
  <2>. SUFFICES ASSUME policy.paused, NEW k \in 1 .. Len(jobs') PROVE jobs'[k].status # "pending"
    BY DEF NoneWaits
  <2>. QED
    BY <1>1 DEF ShadowStore, NoneWaits
<1>6. DriftedUndecided'
  BY DEF ShadowStore, ShadowTables, DriftedUndecided
<1>7. ASSUME NEW s \in Scopes PROVE Answered(s)'
  <2>1. CASE due'[s] = due[s]
    <3>. SUFFICES ASSUME due[s].job # 0
                  PROVE  /\ jobs'[due[s].job].scope = s
                         /\ due[s].epoch <= epoch'[s]
                         /\ jobs'[due[s].job].status \in {"claimed", "completed"} =>
                              due[s].epoch <= jobs'[due[s].job].epoch
      BY <2>1 DEF Answered
    <3>1. /\ due[s].job \in 1 .. Len(jobs) /\ due[s].epoch \in Nat
          /\ epoch[s] \in Nat /\ epoch'[s] \in Nat /\ epoch[s] <= epoch'[s]
          /\ Answered(s)
      BY DEF ShadowStore, ShadowTables
    <3>2. jobs'[due[s].job] = jobs[due[s].job]
      BY <3>1
    <3>. QED
      BY <3>1, <3>2 DEF Answered
  <2>2. CASE due'[s] # due[s]
    BY <2>2 DEF Answered
  <2>. QED
    BY <2>1, <2>2
<1>. QED
  BY <1>2, <1>4, <1>5, <1>6, <1>7 DEF ShadowStore

(* A change of records moves the ground of the claimed job of its scope.    *)
LEMMA ChangeKept ==
  ASSUME ShadowInv, NEW s \in Scopes, ScopePolicyChanges(s)
  PROVE  ShadowInv'
<1>1. UNCHANGED <<policy, applies, wall, lateLease, holder, active, closing>>
  BY DEF ScopePolicyChanges
<1>2. /\ Spend("changes") /\ Wake
      /\ epoch' = [epoch EXCEPT ![s] = @ + 1]
      /\ drifted' = drifted \union {j \in Claimed : jobs[j].scope = s}
  BY DEF ScopePolicyChanges
<1>3. /\ ShadowTables /\ epoch \in [Scopes -> Nat] /\ jobs \in Seq(JobRow)
      /\ Len(jobs) \in Nat /\ DOMAIN jobs = 1 .. Len(jobs) /\ Len(jobs) <= MaxJobs /\ MaxJobs \in Nat
      /\ due \in [Scopes -> [job : 0 .. Len(jobs), epoch : Nat]] /\ drifted \subseteq 1 .. Len(jobs)
      /\ policy.version \in Nat
  BY ShadowAssumption DEF ShadowInv, ShadowStore, ShadowTables
<1>4. /\ epoch' \in [Scopes -> Nat] /\ epoch'[s] = epoch[s] + 1
      /\ \A t \in Scopes : epoch[t] <= epoch'[t]
  BY <1>2, <1>3
<1>5. /\ drifted' \subseteq 1 .. Len(jobs)
      /\ \A k \in drifted' \ drifted : jobs[k].status = "claimed" /\ jobs[k].scope = s
  BY <1>2, <1>3 DEF Claimed, Having
<1>6. /\ jobs' \in Seq(JobRow) /\ Len(jobs) <= Len(jobs') /\ Len(jobs') <= MaxJobs
      /\ \A k \in 1 .. Len(jobs) : jobs'[k] = jobs[k]
      /\ \A k \in Len(jobs) + 1 .. Len(jobs') : jobs'[k].status = "pending" /\ ~ policy.paused
      /\ due' \in [Scopes -> [job : 0 .. Len(jobs'), epoch : Nat]]
      /\ \A t \in Scopes :
            \/ due'[t] = due[t]
            \/ /\ due'[t].job \in 1 .. Len(jobs')
               /\ jobs'[due'[t].job].scope = t /\ jobs'[due'[t].job].status = "pending"
               /\ due'[t].epoch <= epoch'[t]
  <2>1. CASE UNCHANGED <<jobs, due>>
    BY <1>3, <2>1
  <2>2. CASE /\ ~ policy.paused
             /\ Len(jobs) < MaxJobs
             /\ jobs' = Append(jobs, NewJob(s, "change", "pending"))
             /\ due' = [due EXCEPT ![s] = [job |-> Len(jobs) + 1, epoch |-> epoch[s] + 1]]
    <3>1. /\ jobs' \in Seq(JobRow) /\ Len(jobs') = Len(jobs) + 1
          /\ \A k \in 1 .. Len(jobs) : jobs'[k] = jobs[k]
          /\ jobs'[Len(jobs) + 1].status = "pending" /\ jobs'[Len(jobs) + 1].scope = s
      BY Zenon, <1>3, <2>2, JobAppended
    <3>2. PICK d : d = [job |-> Len(jobs) + 1, epoch |-> epoch[s] + 1]
      OBVIOUS
    <3>3. d \in [job : 0 .. Len(jobs'), epoch : Nat] /\ d.job = Len(jobs) + 1 /\ d.epoch = epoch'[s]
      BY <1>3, <1>4, <3>1, <3>2
    <3>4. due' \in [Scopes -> [job : 0 .. Len(jobs'), epoch : Nat]]
      BY <1>3, <2>2, <3>1, <3>2, <3>3
    <3>5. due'[s] = d /\ \A t \in Scopes \ {s} : due'[t] = due[t]
      BY <1>3, <2>2, <3>2
    <3>. QED
      BY <1>3, <1>4, <2>2, <3>1, <3>3, <3>4, <3>5
  <2>3. CASE \E j \in Reusable(s) :
               /\ due' = [due EXCEPT ![s] = [job |-> j, epoch |-> epoch[s] + 1]]
               /\ UNCHANGED jobs
    <3>1. PICK j \in Reusable(s) :
               /\ due' = [due EXCEPT ![s] = [job |-> j, epoch |-> epoch[s] + 1]]
               /\ UNCHANGED jobs
      BY <2>3
    <3>2. j \in 1 .. Len(jobs) /\ jobs[j].status = "pending" /\ jobs[j].scope = s
      BY <1>3 DEF Reusable, Having
    <3>3. PICK d : d = [job |-> j, epoch |-> epoch[s] + 1]
      OBVIOUS
    <3>4. d \in [job : 0 .. Len(jobs), epoch : Nat] /\ d.job = j /\ d.epoch = epoch'[s]
      BY <1>3, <1>4, <3>2, <3>3
    <3>5. due' \in [Scopes -> [job : 0 .. Len(jobs), epoch : Nat]]
      BY <1>3, <3>1, <3>3, <3>4
    <3>6. due'[s] = d /\ \A t \in Scopes \ {s} : due'[t] = due[t]
      BY <1>3, <3>1, <3>3
    <3>7. jobs' = jobs /\ \A k \in Len(jobs) + 1 .. Len(jobs') : FALSE
      BY <1>3, <3>1
    <3>8. ASSUME NEW t \in Scopes
          PROVE  \/ due'[t] = due[t]
                 \/ /\ due'[t].job \in 1 .. Len(jobs)
                    /\ jobs[due'[t].job].scope = t /\ jobs[due'[t].job].status = "pending"
                    /\ due'[t].epoch <= epoch'[t]
      <4>1. epoch'[s] \in Nat
        BY <1>4
      <4>. QED
        BY <3>2, <3>4, <3>6, <4>1
    <3>. QED
      BY <1>3, <3>5, <3>7, <3>8
  <2>. QED
    BY <2>1, <2>2, <2>3 DEF ScopePolicyChanges
<1>7. ShadowStore'
  BY Zenon, <1>1, <1>4, <1>5, <1>6, StoreGrows DEF ShadowInv
<1>8. ShadowTables' /\ Len(jobs') \in Nat
  BY <1>7 DEF ShadowStore, ShadowTables
<1>9. \A k \in 1 .. Len(jobs) : SameGround(k)
  BY <1>6 DEF SameGround
<1>10. drain.at = "chat" /\ drain.job \in drifted' => drain.job \in drifted \/ Moved(drain.job)'
  <2>. SUFFICES ASSUME drain.at = "chat", drain.job \in drifted' \ drifted
                PROVE  epoch'[jobs'[drain.job].scope] # jobs'[drain.job].epoch
    <3>1. drain.at = "chat" => drain' = drain
      BY Zenon, <1>2, WakeMoves DEF WakesTick
    <3>. QED
      BY <3>1 DEF Moved
  <2>1. PICK i : i = drain.job
    OBVIOUS
  <2>2. i \in 1 .. Len(jobs) /\ jobs[i].scope = s /\ jobs'[i] = jobs[i] /\ jobs[i] \in JobRow
    <3>1. i \in drifted' \ drifted
      BY Zenon, <2>1
    <3>2. i \in 1 .. Len(jobs)
      BY Zenon, <1>5, <3>1
    <3>3. jobs[i].scope = s
      BY Zenon, <1>5, <3>1
    <3>4. jobs'[i] = jobs[i]
      BY Zenon, <1>6, <3>2
    <3>5. jobs[i] \in JobRow
      BY <1>3, <3>2
    <3>. QED
      BY Zenon, <3>2, <3>3, <3>4, <3>5
  <2>3. jobs[i].epoch <= epoch[s]
    BY <2>1, <2>2 DEF ShadowInv, ShadowWork, Frozen
  <2>. QED
    BY <1>3, <1>4, <2>1, <2>2, <2>3 DEF JobRow
<1>11. allow' \in [Happenings -> Nat] /\ faulted' \in BOOLEAN /\ (faulted => faulted')
  BY Zenon, <1>2, SpendTyped DEF Happenings
<1>12. WakesTick /\ cut' \in BOOLEAN /\ wakeQueued' \in BOOLEAN
  BY Zenon, <1>2, WakeMoves
<1>13. /\ policy.version <= policy'.version
       /\ \A t \in Scopes : epoch[t] <= epoch'[t] /\ (applies'[t] => applies[t])
       /\ \A k \in 1 .. Len(jobs) : jobs'[k].status = "claimed" <=> jobs[k].status = "claimed"
       /\ \A k \in Len(jobs) + 1 .. Len(jobs') : jobs'[k].status # "claimed"
  <2>1. policy.version <= policy'.version
    BY <1>1, <1>3
  <2>2. \A t \in Scopes : epoch[t] <= epoch'[t] /\ (applies'[t] => applies[t])
    BY <1>1, <1>3, <1>4
  <2>3. \A k \in 1 .. Len(jobs) : jobs'[k].status = "claimed" <=> jobs[k].status = "claimed"
    BY Zenon, <1>6
  <2>4. \A k \in Len(jobs) + 1 .. Len(jobs') : jobs'[k].status # "claimed"
    BY <1>6
  <2>. QED
    BY Zenon, <2>1, <2>2, <2>3, <2>4
<1>14. ShadowWork'
  BY Zenon, <1>1, <1>6, <1>8, <1>9, <1>10, <1>11, <1>12, <1>13, WorkStays
<1>15. ShadowFlags'
  BY Zenon, <1>1, <1>11, <1>12 DEF ShadowInv, ShadowFlags
<1>. QED
  BY <1>7, <1>14, <1>15 DEF ShadowInv

LEMMA RequestKept ==
  ASSUME ShadowInv, NEW s \in Scopes, RequestDeliberation(s)
  PROVE  ShadowInv'
<1>. DEFINE st == IF policy.paused THEN "held" ELSE "pending"
<1>1. UNCHANGED <<policy, applies, due, drifted, wall, lateLease, holder, active, closing>>
  BY DEF RequestDeliberation
<1>2. /\ Spend("requests") /\ Wake /\ Len(jobs) < MaxJobs
      /\ epoch' = [epoch EXCEPT ![s] = IF @ = 0 THEN 1 ELSE @]
      /\ jobs' = Append(jobs, NewJob(s, "request", st))
  BY DEF RequestDeliberation
<1>3. /\ ShadowTables /\ epoch \in [Scopes -> Nat] /\ jobs \in Seq(JobRow) /\ Len(jobs) \in Nat
      /\ due \in [Scopes -> [job : 0 .. Len(jobs), epoch : Nat]] /\ drifted \subseteq 1 .. Len(jobs)
      /\ policy.version \in Nat /\ MaxJobs \in Nat
  BY ShadowAssumption DEF ShadowInv, ShadowStore, ShadowTables
<1>4. PICK e \in Nat : e = (IF epoch[s] = 0 THEN 1 ELSE epoch[s])
  BY <1>3
<1>5. epoch' = [epoch EXCEPT ![s] = e] /\ epoch[s] <= e
  BY <1>2, <1>3, <1>4
<1>6. epoch' \in [Scopes -> Nat] /\ \A t \in Scopes : epoch[t] <= epoch'[t]
  BY <1>3, <1>4, <1>5
<1>7. st \in {"pending", "held"} /\ (policy.paused => st = "held")
  OBVIOUS
<1>. HIDE DEF st
<1>8. /\ jobs' \in Seq(JobRow) /\ Len(jobs') = Len(jobs) + 1
      /\ \A k \in 1 .. Len(jobs) : jobs'[k] = jobs[k]
      /\ jobs'[Len(jobs) + 1].status = st
  BY Zenon, <1>2, <1>3, <1>7, JobAppended
<1>9. /\ Len(jobs) <= Len(jobs') /\ Len(jobs') <= MaxJobs
      /\ \A k \in Len(jobs) + 1 .. Len(jobs') :
           jobs'[k].status \in {"held", "pending"} /\ (policy.paused => jobs'[k].status = "held")
      /\ due' \in [Scopes -> [job : 0 .. Len(jobs'), epoch : Nat]]
      /\ \A t \in Scopes : due'[t] = due[t]
      /\ drifted' \subseteq 1 .. Len(jobs) /\ drifted' \ drifted = {}
  BY <1>1, <1>2, <1>3, <1>7, <1>8
<1>10. ShadowStore'
  BY Zenon, <1>1, <1>6, <1>8, <1>9, StoreGrows DEF ShadowInv
<1>11. ShadowTables'
  BY <1>10 DEF ShadowStore
<1>12. \A k \in 1 .. Len(jobs) : SameGround(k)
  BY <1>8 DEF SameGround
<1>13. allow' \in [Happenings -> Nat] /\ faulted' \in BOOLEAN /\ (faulted => faulted')
  BY Zenon, <1>2, SpendTyped DEF Happenings
<1>14. WakesTick /\ cut' \in BOOLEAN /\ wakeQueued' \in BOOLEAN
  BY Zenon, <1>2, WakeMoves
<1>15. /\ policy.version <= policy'.version
       /\ \A t \in Scopes : epoch[t] <= epoch'[t] /\ (applies'[t] => applies[t])
       /\ \A k \in 1 .. Len(jobs) : jobs'[k].status = "claimed" <=> jobs[k].status = "claimed"
       /\ \A k \in Len(jobs) + 1 .. Len(jobs') : jobs'[k].status # "claimed"
  BY <1>1, <1>3, <1>6, <1>8, <1>9
<1>16. ShadowWork'
  BY Zenon, <1>1, <1>9, <1>11, <1>12, <1>13, <1>14, <1>15, WorkStays
<1>17. ShadowFlags'
  BY Zenon, <1>1, <1>13, <1>14 DEF ShadowInv, ShadowFlags
<1>. QED
  BY <1>10, <1>16, <1>17 DEF ShadowInv

LEMMA WindowKept ==
  ASSUME ShadowInv, NEW s \in Scopes, WindowCrosses(s)
  PROVE  ShadowInv'
<1>1. UNCHANGED <<policy, epoch, jobs, due, drain, wakeQueued, cut, wall, lateLease, holder, active,
                  closing>>
  BY DEF WindowCrosses, workerVars
<1>2. /\ Spend("windows") /\ applies[s]
      /\ applies' = [applies EXCEPT ![s] = FALSE]
      /\ drifted' = drifted \union {j \in Claimed : jobs[j].scope = s}
  BY DEF WindowCrosses
<1>3. /\ ShadowTables /\ epoch \in [Scopes -> Nat] /\ applies \in [Scopes -> BOOLEAN]
      /\ jobs \in Seq(JobRow) /\ Len(jobs) \in Nat /\ DOMAIN jobs = 1 .. Len(jobs)
      /\ drifted \subseteq 1 .. Len(jobs)
      /\ policy \in [paused : BOOLEAN, version : Nat]
  BY DEF ShadowInv, ShadowStore, ShadowTables
<1>4. /\ applies' \in [Scopes -> BOOLEAN] /\ applies'[s] = FALSE
      /\ \A t \in Scopes : applies'[t] => applies[t]
  BY Zenon, <1>2, <1>3
<1>5. /\ drifted' \subseteq 1 .. Len(jobs)
      /\ \A k \in drifted' \ drifted : jobs[k].status = "claimed" /\ jobs[k].scope = s
  BY <1>2, <1>3 DEF Claimed, Having
<1>6. \A k \in 1 .. Len(jobs) : SameGround(k)
  BY <1>1 DEF SameGround
<1>7. NoneWaits'
  BY <1>1 DEF ShadowInv, ShadowStore, NoneWaits
<1>8. /\ policy' \in [paused : BOOLEAN, version : Nat] /\ policy.version <= policy'.version
      /\ epoch' \in [Scopes -> Nat] /\ \A t \in Scopes : epoch[t] <= epoch'[t]
  BY <1>1, <1>3
<1>9. ShadowStore'
  BY Zenon, <1>1, <1>3, <1>4, <1>5, <1>6, <1>7, <1>8, StoreKept DEF ShadowInv
<1>10. drain.at = "chat" /\ drain.job \in drifted' => drain.job \in drifted \/ Moved(drain.job)'
  <2>. SUFFICES ASSUME drain.at = "chat", drain.job \in drifted' \ drifted
                PROVE  applies'[jobs'[drain.job].scope] # jobs'[drain.job].applies
    BY <1>1 DEF Moved
  <2>1. PICK i : i = drain.job
    OBVIOUS
  <2>2. i \in 1 .. Len(jobs) /\ jobs[i].scope = s
    BY <1>5, <2>1
  <2>3. jobs[i].applies
    BY <1>2, <2>1, <2>2 DEF ShadowInv, ShadowWork, Frozen
  <2>. QED
    BY <1>1, <1>4, <2>1, <2>2, <2>3
<1>11. allow' \in [Happenings -> Nat] /\ faulted' \in BOOLEAN /\ (faulted => faulted')
  BY Zenon, <1>2, SpendTyped DEF Happenings
<1>12. ShadowTables'
  BY <1>9 DEF ShadowStore
<1>13. ShadowWork'
  BY <1>1, <1>3, <1>4, <1>6, <1>8, <1>10, <1>11, <1>12, WorkStays DEF WakesTick
<1>14. ShadowFlags'
  BY Zenon, <1>1, <1>11 DEF ShadowInv, ShadowFlags
<1>. QED
  BY <1>9, <1>13, <1>14 DEF ShadowInv

LEMMA CancelKept ==
  ASSUME ShadowInv, NEW j \in DOMAIN jobs, CancelJob(j)
  PROVE  ShadowInv'
<1>1. UNCHANGED <<policy, epoch, applies, due, drifted, drain, wakeQueued, cut, wall, lateLease,
                  holder, active, closing, faulted, allow>>
  BY DEF CancelJob, policyVars, workerVars
<1>2. jobs[j].status = "pending" /\ jobs' = [jobs EXCEPT ![j].status = "cancelled"]
  BY DEF CancelJob
<1>3. /\ ShadowTables /\ epoch \in [Scopes -> Nat] /\ applies \in [Scopes -> BOOLEAN]
      /\ Len(jobs) \in Nat /\ j \in 1 .. Len(jobs) /\ drifted \subseteq 1 .. Len(jobs)
      /\ policy \in [paused : BOOLEAN, version : Nat]
  BY DEF ShadowInv, ShadowStore, ShadowTables
<1>4. "cancelled" \in {"pending", "claimed"} \union Terminal0
  BY DEF Terminal0
<1>5. /\ jobs' \in Seq(JobRow) /\ Len(jobs') = Len(jobs)
      /\ \A k \in 1 .. Len(jobs) : SameGround(k)
      /\ jobs'[j].status = "cancelled"
      /\ \A k \in 1 .. Len(jobs) \ {j} : jobs'[k].status = jobs[k].status
  BY Zenon, <1>2, <1>3, <1>4, StatusSet
<1>6. NoneWaits'
  BY <1>1, <1>3, <1>5 DEF ShadowInv, ShadowStore, NoneWaits
<1>7. /\ policy' \in [paused : BOOLEAN, version : Nat] /\ policy.version <= policy'.version
      /\ epoch' \in [Scopes -> Nat] /\ applies' \in [Scopes -> BOOLEAN]
      /\ \A t \in Scopes : epoch[t] <= epoch'[t] /\ (applies'[t] => applies[t])
  BY <1>1, <1>3
<1>8. \A k \in 1 .. Len(jobs) : jobs'[k].status = jobs[k].status \/ jobs'[k].status = "cancelled"
  BY <1>5
<1>9. ShadowStore'
  <2>1. ShadowStore /\ due' = due /\ \A t \in Scopes : epoch[t] <= epoch'[t]
    BY <1>1, <1>7 DEF ShadowInv
  <2>2. drifted' \subseteq 1 .. Len(jobs) /\ \A k \in drifted' \ drifted : jobs[k].status = "claimed"
    BY <1>1, <1>3
  <2>3. \A k \in 1 .. Len(jobs) :
          \/ jobs'[k].status = jobs[k].status
          \/ jobs'[k].status \in {"held", "failed", "cancelled"}
          \/ jobs[k].status = "claimed" /\ jobs'[k].status = "completed" /\ k \notin drifted'
    BY <1>8
  <2>. QED
    BY Zenon, <1>5, <1>6, <1>7, <2>1, <2>2, <2>3, StoreKept
<1>10. ShadowTables'
  BY <1>9 DEF ShadowStore
<1>11. \A k \in 1 .. Len(jobs) : jobs'[k].status = "claimed" <=> jobs[k].status = "claimed"
  BY <1>2, <1>5
<1>12. ShadowWork'
  <2>1. WakesTick /\ lateLease' = lateLease /\ (faulted => faulted') /\ Len(jobs) <= Len(jobs')
    BY <1>1, <1>3, <1>5 DEF WakesTick
  <2>2. \A t \in Scopes : epoch[t] <= epoch'[t] /\ (applies'[t] => applies[t])
    BY <1>7
  <2>3. drain.job \in drifted' => drain.job \in drifted
    BY <1>1
  <2>4. \A k \in Len(jobs) + 1 .. Len(jobs') : jobs'[k].status # "claimed"
    BY <1>3, <1>5
  <2>. QED
    BY Zenon, <1>5, <1>7, <1>10, <1>11, <2>1, <2>2, <2>3, <2>4, WorkStays
<1>13. ShadowFlags'
  BY Zenon, <1>1 DEF ShadowInv, ShadowFlags
<1>. QED
  BY <1>9, <1>12, <1>13 DEF ShadowInv

(* A command bumps the control's version; a pause leaves nothing waiting.   *)
LEMMA CommandKept ==
  ASSUME ShadowInv, NEW paused \in BOOLEAN, SetControlTo(paused)
  PROVE  ShadowInv'
<1>1. UNCHANGED <<epoch, applies, due, wall, lateLease, holder, active, closing>>
  BY DEF SetControlTo
<1>2. /\ Spend("flips") /\ Wake
      /\ policy' = [paused |-> paused, version |-> policy.version + 1]
      /\ drifted' = drifted \union Claimed
      /\ IF paused THEN HoldAll({"pending"}) ELSE UNCHANGED jobs
  BY DEF SetControlTo
<1>3. /\ ShadowTables /\ epoch \in [Scopes -> Nat] /\ applies \in [Scopes -> BOOLEAN]
      /\ jobs \in Seq(JobRow) /\ Len(jobs) \in Nat /\ DOMAIN jobs = 1 .. Len(jobs)
      /\ drifted \subseteq 1 .. Len(jobs) /\ policy.version \in Nat
  BY DEF ShadowInv, ShadowStore, ShadowTables
<1>4. /\ policy' \in [paused : BOOLEAN, version : Nat] /\ policy'.version = policy.version + 1
      /\ policy'.paused = paused
  BY <1>2, <1>3
<1>5. /\ jobs' \in Seq(JobRow) /\ Len(jobs') = Len(jobs)
      /\ \A k \in 1 .. Len(jobs) : SameGround(k)
      /\ \A k \in 1 .. Len(jobs) :
           jobs'[k].status = IF paused /\ jobs[k].status = "pending" THEN "held" ELSE jobs[k].status
  <2>1. CASE paused
    BY <1>2, <1>3, <2>1, StatusesHeld
  <2>2. CASE ~ paused
    BY <1>2, <1>3, <2>2 DEF SameGround
  <2>. QED
    BY <2>1, <2>2
<1>6. /\ drifted' \subseteq 1 .. Len(jobs)
      /\ \A k \in drifted' \ drifted : jobs[k].status = "claimed"
  BY <1>2, <1>3 DEF Claimed, Having
<1>7. NoneWaits'
  BY <1>3, <1>4, <1>5 DEF NoneWaits
<1>8. /\ policy.version <= policy'.version /\ epoch' \in [Scopes -> Nat]
      /\ applies' \in [Scopes -> BOOLEAN]
      /\ \A t \in Scopes : epoch[t] <= epoch'[t] /\ (applies'[t] => applies[t])
  BY <1>1, <1>3, <1>4
<1>9. \A k \in 1 .. Len(jobs) : jobs'[k].status = jobs[k].status \/ jobs'[k].status = "held"
  BY <1>5
<1>10. ShadowStore'
  <2>1. ShadowStore /\ due' = due
    BY <1>1 DEF ShadowInv
  <2>2. \A k \in 1 .. Len(jobs) :
          \/ jobs'[k].status = jobs[k].status
          \/ jobs'[k].status \in {"held", "failed", "cancelled"}
          \/ jobs[k].status = "claimed" /\ jobs'[k].status = "completed" /\ k \notin drifted'
    BY <1>9
  <2>3. \A t \in Scopes : epoch[t] <= epoch'[t]
    BY <1>8
  <2>. QED
    BY Zenon, <1>4, <1>5, <1>6, <1>7, <1>8, <2>1, <2>2, <2>3, StoreKept
<1>11. ShadowTables'
  BY <1>10 DEF ShadowStore
<1>12. \A k \in 1 .. Len(jobs) : jobs'[k].status = "claimed" <=> jobs[k].status = "claimed"
  <2>. SUFFICES ASSUME NEW k \in 1 .. Len(jobs)
                PROVE  jobs'[k].status = "claimed" <=> jobs[k].status = "claimed"
    OBVIOUS
  <2>1. jobs'[k].status = IF paused /\ jobs[k].status = "pending" THEN "held" ELSE jobs[k].status
    BY <1>5
  <2>. QED
    BY <2>1
<1>13. drain.at = "chat" /\ drain.job \in drifted' => drain.job \in drifted \/ Moved(drain.job)'
  <2>. SUFFICES ASSUME drain.at = "chat", drain.job \in drifted' \ drifted
                PROVE  policy'.version # jobs'[drain.job].control
    <3>1. drain.at = "chat" => drain' = drain
      BY Zenon, <1>2, WakeMoves DEF WakesTick
    <3>. QED
      BY <3>1 DEF Moved
  <2>1. PICK i : i = drain.job
    OBVIOUS
  <2>2. i \in 1 .. Len(jobs) /\ jobs[i] \in JobRow
    <3>1. i \in 1 .. Len(jobs)
      BY <1>6, <2>1
    <3>. QED
      BY <1>3, <3>1
  <2>3. jobs[i].control <= policy.version /\ jobs[i].control \in Nat /\ SameGround(i)
    BY <1>5, <2>1, <2>2 DEF ShadowInv, ShadowWork, Frozen, JobRow
  <2>. QED
    BY <1>3, <1>4, <2>1, <2>3 DEF SameGround
<1>14. allow' \in [Happenings -> Nat] /\ faulted' \in BOOLEAN /\ (faulted => faulted')
  BY Zenon, <1>2, SpendTyped DEF Happenings
<1>15. WakesTick /\ cut' \in BOOLEAN /\ wakeQueued' \in BOOLEAN
  BY Zenon, <1>2, WakeMoves
<1>16. ShadowWork'
  BY <1>1, <1>3, <1>5, <1>8, <1>11, <1>12, <1>13, <1>14, <1>15, WorkStays
<1>17. ShadowFlags'
  BY Zenon, <1>1, <1>14, <1>15 DEF ShadowInv, ShadowFlags
<1>. QED
  BY <1>10, <1>16, <1>17 DEF ShadowInv

(* A job of the worker gets a terminal status.                              *)
LEMMA JobSettles ==
  ASSUME ShadowInv, UNCHANGED <<policyVars, due, drifted>>,
         NEW j \in 1 .. Len(jobs), NEW st \in {"held", "failed", "completed"},
         st = "completed" => jobs[j].status = "claimed" /\ j \notin drifted,
         jobs' = [jobs EXCEPT ![j].status = st]
  PROVE  /\ ShadowStore'
         /\ Len(jobs') = Len(jobs)
         /\ jobs'[j].status = st
         /\ \A k \in 1 .. Len(jobs) \ {j} : jobs'[k].status = jobs[k].status
<1>1. ShadowTables /\ st \in {"pending", "claimed"} \union Terminal0
  BY DEF ShadowInv, ShadowStore, Terminal0
<1>2. /\ jobs' \in Seq(JobRow) /\ Len(jobs') = Len(jobs)
      /\ \A k \in 1 .. Len(jobs) : SameGround(k)
      /\ jobs'[j].status = st
      /\ \A k \in 1 .. Len(jobs) \ {j} : jobs'[k].status = jobs[k].status
  BY Zenon, <1>1, StatusSet
<1>3. /\ policy' = policy /\ epoch' = epoch /\ applies' = applies /\ due' = due /\ drifted' = drifted
      /\ policy \in [paused : BOOLEAN, version : Nat] /\ epoch \in [Scopes -> Nat]
      /\ applies \in [Scopes -> BOOLEAN] /\ drifted \subseteq 1 .. Len(jobs)
  BY <1>1 DEF ShadowTables, policyVars
<1>4. NoneWaits'
  BY <1>2, <1>3 DEF ShadowInv, ShadowStore, NoneWaits
<1>5. \A k \in 1 .. Len(jobs) :
        \/ jobs'[k].status = jobs[k].status
        \/ jobs'[k].status \in {"held", "failed", "cancelled"}
        \/ jobs[k].status = "claimed" /\ jobs'[k].status = "completed" /\ k \notin drifted'
  <2>. SUFFICES ASSUME NEW k \in 1 .. Len(jobs)
                PROVE  \/ jobs'[k].status = jobs[k].status
                       \/ jobs'[k].status \in {"held", "failed", "cancelled"}
                       \/ /\ jobs[k].status = "claimed" /\ jobs'[k].status = "completed"
                          /\ k \notin drifted'
    OBVIOUS
  <2>. QED
    BY <1>2, <1>3
<1>6. ShadowStore'
  <2>1. ShadowStore
    BY DEF ShadowInv
  <2>2. \A t \in Scopes : epoch[t] <= epoch'[t]
    BY <1>3
  <2>3. drifted' \subseteq 1 .. Len(jobs) /\ \A k \in drifted' \ drifted : jobs[k].status = "claimed"
    BY <1>3
  <2>. QED
    BY Zenon, <1>2, <1>3, <1>4, <1>5, <2>1, <2>2, <2>3, StoreKept
<1>. QED
  BY <1>2, <1>6

(* Between jobs the worker holds nothing.                                   *)
LEMMA WorkerRests ==
  ASSUME ShadowInv, ShadowStore', drain' \in DrainRecord, drain'.at \in {"off", "top"}, drain'.job = 0,
         ~ faulted' => \A k \in 1 .. Len(jobs') : jobs'[k].status # "claimed",
         ShadowFlags'
  PROVE  ShadowInv'
<1>1. Len(jobs') \in Nat
  BY DEF ShadowStore, ShadowTables
<1>2. drain'.job <= Len(jobs') /\ ~ Awaiting' /\ drain'.at # "chat"
  BY <1>1 DEF Awaiting
<1>3. ShadowWork'
  BY Zenon, <1>2 DEF ShadowWork
<1>. QED
  BY <1>3 DEF ShadowInv

LEMMA WorkerFacts ==
  ASSUME ShadowInv
  PROVE  /\ drain \in DrainRecord /\ drain.done \in 0 .. ShadowBatch /\ drain.job \in Nat
         /\ Len(jobs) \in Nat /\ DOMAIN jobs = 1 .. Len(jobs)
         /\ Awaiting => drain.job \in 1 .. Len(jobs) /\ drain.done < ShadowBatch
         /\ drain.at = "chat" =>
              /\ jobs[drain.job].status = "claimed"
              /\ \A k \in 1 .. Len(jobs) \ {drain.job} : jobs[k].status # "claimed"
         /\ drain.at # "chat" /\ ~ faulted => \A k \in 1 .. Len(jobs) : jobs[k].status # "claimed"
<1>1. /\ drain \in DrainRecord /\ drain.done \in 0 .. ShadowBatch /\ drain.job \in Nat
      /\ Len(jobs) \in Nat /\ DOMAIN jobs = 1 .. Len(jobs)
      /\ Awaiting => drain.job \in 1 .. Len(jobs) /\ drain.done < ShadowBatch
  BY DEF ShadowInv, ShadowWork, ShadowStore, ShadowTables, DrainRecord
<1>2. drain.at = "chat" =>
        /\ jobs[drain.job].status = "claimed"
        /\ \A k \in 1 .. Len(jobs) \ {drain.job} : jobs[k].status # "claimed"
  BY <1>1 DEF Awaiting, ShadowInv, ShadowWork, Frozen, ShadowStore, LoneClaim
<1>. QED
  BY <1>1, <1>2 DEF ShadowInv, ShadowWork

(* The lease on the gate is given back, and the loop goes on or ends.       *)
LEMMA ReturnsTyped ==
  ASSUME ShadowInv, Awaiting, JobReturns \/ JobThrows
  PROVE  /\ drain' \in DrainRecord /\ drain'.at \in {"off", "top"} /\ drain'.job = 0
         /\ holder' = "free" /\ wakeQueued' \in BOOLEAN
         /\ cut' = FALSE /\ wall' = FALSE /\ lateLease' = FALSE
<1>1. drain \in DrainRecord /\ drain.done \in 0 .. ShadowBatch /\ drain.done < ShadowBatch
  BY Zenon, WorkerFacts
<1>2. wakeQueued' \in BOOLEAN
  BY Zenon DEF JobReturns, JobThrows
<1>3. CASE JobReturns
  <2>1. drain.done + 1 \in 0 .. ShadowBatch
    BY <1>1, ShadowAssumption
  <2>2. drain' = [drain EXCEPT !.at = "top", !.done = @ + 1, !.job = 0]
    BY <1>3 DEF JobReturns
  <2>3. drain' \in DrainRecord /\ drain'.at = "top" /\ drain'.job = 0
    BY <1>1, <2>1, <2>2 DEF DrainRecord
  <2>. QED
    BY <1>2, <1>3, <2>3 DEF JobReturns
<1>4. CASE JobThrows
  BY Zenon, <1>2, <1>4, TickStarts DEF JobThrows
<1>. QED
  BY <1>3, <1>4

(* The job in hand ends with the store as it was, or with the job settled;  *)
(* from the call the lease is given back only with a settled job, or with a *)
(* failed write.                                                            *)
LEMMA JobOver ==
  ASSUME ShadowInv, Awaiting, JobReturns \/ JobThrows,
         UNCHANGED <<policyVars, due, drifted, active, closing>>,
         \/ UNCHANGED jobs
         \/ \E st \in {"held", "failed", "completed"} :
              /\ st = "completed" => This.status = "claimed" /\ drain.job \notin drifted
              /\ SetStatus(st),
         drain.at = "chat" /\ UNCHANGED jobs => faulted',
         allow' \in [Happenings -> Nat], faulted' \in BOOLEAN, faulted => faulted'
  PROVE  ShadowInv'
<1>1. /\ drain' \in DrainRecord /\ drain'.at \in {"off", "top"} /\ drain'.job = 0
      /\ holder' = "free" /\ wakeQueued' \in BOOLEAN
      /\ cut' = FALSE /\ wall' = FALSE /\ lateLease' = FALSE
  BY Zenon, ReturnsTyped
<1>2. ShadowFlags'
  <2>1. holder' \in {"free", "shadow", "other"}
    BY <1>1
  <2>. QED
    BY Zenon, <1>1, <2>1 DEF ShadowInv, ShadowFlags
<1>3. CASE UNCHANGED jobs
  <2>1. ShadowStore'
    BY Zenon, <1>3, StoreStays DEF ShadowInv, storeVars
  <2>2. ~ faulted' => \A k \in 1 .. Len(jobs') : jobs'[k].status # "claimed"
    BY Zenon, <1>3, WorkerFacts
  <2>. QED
    BY Zenon, <1>1, <1>2, <2>1, <2>2, WorkerRests
<1>4. CASE \E st \in {"held", "failed", "completed"} :
              /\ st = "completed" => This.status = "claimed" /\ drain.job \notin drifted
              /\ SetStatus(st)
  <2>1. PICK st \in {"held", "failed", "completed"} :
              /\ st = "completed" => This.status = "claimed" /\ drain.job \notin drifted
              /\ SetStatus(st)
    BY <1>4
  <2>2. PICK j \in 1 .. Len(jobs) : j = drain.job
    BY Zenon, WorkerFacts
  <2>3. /\ st = "completed" => jobs[j].status = "claimed" /\ j \notin drifted
        /\ jobs' = [jobs EXCEPT ![j].status = st]
    BY <2>1, <2>2 DEF This, SetStatus
  <2>4. /\ ShadowStore' /\ Len(jobs') = Len(jobs)
        /\ jobs'[j].status = st
        /\ \A k \in 1 .. Len(jobs) \ {j} : jobs'[k].status = jobs[k].status
    BY Zenon, <2>3, JobSettles
  <2>5. ~ faulted' => \A k \in 1 .. Len(jobs') : jobs'[k].status # "claimed"
    BY Zenon, <2>2, <2>4, WorkerFacts
  <2>. QED
    BY Zenon, <1>1, <1>2, <2>4, <2>5, WorkerRests
<1>. QED
  BY <1>3, <1>4

(* Nothing of the store moves and the worker is not at its call.            *)
LEMMA IdleMoves ==
  ASSUME ShadowInv, UNCHANGED <<policyVars, storeVars, faulted>>, drain.at # "chat",
         drain' \in DrainRecord, drain'.at # "chat", drain'.job <= Len(jobs),
         Awaiting' => drain'.job # 0 /\ drain'.done < ShadowBatch,
         ShadowFlags'
  PROVE  ShadowInv'
<1>1. ShadowStore'
  BY Zenon, StoreStays DEF ShadowInv
<1>2. ShadowWork'
  BY DEF ShadowInv, ShadowWork, storeVars
<1>. QED
  BY <1>1, <1>2 DEF ShadowInv

LEMMA TickTurns ==
  ASSUME ShadowInv, BatchSpent \/ NothingToDo
  PROVE  ShadowInv'
<1>1. UNCHANGED <<policyVars, storeVars, cut, wall, lateLease, holder, active, closing, faulted, allow>>
  BY DEF BatchSpent, NothingToDo
<1>2. drain.at = "top" /\ (drain' = StartTick(TRUE) \/ drain' = NoTick)
  BY DEF BatchSpent, NothingToDo, TickOver
<1>3. drain' \in DrainRecord /\ drain'.at \in {"off", "top"} /\ drain'.job = 0
  BY Zenon, <1>2, TickStarts
<1>4. wakeQueued' \in BOOLEAN
  <2>1. CASE BatchSpent
    BY Zenon, <2>1 DEF BatchSpent
  <2>2. CASE NothingToDo
    BY Zenon, <2>2 DEF NothingToDo, TickOver
  <2>. QED
    BY <2>1, <2>2
<1>5. ShadowFlags'
  BY Zenon, <1>1, <1>4 DEF ShadowInv, ShadowFlags
<1>6. drain'.job <= Len(jobs) /\ ~ Awaiting' /\ drain.at # "chat" /\ drain'.at # "chat"
  BY <1>2, <1>3, WorkerFacts DEF Awaiting
<1>. QED
  BY Zenon, <1>1, <1>3, <1>5, <1>6, IdleMoves

LEMMA DeferredKept ==
  ASSUME ShadowInv, Deferred
  PROVE  ShadowInv'
<1>1. UNCHANGED <<policyVars, storeVars, wakeQueued, cut, wall, lateLease, holder, active, closing,
                  faulted, allow>>
  BY DEF Deferred
<1>2. /\ drain.at = "top" /\ drain.done < ShadowBatch /\ drain' = [drain EXCEPT !.done = @ + 1]
      /\ drain \in DrainRecord /\ drain.done + 1 \in 0 .. ShadowBatch
  BY WorkerFacts, ShadowAssumption DEF Deferred
<1>3. drain' \in DrainRecord /\ drain'.at = "top" /\ drain'.job = drain.job
  BY <1>2 DEF DrainRecord
<1>4. drain'.job <= Len(jobs) /\ ~ Awaiting'
  BY <1>3 DEF ShadowInv, ShadowWork, Awaiting
<1>5. ShadowFlags'
  BY Zenon, <1>1 DEF ShadowInv, ShadowFlags
<1>. QED
  BY Zenon, <1>1, <1>2, <1>3, <1>4, <1>5, IdleMoves

(* The oldest waiting job is one of the table.                              *)
LEMMA OldestWaits ==
  ASSUME ShadowInv, Queue0 # {}
  PROVE  Oldest0 \in 1 .. Len(jobs) /\ jobs[Oldest0].status = "pending"
<1>1. Having("pending") # {} /\ Having("pending") \subseteq Nat
  BY WorkerFacts DEF Queue0, Having
<1>2. PICK j \in Having("pending") : \A i \in Having("pending") : j <= i
  BY Zenon, <1>1, HasLeast
<1>3. Oldest0 \in Having("pending")
  BY <1>2 DEF Oldest0
<1>. QED
  BY Zenon, <1>3, WorkerFacts DEF Having

LEMMA TakeKept ==
  ASSUME ShadowInv, TakeJob
  PROVE  ShadowInv'
<1>1. UNCHANGED <<policyVars, storeVars, wakeQueued, lateLease, active, closing, faulted, allow>>
  BY DEF TakeJob
<1>2. /\ drain.at = "top" /\ drain.done < ShadowBatch /\ Queue0 # {}
      /\ holder' = "shadow" /\ cut' = FALSE /\ wall' = FALSE
      /\ drain' = [drain EXCEPT !.at = "recall", !.job = Oldest0]
  BY DEF TakeJob
<1>3. PICK j \in 1 .. Len(jobs) : j = Oldest0
  BY Zenon, <1>2, OldestWaits
<1>4. drain' = [drain EXCEPT !.at = "recall", !.job = j] /\ drain \in DrainRecord
  BY Zenon, <1>2, <1>3, WorkerFacts
<1>5. drain' \in DrainRecord /\ drain'.at = "recall" /\ drain'.job = j /\ drain'.done = drain.done
  <2>1. j \in Nat
    BY <1>3
  <2>. QED
    BY <1>4, <2>1 DEF DrainRecord
<1>6. holder' \in {"free", "shadow", "other"}
  BY <1>2
<1>7. ShadowFlags'
  BY Zenon, <1>1, <1>2, <1>6 DEF ShadowInv, ShadowFlags
<1>8. drain'.job <= Len(jobs) /\ drain'.job # 0 /\ drain.at # "chat" /\ drain'.at # "chat"
  BY <1>2, <1>3, <1>5, WorkerFacts
<1>. QED
  BY Zenon, <1>1, <1>2, <1>5, <1>7, <1>8, IdleMoves

LEMMA RecallKept ==
  ASSUME ShadowInv, RecallAborted \/ ClaimRefused0 \/ ClaimBusy
  PROVE  ShadowInv'
<1>1. /\ UNCHANGED <<policyVars, due, drifted, active, closing>>
      /\ drain.at = "recall" /\ (JobReturns \/ JobThrows)
  BY DEF RecallAborted, ClaimRefused0, ClaimBusy
<1>2. \/ UNCHANGED jobs
      \/ SetStatus("held")
  BY DEF RecallAborted, ClaimRefused0, ClaimBusy, Settles
<1>3. (UNCHANGED <<faulted, allow>>) \/ Spend("faults")
  BY DEF RecallAborted, ClaimRefused0, ClaimBusy, Settles, Free
<1>4. allow' \in [Happenings -> Nat] /\ faulted' \in BOOLEAN /\ (faulted => faulted')
  <2>1. CASE UNCHANGED <<faulted, allow>>
    BY <2>1 DEF ShadowInv, ShadowFlags
  <2>2. CASE Spend("faults")
    BY Zenon, <2>2, SpendTyped DEF Happenings
  <2>. QED
    BY <1>3, <2>1, <2>2
<1>5. \/ UNCHANGED jobs
      \/ \E st \in {"held", "failed", "completed"} :
           /\ st = "completed" => This.status = "claimed" /\ drain.job \notin drifted
           /\ SetStatus(st)
  BY <1>2
<1>. QED
  BY Zenon, <1>1, <1>4, <1>5, JobOver DEF Awaiting

(* The claim freezes the ground as it is.                                   *)
LEMMA ClaimKept ==
  ASSUME ShadowInv, Claim0
  PROVE  ShadowInv'
<1>1. UNCHANGED <<policyVars, due, drifted, active, closing, faulted, allow>>
  BY DEF Claim0
<1>2. /\ drain.at = "recall" /\ This.status = "pending" /\ ~ policy.paused /\ Claimed = {}
  BY DEF Claim0
<1>3. CASE SetStatus("held") /\ JobReturns
  <2>1. /\ allow' \in [Happenings -> Nat] /\ faulted' \in BOOLEAN /\ (faulted => faulted')
    BY <1>1 DEF ShadowInv, ShadowFlags
  <2>. QED
    BY Zenon, <1>1, <1>2, <1>3, <2>1, JobOver DEF Awaiting
<1>4. CASE /\ jobs' = [jobs EXCEPT ![drain.job] =
                         [@ EXCEPT !.status = "claimed", !.control = policy.version,
                                   !.epoch = epoch[This.scope], !.applies = applies[This.scope]]]
           /\ drain' = [drain EXCEPT !.at = "chat"]
           /\ UNCHANGED <<wakeQueued, cut, wall, lateLease, holder>>
  <2>1. PICK j \in 1 .. Len(jobs) : j = drain.job
    BY Zenon, <1>2, WorkerFacts DEF Awaiting
  <2>2. /\ jobs \in Seq(JobRow) /\ Len(jobs) \in Nat /\ jobs[j] \in JobRow
        /\ policy \in [paused : BOOLEAN, version : Nat]
        /\ epoch \in [Scopes -> Nat] /\ applies \in [Scopes -> BOOLEAN]
        /\ jobs[j].status = "pending"
        /\ \A k \in 1 .. Len(jobs) : jobs[k].status # "claimed"
    BY <1>2, <2>1 DEF ShadowInv, ShadowStore, ShadowTables, This, Claimed, Having
  <2>3. PICK s \in Scopes : s = jobs[j].scope
    BY <2>2 DEF JobRow
  <2>4. PICK row : row = [jobs[j] EXCEPT !.status = "claimed", !.control = policy.version,
                                         !.epoch = epoch[s], !.applies = applies[s]]
    OBVIOUS
  <2>5. /\ row \in JobRow /\ row.scope = s /\ row.status = "claimed"
        /\ row.control = policy.version /\ row.epoch = epoch[s] /\ row.applies = applies[s]
    BY <2>2, <2>3, <2>4 DEF JobRow
  <2>6. jobs' = [jobs EXCEPT ![j] = row]
    BY Zenon, <1>4, <2>1, <2>3, <2>4 DEF This
  <2>7. /\ jobs' \in Seq(JobRow) /\ Len(jobs') = Len(jobs) /\ jobs'[j] = row
        /\ \A k \in 1 .. Len(jobs) \ {j} : jobs'[k] = jobs[k]
    BY <2>2, <2>5, <2>6
  <2>8. policy' = policy /\ epoch' = epoch /\ applies' = applies
    BY <1>1 DEF policyVars
  <2>9. ShadowTables'
    BY <1>1, <2>7, <2>8 DEF ShadowInv, ShadowStore, ShadowTables
  <2>10. LoneClaim'
    BY <2>2, <2>7 DEF LoneClaim
  <2>11. NoneWaits'
    BY <1>2, <2>8 DEF NoneWaits
  <2>12. j \notin drifted
    BY <2>2 DEF ShadowInv, ShadowStore, DriftedUndecided
  <2>13. DriftedUndecided'
    BY <1>1, <2>7, <2>12 DEF ShadowInv, ShadowStore, ShadowTables, DriftedUndecided
  <2>14. ASSUME NEW t \in Scopes PROVE Answered(t)'
    <3>. SUFFICES ASSUME due[t].job # 0
                  PROVE  /\ jobs'[due[t].job].scope = t
                         /\ due[t].epoch <= epoch[t]
                         /\ jobs'[due[t].job].status \in {"claimed", "completed"} =>
                              due[t].epoch <= jobs'[due[t].job].epoch
      BY <1>1, <2>8 DEF Answered
    <3>1. due[t].job \in 1 .. Len(jobs) /\ Answered(t)
      BY DEF ShadowInv, ShadowStore, ShadowTables
    <3>2. CASE due[t].job = j
      BY <2>3, <2>5, <2>7, <3>1, <3>2 DEF Answered
    <3>3. CASE due[t].job # j
      BY <2>7, <3>1, <3>3 DEF Answered
    <3>. QED
      BY <3>2, <3>3
  <2>15. drain' \in DrainRecord /\ drain'.at = "chat" /\ drain'.job = j /\ drain'.done = drain.done
    BY Zenon, <1>4, <2>1, WorkerFacts DEF DrainRecord
  <2>16. Frozen(j)'
    BY <1>1, <2>2, <2>5, <2>7, <2>8, <2>12 DEF Frozen
  <2>17. ShadowWork'
    BY <1>2, <2>1, <2>7, <2>15, <2>16, WorkerFacts DEF ShadowWork, Awaiting
  <2>18. ShadowFlags'
    BY Zenon, <1>1, <1>4 DEF ShadowInv, ShadowFlags
  <2>. QED
    BY <2>9, <2>10, <2>11, <2>13, <2>14, <2>17, <2>18 DEF ShadowInv, ShadowStore
<1>. QED
  BY <1>3, <1>4 DEF Claim0

LEMMA WallKept ==
  ASSUME ShadowInv, WallFires
  PROVE  ShadowInv'
<1>1. UNCHANGED <<policyVars, storeVars, drain, wakeQueued, lateLease, holder, active, closing,
                  faulted, allow>>
  BY DEF WallFires
<1>2. wall' = TRUE /\ cut' = TRUE
  BY DEF WallFires
<1>3. ShadowFlags'
  BY Zenon, <1>1, <1>2 DEF ShadowInv, ShadowFlags
<1>. QED
  BY Zenon, <1>1, <1>3, ShadowStays DEF WakesTick

(* The lease that ran out is one of the fences.                             *)
LEMMA LeaseKept ==
  ASSUME ShadowInv, LeaseRunsOut
  PROVE  ShadowInv'
<1>1. UNCHANGED <<policy, epoch, applies, jobs, due, drain, wakeQueued, cut, wall, holder, active,
                  closing, faulted, allow>>
  BY DEF LeaseRunsOut, policyVars
<1>2. drain.at = "chat" /\ lateLease' = TRUE /\ drifted' = drifted \union {drain.job}
  BY DEF LeaseRunsOut
<1>3. drain.job \in 1 .. Len(jobs) /\ jobs[drain.job].status = "claimed"
  BY Zenon, <1>2, WorkerFacts DEF Awaiting
<1>4. /\ ShadowTables /\ jobs \in Seq(JobRow) /\ drifted \subseteq 1 .. Len(jobs)
      /\ policy \in [paused : BOOLEAN, version : Nat]
      /\ epoch \in [Scopes -> Nat] /\ applies \in [Scopes -> BOOLEAN]
  BY DEF ShadowInv, ShadowStore, ShadowTables
<1>5. /\ drifted' \subseteq 1 .. Len(jobs)
      /\ \A k \in drifted' \ drifted : jobs[k].status = "claimed"
  BY <1>2, <1>3, <1>4
<1>6. \A k \in 1 .. Len(jobs) : SameGround(k) /\ jobs'[k].status = jobs[k].status
  BY <1>1 DEF SameGround
<1>7. /\ policy' \in [paused : BOOLEAN, version : Nat]
      /\ epoch' \in [Scopes -> Nat] /\ applies' \in [Scopes -> BOOLEAN]
      /\ \A t \in Scopes : epoch[t] <= epoch'[t]
      /\ jobs' \in Seq(JobRow) /\ Len(jobs') = Len(jobs)
  BY <1>1, <1>4
<1>8. NoneWaits'
  BY <1>1 DEF ShadowInv, ShadowStore, NoneWaits
<1>9. ShadowStore'
  BY Zenon, <1>1, <1>5, <1>6, <1>7, <1>8, StoreKept DEF ShadowInv
<1>10. Frozen(drain.job)'
  BY <1>1, <1>2 DEF ShadowInv, ShadowWork, Frozen, Moved
<1>11. ShadowWork'
  BY <1>1, <1>2, <1>10 DEF ShadowInv, ShadowWork, Awaiting
<1>12. lateLease' \in BOOLEAN
  BY <1>2
<1>13. ShadowFlags'
  BY Zenon, <1>1, <1>12 DEF ShadowInv, ShadowFlags
<1>. QED
  BY <1>9, <1>11, <1>13 DEF ShadowInv

(* An answer is written when the fences see nothing that moved.             *)
LEMMA ChatKept ==
  ASSUME ShadowInv, ChatAborted \/ ChatUnusable \/ ChatDecides
  PROVE  ShadowInv'
<1>1. /\ UNCHANGED <<policyVars, due, drifted, active, closing>>
      /\ drain.at = "chat" /\ (JobReturns \/ JobThrows)
  BY DEF ChatAborted, ChatUnusable, ChatDecides
<1>2. /\ This.status = "claimed" /\ Frozen(drain.job)
  BY Zenon, <1>1, WorkerFacts DEF This, ShadowInv, ShadowWork
<1>3. \/ UNCHANGED <<faulted, allow>> /\ \E st \in {"held", "failed"} : SetStatus(st)
      \/ UNCHANGED <<faulted, allow>> /\ SetStatus("completed") /\ ~ Fenced(drain.job)
      \/ Spend("faults") /\ UNCHANGED jobs
  <2>1. CASE ChatAborted \/ ChatUnusable
    <3>1. \E st \in {"held", "failed"} : Settles(st)
      BY <2>1 DEF ChatAborted, ChatUnusable
    <3>. QED
      BY <1>2, <3>1 DEF Settles, Free
  <2>2. CASE ChatDecides
    BY <1>2, <2>2 DEF ChatDecides, Free
  <2>. QED
    BY <2>1, <2>2
<1>4. allow' \in [Happenings -> Nat] /\ faulted' \in BOOLEAN /\ (faulted => faulted')
  <2>1. CASE UNCHANGED <<faulted, allow>>
    BY <2>1 DEF ShadowInv, ShadowFlags
  <2>2. CASE Spend("faults")
    BY Zenon, <2>2, SpendTyped DEF Happenings
  <2>. QED
    BY <1>3, <2>1, <2>2
<1>5. ~ Fenced(drain.job) => drain.job \notin drifted
  BY <1>2 DEF Frozen, Moved, Fenced
<1>6. \/ UNCHANGED jobs
      \/ \E st \in {"held", "failed", "completed"} :
           /\ st = "completed" => This.status = "claimed" /\ drain.job \notin drifted
           /\ SetStatus(st)
  BY <1>2, <1>3, <1>5
<1>7. UNCHANGED jobs => faulted'
  <2>1. PICK j \in 1 .. Len(jobs) : j = drain.job
    BY Zenon, <1>1, WorkerFacts DEF Awaiting
  <2>2. ShadowTables
    BY DEF ShadowInv, ShadowStore
  <2>3. \A st \in {"held", "failed", "completed"} : SetStatus(st) => jobs' # jobs
    <3>. SUFFICES ASSUME NEW st \in {"held", "failed", "completed"}, SetStatus(st)
                  PROVE  jobs' # jobs
      OBVIOUS
    <3>1. jobs' = [jobs EXCEPT ![j].status = st] /\ st \in {"pending", "claimed"} \union Terminal0
      BY <2>1 DEF SetStatus, Terminal0
    <3>2. jobs'[j].status = st
      BY Zenon, <2>2, <3>1, StatusSet
    <3>. QED
      BY <1>2, <2>1, <3>2 DEF This
  <2>4. Spend("faults") => faulted'
    BY Zenon, SpendTyped DEF Happenings
  <2>. QED
    BY <1>3, <2>3, <2>4
<1>. QED
  BY Zenon, <1>1, <1>4, <1>6, <1>7, JobOver DEF Awaiting

(* The restart fence holds every live job.                                  *)
LEMMA RestartKept ==
  ASSUME ShadowInv, ServiceRestarts
  PROVE  ShadowInv'
<1>1. /\ UNCHANGED <<epoch, applies, due, drifted>> /\ Spend("lives")
      /\ HoldAll({"pending", "claimed"}) /\ drain' = NoTick
      /\ policy' = IF policy.paused THEN policy
                   ELSE [paused |-> TRUE, version |-> policy.version + 1]
  BY DEF ServiceRestarts
<1>2. /\ ShadowTables /\ policy \in [paused : BOOLEAN, version : Nat]
      /\ epoch \in [Scopes -> Nat] /\ applies \in [Scopes -> BOOLEAN] /\ drifted \subseteq 1 .. Len(jobs)
  BY DEF ShadowInv, ShadowStore, ShadowTables
<1>3. /\ jobs' \in Seq(JobRow) /\ Len(jobs') = Len(jobs)
      /\ \A k \in 1 .. Len(jobs) : SameGround(k)
      /\ \A k \in 1 .. Len(jobs) :
           jobs'[k].status = IF jobs[k].status \in {"pending", "claimed"} THEN "held"
                             ELSE jobs[k].status
  BY Zenon, <1>1, <1>2, StatusesHeld
<1>4. policy' \in [paused : BOOLEAN, version : Nat]
  BY <1>1, <1>2
<1>5. NoneWaits'
  BY <1>3 DEF NoneWaits
<1>6. /\ epoch' \in [Scopes -> Nat] /\ applies' \in [Scopes -> BOOLEAN]
      /\ \A t \in Scopes : epoch[t] <= epoch'[t]
      /\ drifted' \subseteq 1 .. Len(jobs) /\ drifted' \ drifted = {}
      /\ \A k \in 1 .. Len(jobs) : jobs'[k].status = jobs[k].status \/ jobs'[k].status = "held"
  BY <1>1, <1>2, <1>3
<1>7. ShadowStore'
  BY Zenon, <1>1, <1>3, <1>4, <1>5, <1>6, StoreKept DEF ShadowInv
<1>8. drain' \in DrainRecord /\ drain'.at = "off" /\ drain'.job = 0
  BY Zenon, <1>1, TickStarts
<1>9. \A k \in 1 .. Len(jobs') : jobs'[k].status # "claimed"
  BY <1>3
<1>10. allow' \in [Happenings -> Nat] /\ faulted' \in BOOLEAN
  BY Zenon, <1>1, SpendTyped DEF Happenings
<1>11. /\ wakeQueued' = FALSE /\ cut' = FALSE /\ wall' = FALSE /\ lateLease' = FALSE
       /\ active' = FALSE /\ closing' = FALSE /\ holder' \in {"free", "shadow", "other"}
  BY DEF ServiceRestarts
<1>12. ShadowFlags'
  BY Zenon, <1>10, <1>11 DEF ShadowFlags
<1>. QED
  BY Zenon, <1>7, <1>8, <1>9, <1>12, WorkerRests

LEMMA ShadowStarts ==
  ASSUME ShadowInit
  PROVE  ShadowInv
<1>1. ShadowTables
  BY ShadowAssumption DEF ShadowInit, ShadowTables
<1>2. Len(jobs) = 0 /\ drifted = {} /\ \A s \in Scopes : due[s].job = 0
  BY DEF ShadowInit
<1>3. ShadowStore
  BY <1>1, <1>2 DEF ShadowStore, LoneClaim, NoneWaits, DriftedUndecided, Answered
<1>4. drain \in DrainRecord /\ drain.at = "off" /\ drain.job = 0
  BY Zenon, TickStarts DEF ShadowInit
<1>5. ShadowWork
  BY <1>2, <1>4 DEF ShadowWork, Awaiting
<1>6. holder \in {"free", "shadow", "other"} /\ allow \in [Happenings -> Nat]
  BY ShadowAssumption DEF ShadowInit
<1>7. ShadowFlags
  BY Zenon, <1>6 DEF ShadowInit, ShadowFlags
<1>. QED
  BY <1>3, <1>5, <1>7 DEF ShadowInv

LEMMA ShadowStep ==
  ASSUME ShadowInv, [ShadowNext]_shadowVars
  PROVE  ShadowInv'
<1>1. CASE UserStep
  <2>1. CASE \E s \in Scopes : ScopePolicyChanges(s) \/ RequestDeliberation(s) \/ WindowCrosses(s)
    BY Zenon, <2>1, ChangeKept, RequestKept, WindowKept
  <2>2. CASE \E j \in DOMAIN jobs : CancelJob(j)
    BY Zenon, <2>2, CancelKept
  <2>3. CASE \E paused \in BOOLEAN : SetControlTo(paused)
    BY Zenon, <2>3, CommandKept
  <2>. QED
    BY Zenon, <1>1, <2>1, <2>2, <2>3, PostKept, UnannouncedKept, GateKept DEF UserStep
<1>2. CASE RunSettled \/ OtherFreesGate
  BY Zenon, <1>2, SettleKept, GateKept
<1>3. CASE WorkerStep
  BY Zenon, <1>3, TickTurns, DeferredKept, TakeKept, RecallKept, ClaimKept, ChatKept DEF WorkerStep
<1>4. CASE WallFires \/ ClaimBusy \/ LeaseRunsOut
  BY Zenon, <1>4, WallKept, RecallKept, LeaseKept
<1>5. CASE ChatUnusable \/ ChatDecides
  BY Zenon, <1>5, ChatKept
<1>6. CASE ServiceStops \/ ServiceRestarts
  BY Zenon, <1>6, StopKept, RestartKept
<1>7. CASE UNCHANGED shadowVars
  <2>1. UNCHANGED <<policyVars, storeVars, drain, wakeQueued, cut, wall, lateLease, holder, active,
                    closing, faulted, allow>>
    BY <1>7 DEF shadowVars, workerVars
  <2>2. ShadowFlags'
    BY Zenon, <2>1 DEF ShadowInv, ShadowFlags
  <2>. QED
    BY Zenon, <2>1, <2>2, ShadowStays DEF WakesTick
<1>. QED
  BY <1>1, <1>2, <1>3, <1>4, <1>5, <1>6, <1>7 DEF ShadowNext

(* What the invariant says covers the types and the safety of the decisions. *)
LEMMA ShadowInvTyped ==
  ASSUME ShadowInv
  PROVE  ShadowTypeOK
<1>1. ShadowTables /\ drain \in DrainRecord /\ drain.job \in 0 .. Len(jobs) /\ DOMAIN jobs = 1 .. Len(jobs)
  BY DEF ShadowInv, ShadowStore, ShadowTables, ShadowWork, DrainRecord
<1>2. {wakeQueued, cut, wall, lateLease, active, closing, faulted} \subseteq BOOLEAN
  BY Zenon DEF ShadowInv, ShadowFlags
<1>3. drain \in [at : {"off", "top", "recall", "chat"}, done : 0 .. ShadowBatch, second : BOOLEAN,
                 job : 0 .. Len(jobs)]
  BY <1>1 DEF DrainRecord
<1>. QED
  BY <1>1, <1>2, <1>3 DEF ShadowTables, ShadowInv, ShadowFlags, JobRow, ShadowTypeOK

LEMMA ShadowInvSafe ==
  ASSUME ShadowInv
  PROVE  ShadowSafe
<1>1. DOMAIN jobs = 1 .. Len(jobs) /\ Claimed \subseteq 1 .. Len(jobs)
  BY DEF ShadowInv, ShadowStore, ShadowTables, Claimed, Having
<1>2. Cardinality(Claimed) <= 1
  <2>1. CASE Claimed = {}
    BY <2>1, FS_EmptySet
  <2>2. CASE Claimed # {}
    <3>1. PICK j \in Claimed : TRUE
      BY <2>2
    <3>2. Claimed = {j}
      BY <1>1, <3>1 DEF Claimed, Having, ShadowInv, ShadowStore, LoneClaim
    <3>3. Cardinality(Claimed) = 1
      BY Zenon, <3>2, FS_Singleton
    <3>. QED
      BY <3>3
  <2>. QED
    BY <2>1, <2>2
<1>3. ~ faulted => Claimed = IF drain.at = "chat" THEN {drain.job} ELSE {}
  <2>1. CASE drain.at = "chat"
    BY Zenon, <1>1, <2>1, WorkerFacts DEF Claimed, Having, Awaiting
  <2>2. CASE drain.at # "chat"
    BY Zenon, <1>1, <2>2, WorkerFacts DEF Claimed, Having
  <2>. QED
    BY <2>1, <2>2
<1>4. policy.paused => Having("pending") = {}
  BY <1>1 DEF ShadowInv, ShadowStore, NoneWaits, Having
<1>5. DecisionIsFresh
  BY DEF ShadowInv, ShadowStore, DriftedUndecided, DecisionIsFresh
<1>6. ChangeIsAnswered
  <2>. SUFFICES ASSUME NEW s \in Scopes, due[s].job # 0,
                       jobs[due[s].job].status \in {"claimed", "completed"}
                PROVE  jobs[due[s].job].epoch >= due[s].epoch
    BY DEF ChangeIsAnswered
  <2>1. /\ due[s].job \in 1 .. Len(jobs) /\ due[s].epoch \in Nat /\ jobs[due[s].job] \in JobRow
        /\ due[s].epoch <= jobs[due[s].job].epoch
    BY DEF ShadowInv, ShadowStore, ShadowTables, Answered
  <2>. QED
    BY <2>1 DEF JobRow
<1>. QED
  BY <1>2, <1>3, <1>4, <1>5, <1>6 DEF ShadowSafe, OneLease

(* One shadow job is claimed at a time and it is the worker's own, a        *)
(* decision stands on ground that has not moved since the claim, and no     *)
(* change made while unpaused is answered from before it                    *)
(* (claimShadowJob, completeShadowJob, enqueueShadowSourceInTx), for any    *)
(* scopes, batches, jobs, commands, failed writes and restarts.             *)
THEOREM ShadowSound == ShadowSpec => []ShadowSafe
<1>1. ShadowInit => ShadowInv
  BY Zenon, ShadowStarts
<1>2. ShadowInv /\ [ShadowNext]_shadowVars => ShadowInv'
  BY Zenon, ShadowStep
<1>3. ShadowInv => ShadowSafe
  BY Zenon, ShadowInvSafe
<1>. QED
  BY <1>1, <1>2, <1>3, PTL DEF ShadowSpec

(***************************************************************************)
(* Auto-dispatch.                                                           *)
(***************************************************************************)
RuleStatus == {"active", "lapsed", "expired", "revoked"}
PlanRow == [policy : Nat, turn : Nat, run : Nat,
            status : {"frozen", "open", "superseded", "dispatched", "blocked"}]
ExecStatus == {"reserved", "authorized", "denied", "blocked", "superseded"}
GrantStatus == {"none", "queued", "claimed", "revoked", "stopped", "over"}
ExecRow == [plan : Nat, policy : Nat, status : ExecStatus, linked : BOOLEAN, stop : BOOLEAN,
            gen : Nat, today : BOOLEAN, grant : GrantStatus, asked : Nat, given : Nat]
RootRow == [exec : Nat, is : {"prepared", "cleaned", "gone", "bare"}, old : BOOLEAN,
            blind : BOOLEAN]
IntakeRecord == [at : {"off", "plan", "prepare"}, cut : BOOLEAN, of : Intakes, plan : Nat,
                 blind : BOOLEAN]

(* The tables of the ledger.                                                *)
DispatchTables ==
  /\ chat \in [turn : Nat, run : Nat, busy : BOOLEAN, sel : Nat]
  /\ brake \in [paused : BOOLEAN, version : Nat]
  /\ rules \in Seq(RuleStatus)
  /\ plans \in Seq(PlanRow)
  /\ execs \in Seq(ExecRow)
  /\ jobRoots \in Seq(RootRow)
  /\ era \in Nat

(* Rows refer to rows that are there.                                       *)
References ==
  /\ \A i \in 1 .. Len(plans) : plans[i].policy \in 1 .. Len(rules)
  /\ \A e \in 1 .. Len(execs) :
       execs[e].plan \in 1 .. Len(plans) /\ execs[e].policy \in 1 .. Len(rules)
  /\ \A c \in 1 .. Len(jobRoots) : jobRoots[c].exec <= Len(execs)

Ended(p) == rules[p] \in {"revoked", "expired"}
Copied(e) == \E c \in 1 .. Len(jobRoots) : jobRoots[c].exec = e /\ jobRoots[c].is = "prepared"

(* An execution was given what was asked for; one whose policy ended is     *)
(* retired, and only such a one is superseded; a grant that may run or has  *)
(* to be settled has its copy.                                              *)
ExecSound(e) ==
  /\ execs[e].asked = execs[e].given
  /\ execs[e].grant \in {"claimed", "stopped"} => execs[e].linked
  /\ execs[e].status = "denied" => execs[e].grant = "none"
  /\ execs[e].status = "superseded" => Ended(execs[e].policy)
  /\ Ended(execs[e].policy) =>
       /\ execs[e].status # "reserved"
       /\ execs[e].linked => execs[e].grant # "queued"
       /\ execs[e].grant = "claimed" => execs[e].stop
  /\ execs[e].linked /\ execs[e].grant \in {"queued", "claimed", "stopped"} => Copied(e)

(* What counts towards the concurrent executions of a policy: what is       *)
(* reserved, and every grant to come or at work that is not blocked.        *)
Load(p) ==
  {e \in 1 .. Len(execs) :
     /\ execs[e].policy = p /\ execs[e].status # "blocked"
     /\ execs[e].status = "reserved" \/ execs[e].grant \in {"queued", "claimed"}}

CapsKept ==
  \A p \in 1 .. Len(rules) :
    Cardinality(SpentToday(p)) <= JobsPerDay /\ Cardinality(Load(p)) <= Concurrent

(* A policy with room for one more execution.                               *)
HasRoom(p) == Cardinality(SpentToday(p)) < JobsPerDay /\ Cardinality(Load(p)) < Concurrent

(* A captured intent is of the present as long as the control version is.   *)
Captured(p) ==
  /\ p.policy \in 1 .. Len(rules)
  /\ p.version <= brake.version
  /\ p.version = brake.version => p.era = era

WaitingCaptured == \A i \in 1 .. Len(waiting) : Captured(waiting[i])
HandCaptured == intake.at # "off" /\ ~ intake.cut => Captured(intake.of)

IntentKept ==
  /\ waiting \in Seq(Intakes)
  /\ intake \in IntakeRecord
  /\ WaitingCaptured
  /\ HandCaptured
  /\ intake.plan <= Len(plans)
  /\ intake.at = "prepare" =>
       /\ intake.plan # 0
       /\ plans[intake.plan].policy = intake.of.policy

(* The copies that came in behind a prune that worked.                      *)
Counted(cs) == {c \in Retained(cs) : ~ cs[c].blind}

CopiesBounded ==
  /\ Cardinality(Counted(jobRoots)) <= MaxRetained
  /\ intake.at = "prepare" /\ ~ intake.blind => Cardinality(Counted(jobRoots)) < MaxRetained

DispatchFlags ==
  /\ pump \in {"off", "top", "in", "end"}
  /\ wakeAgain \in BOOLEAN
  /\ shut \in BOOLEAN
  /\ slot \in {"free", "mine", "other"}
  /\ spare \in [DispatchEvents -> Nat]

DispatchLedger ==
  /\ DispatchTables
  /\ References
  /\ \A e \in 1 .. Len(execs) : ExecSound(e)
  /\ CapsKept

DispatchInv == DispatchLedger /\ IntentKept /\ CopiesBounded /\ DispatchFlags

(* Counting among the first n numbers.                                      *)
LEMMA CountsFewer ==
  ASSUME NEW n \in Nat, NEW T \in SUBSET (1 .. n), NEW S \in SUBSET T
  PROVE  IsFiniteSet(T) /\ Cardinality(T) \in Nat /\ Cardinality(S) \in Nat
         /\ Cardinality(S) <= Cardinality(T)
<1>1. IsFiniteSet(1 .. n)
  BY FS_Interval
<1>2. IsFiniteSet(T)
  BY <1>1, FS_Subset
<1>. QED
  BY <1>2, FS_Subset, FS_CardinalityType

LEMMA CountsOneMore ==
  ASSUME NEW n \in Nat, NEW T \in SUBSET (1 .. n), NEW x, NEW S \in SUBSET (T \union {x})
  PROVE  Cardinality(S) \in Nat /\ Cardinality(T) \in Nat /\ Cardinality(S) <= Cardinality(T) + 1
<1>1. IsFiniteSet(T) /\ Cardinality(T) \in Nat
  BY Zenon, CountsFewer
<1>2. /\ IsFiniteSet(T \union {x}) /\ Cardinality(T \union {x}) \in Nat
      /\ Cardinality(T \union {x}) <= Cardinality(T) + 1
  <2>1. /\ IsFiniteSet(T \union {x})
        /\ Cardinality(T \union {x}) = IF x \in T THEN Cardinality(T) ELSE Cardinality(T) + 1
    BY Zenon, <1>1, FS_AddElement
  <2>2. Cardinality(T \union {x}) \in Nat
    BY Zenon, <2>1, FS_CardinalityType
  <2>. QED
    BY <1>1, <2>1, <2>2
<1>3. IsFiniteSet(S) /\ Cardinality(S) \in Nat /\ Cardinality(S) <= Cardinality(T \union {x})
  BY <1>2, FS_Subset, FS_CardinalityType
<1>. QED
  BY <1>1, <1>2, <1>3

(* The newest of some rows is one of them.                                  *)
LEMMA NewestIn ==
  ASSUME NEW n \in Nat, NEW S \in SUBSET (1 .. n), S # {}
  PROVE  Newest(S) \in S
<1>. DEFINE D == {n - i : i \in S}
<1>1. D \subseteq Nat /\ D # {}
  OBVIOUS
<1>2. PICK d \in D : \A e \in D : d <= e
  BY Zenon, <1>1, HasLeast
<1>3. PICK i \in S : d = n - i
  BY <1>2
<1>4. \A j \in S : j <= i
  <2>. SUFFICES ASSUME NEW j \in S PROVE j <= i
    OBVIOUS
  <2>1. d <= n - j
    BY <1>2
  <2>. QED
    BY <1>3, <2>1
<1>. QED
  BY <1>4 DEF Newest

LEMMA DispatchFacts ==
  ASSUME DispatchLedger
  PROVE  /\ Len(rules) \in Nat /\ DOMAIN rules = 1 .. Len(rules)
         /\ Len(plans) \in Nat /\ DOMAIN plans = 1 .. Len(plans)
         /\ Len(execs) \in Nat /\ DOMAIN execs = 1 .. Len(execs)
         /\ Len(jobRoots) \in Nat /\ DOMAIN jobRoots = 1 .. Len(jobRoots)
BY DEF DispatchLedger, DispatchTables

(* What an execution is of stays with it; what it is only winds down.       *)
SameExec(k) ==
  /\ execs'[k].plan = execs[k].plan
  /\ execs'[k].policy = execs[k].policy
  /\ execs'[k].linked = execs[k].linked
  /\ execs'[k].asked = execs[k].asked
  /\ execs'[k].given = execs[k].given

WindsDown(k) ==
  /\ execs'[k].today => execs[k].today
  /\ \/ execs'[k].status = execs[k].status
     \/ execs[k].status = "reserved" /\ execs'[k].status = "superseded"
  /\ \/ execs'[k].grant = execs[k].grant
     \/ execs[k].grant = "queued" /\ execs'[k].grant \in {"claimed", "revoked"}
     \/ execs[k].grant = "claimed" /\ execs'[k].grant \in {"stopped", "over"}

(* An execution is added with its references, and is refused, blocked or    *)
(* within the caps.                                                         *)
AddedFits ==
  Len(execs') = Len(execs) + 1 =>
    /\ execs'[Len(execs')].plan \in 1 .. Len(plans')
    /\ execs'[Len(execs')].policy \in 1 .. Len(rules)
    /\ \/ execs'[Len(execs')].status = "blocked"
       \/ execs'[Len(execs')].status = "denied" /\ execs'[Len(execs')].grant = "none"
       \/ HasRoom(execs'[Len(execs')].policy)

(* Executions that wind down, and one more whose policy had room for it,    *)
(* stay within the caps.                                                    *)
LEMMA CapsStay ==
  ASSUME DispatchLedger, execs' \in Seq(ExecRow),
         Len(rules') \in Nat, Len(rules) <= Len(rules'),
         Len(execs') = Len(execs) \/ Len(execs') = Len(execs) + 1,
         \A k \in 1 .. Len(execs) : SameExec(k) /\ WindsDown(k),
         AddedFits
  PROVE  CapsKept'
<1>. SUFFICES ASSUME NEW p \in 1 .. Len(rules')
              PROVE  /\ Cardinality(SpentToday(p)') <= JobsPerDay
                     /\ Cardinality(Load(p)') <= Concurrent
  BY DEF CapsKept
<1>. DEFINE n == Len(execs')
            x == execs'[n]
<1>0. Len(execs) \in Nat /\ n \in Nat /\ JobsPerDay \in Nat /\ Concurrent \in Nat
  BY DispatchFacts, DispatchAssumption
<1>1. /\ Len(execs) \in Nat /\ DOMAIN execs = 1 .. Len(execs) /\ n \in Nat
      /\ DOMAIN execs' = 1 .. n /\ Len(rules) \in Nat
  BY DispatchFacts
<1>2. SpentToday(p) \subseteq 1 .. Len(execs) /\ Load(p) \subseteq 1 .. Len(execs)
  BY Zenon, <1>1 DEF SpentToday, Spent, Load
<1>3. \A k \in 1 .. Len(execs) :
        /\ k \in SpentToday(p)' => k \in SpentToday(p)
        /\ k \in Load(p)' => k \in Load(p)
  BY Zenon, <1>1 DEF SameExec, WindsDown, SpentToday, Spent, Load
<1>4. SpentToday(p)' \subseteq 1 .. n /\ Load(p)' \subseteq 1 .. n
  BY Zenon, <1>1 DEF SpentToday, Spent, Load
<1>5. Cardinality(SpentToday(p)) <= JobsPerDay /\ Cardinality(Load(p)) <= Concurrent
  <2>1. CASE p \in 1 .. Len(rules)
    BY <2>1 DEF DispatchLedger, CapsKept
  <2>2. CASE p \notin 1 .. Len(rules)
    <3>1. \A k \in 1 .. Len(execs) : execs[k].policy # p
      BY <2>2 DEF DispatchLedger, References
    <3>2. SpentToday(p) = {} /\ Load(p) = {}
      BY Zenon, <1>1, <3>1 DEF SpentToday, Spent, Load
    <3>. QED
      <4>1. Cardinality(SpentToday(p)) = 0 /\ Cardinality(Load(p)) = 0
        BY Zenon, <3>2, FS_EmptySet
      <4>. QED
        BY <1>0, <4>1
  <2>. QED
    BY <2>1, <2>2
<1>6. CASE SpentToday(p)' \subseteq SpentToday(p) /\ Load(p)' \subseteq Load(p)
  <2>1. /\ Cardinality(SpentToday(p)') \in Nat /\ Cardinality(SpentToday(p)) \in Nat
        /\ Cardinality(SpentToday(p)') <= Cardinality(SpentToday(p))
    BY Zenon, <1>1, <1>2, <1>6, CountsFewer
  <2>2. /\ Cardinality(Load(p)') \in Nat /\ Cardinality(Load(p)) \in Nat
        /\ Cardinality(Load(p)') <= Cardinality(Load(p))
    BY Zenon, <1>1, <1>2, <1>6, CountsFewer
  <2>3. PICK a, b : a = Cardinality(SpentToday(p)') /\ b = Cardinality(Load(p)')
    OBVIOUS
  <2>4. a \in Nat /\ b \in Nat /\ a <= Cardinality(SpentToday(p)) /\ b <= Cardinality(Load(p))
    BY Zenon, <2>1, <2>2, <2>3
  <2>5. a <= JobsPerDay /\ b <= Concurrent
    BY <1>0, <1>5, <2>1, <2>2, <2>4
  <2>. QED
    BY Zenon, <2>3, <2>5
<1>7. CASE n = Len(execs) + 1 /\ (n \in SpentToday(p)' \/ n \in Load(p)')
  <2>1. x.policy = p /\ x.status # "blocked" /\ (x.status = "denied" => x.grant \in {"queued", "claimed"})
    BY <1>7 DEF SpentToday, Spent, Load
  <2>2. HasRoom(p)
    BY <1>7, <2>1 DEF AddedFits
  <2>3. SpentToday(p)' \subseteq SpentToday(p) \union {n} /\ Load(p)' \subseteq Load(p) \union {n}
    BY <1>1, <1>3, <1>4, <1>7
  <2>4. /\ Cardinality(SpentToday(p)') \in Nat /\ Cardinality(SpentToday(p)) \in Nat
        /\ Cardinality(SpentToday(p)') <= Cardinality(SpentToday(p)) + 1
    BY Zenon, <1>1, <1>2, <2>3, CountsOneMore
  <2>5. /\ Cardinality(Load(p)') \in Nat /\ Cardinality(Load(p)) \in Nat
        /\ Cardinality(Load(p)') <= Cardinality(Load(p)) + 1
    BY Zenon, <1>1, <1>2, <2>3, CountsOneMore
  <2>6. PICK a, b : a = Cardinality(SpentToday(p)') /\ b = Cardinality(Load(p)')
    OBVIOUS
  <2>7. /\ a \in Nat /\ b \in Nat
        /\ a <= Cardinality(SpentToday(p)) + 1 /\ b <= Cardinality(Load(p)) + 1
    BY Zenon, <2>4, <2>5, <2>6
  <2>8. a <= JobsPerDay /\ b <= Concurrent
    BY <1>0, <2>2, <2>4, <2>5, <2>7 DEF HasRoom
  <2>. QED
    BY Zenon, <2>6, <2>8
<1>8. SpentToday(p)' \subseteq SpentToday(p) \union {n} /\ Load(p)' \subseteq Load(p) \union {n}
  <2>1. \A k \in 1 .. n : k \in 1 .. Len(execs) \/ k = n
    BY <1>0
  <2>2. SpentToday(p)' \subseteq SpentToday(p) \union {n}
    BY <1>3, <1>4, <2>1
  <2>3. Load(p)' \subseteq Load(p) \union {n}
    BY <1>3, <1>4, <2>1
  <2>. QED
    BY <2>2, <2>3
<1>. QED
  BY Zenon, <1>1, <1>3, <1>4, <1>6, <1>7, <1>8

(* The ledger through a step whose executions wind down, but for one more.  *)
LEMMA LedgerKept ==
  ASSUME DispatchLedger, DispatchTables',
         Len(rules) <= Len(rules'), Len(plans) <= Len(plans'),
         \A i \in 1 .. Len(plans') : plans'[i].policy \in 1 .. Len(rules'),
         Len(execs') = Len(execs) \/ Len(execs') = Len(execs) + 1,
         \A k \in 1 .. Len(execs) : SameExec(k) /\ WindsDown(k),
         AddedFits,
         \A k \in 1 .. Len(execs') : ExecSound(k)',
         \A c \in 1 .. Len(jobRoots') : jobRoots'[c].exec <= Len(execs')
  PROVE  DispatchLedger'
<1>1. /\ Len(execs) \in Nat /\ Len(execs') \in Nat /\ Len(rules) \in Nat /\ Len(rules') \in Nat
      /\ Len(plans) \in Nat /\ Len(plans') \in Nat /\ execs' \in Seq(ExecRow)
  BY DispatchFacts DEF DispatchTables
<1>2. CapsKept'
  BY Zenon, <1>1, CapsStay
<1>3. ASSUME NEW e \in 1 .. Len(execs')
      PROVE  execs'[e].plan \in 1 .. Len(plans') /\ execs'[e].policy \in 1 .. Len(rules')
  <2>1. CASE e \in 1 .. Len(execs)
    <3>1. SameExec(e) /\ execs[e].plan \in 1 .. Len(plans) /\ execs[e].policy \in 1 .. Len(rules)
      BY <2>1 DEF DispatchLedger, References
    <3>. QED
      BY <1>1, <3>1 DEF SameExec
  <2>2. CASE e \notin 1 .. Len(execs)
    <3>1. e = Len(execs') /\ Len(execs') = Len(execs) + 1
      BY <1>1, <2>2
    <3>. QED
      BY <1>1, <3>1 DEF AddedFits
  <2>. QED
    BY <2>1, <2>2
<1>4. References'
  BY <1>3 DEF References
<1>. QED
  BY <1>2, <1>4 DEF DispatchLedger

(* The executions and their copies stay, and no policy comes to its end.    *)
LEMMA LedgerStays ==
  ASSUME DispatchLedger, DispatchTables', UNCHANGED <<execs, jobRoots>>,
         Len(rules) <= Len(rules'), \A p \in 1 .. Len(rules) : Ended(p)' <=> Ended(p),
         Len(plans) <= Len(plans'),
         \A i \in 1 .. Len(plans') : plans'[i].policy \in 1 .. Len(rules')
  PROVE  DispatchLedger'
<1>1. Len(execs) \in Nat
  BY Zenon, DispatchFacts
<1>2. ASSUME NEW k \in 1 .. Len(execs) PROVE SameExec(k) /\ WindsDown(k) /\ ExecSound(k)'
  <2>1. ExecSound(k) /\ execs[k].policy \in 1 .. Len(rules)
    BY DEF DispatchLedger, References
  <2>2. Ended(execs[k].policy)' <=> Ended(execs[k].policy)
    <3>1. PICK p \in 1 .. Len(rules) : p = execs[k].policy
      BY <2>1
    <3>2. Ended(p)' <=> Ended(p)
      OBVIOUS
    <3>. QED
      BY <3>1, <3>2 DEF Ended
  <2>3. Copied(k)' <=> Copied(k)
    BY DEF Copied
  <2>4. ExecSound(k)'
    BY <2>1, <2>2, <2>3 DEF ExecSound
  <2>. QED
    BY <2>4 DEF SameExec, WindsDown
<1>3. \A c \in 1 .. Len(jobRoots') : jobRoots'[c].exec <= Len(execs')
  BY DEF DispatchLedger, References
<1>4. /\ Len(execs') = Len(execs) /\ Len(execs') # Len(execs) + 1
      /\ \A k \in 1 .. Len(execs') : ExecSound(k)'
  BY SMTT(30), <1>1, <1>2
<1>5. AddedFits
  BY <1>4 DEF AddedFits
<1>. QED
  BY Zenon, <1>2, <1>3, <1>4, <1>5, LedgerKept

(* A captured intent stays of its time: what it must not outlive moves only *)
(* with the control's version, or drops it.                                 *)
LEMMA CapturedStays ==
  ASSUME NEW p \in Intakes, Captured(p), Len(rules) <= Len(rules'), Len(rules) \in Nat,
         Len(rules') \in Nat,
         brake.version \in Nat, brake'.version \in Nat, brake.version <= brake'.version,
         brake'.version = brake.version => era' = era
  PROVE  Captured(p)'
BY DEF Captured, Intakes

(* What waits and what is in hand is captured, one by one.                  *)
LEMMA WaitingNext ==
  ASSUME \A i \in 1 .. Len(waiting') : \E p \in Intakes : p = waiting'[i] /\ Captured(p)'
  PROVE  WaitingCaptured'
BY DEF WaitingCaptured, Captured

LEMMA HandNext ==
  ASSUME intake'.at # "off" /\ ~ intake'.cut => \E p \in Intakes : p = intake'.of /\ Captured(p)'
  PROVE  HandCaptured'
BY DEF HandCaptured, Captured

(* Some of the captured intents go, the rest stay, and the one in hand      *)
(* stays or is cut short.                                                   *)
LEMMA IntentStays ==
  ASSUME DispatchLedger, IntentKept, DispatchTables',
         Len(rules) <= Len(rules'), Len(plans) <= Len(plans'),
         \A i \in 1 .. Len(plans) : plans'[i].policy = plans[i].policy,
         waiting' \in Seq(Intakes),
         \A i \in 1 .. Len(waiting') : \E j \in 1 .. Len(waiting) : waiting'[i] = waiting[j],
         intake' \in IntakeRecord,
         intake'.at = intake.at, intake'.of = intake.of, intake'.plan = intake.plan,
         intake.cut => intake'.cut,
         brake.version <= brake'.version,
         brake'.version = brake.version =>
           era' = era \/ (waiting' = << >> /\ (intake.at # "off" => intake'.cut))
  PROVE  IntentKept'
<1>1. /\ Len(rules) \in Nat /\ Len(rules') \in Nat /\ Len(plans) \in Nat /\ Len(plans') \in Nat
      /\ brake.version \in Nat /\ brake'.version \in Nat /\ waiting \in Seq(Intakes)
      /\ intake \in IntakeRecord /\ WaitingCaptured /\ HandCaptured
  <2>1. Len(rules) \in Nat /\ Len(plans) \in Nat
    BY Zenon, DispatchFacts
  <2>2. brake \in [paused : BOOLEAN, version : Nat]
    BY Zenon DEF DispatchLedger, DispatchTables
  <2>3. /\ rules' \in Seq(RuleStatus) /\ plans' \in Seq(PlanRow)
        /\ brake' \in [paused : BOOLEAN, version : Nat]
    BY Zenon DEF DispatchTables
  <2>4. Len(rules') \in Nat /\ Len(plans') \in Nat
    BY <2>3
  <2>5. brake.version \in Nat /\ brake'.version \in Nat
    BY <2>2, <2>3
  <2>6. /\ waiting \in Seq(Intakes) /\ intake \in IntakeRecord
        /\ WaitingCaptured /\ HandCaptured
    BY Zenon DEF IntentKept
  <2>. QED
    BY Zenon, <2>1, <2>4, <2>5, <2>6
<1>2. /\ intake.of \in Intakes /\ intake.plan \in Nat
      /\ intake.cut \in BOOLEAN /\ intake'.cut \in BOOLEAN
  BY <1>1 DEF IntakeRecord
<1>3. ASSUME NEW i \in 1 .. Len(waiting')
      PROVE  \E p \in Intakes : p = waiting'[i] /\ Captured(p)'
  <2>1. PICK j \in 1 .. Len(waiting) : waiting'[i] = waiting[j]
    OBVIOUS
  <2>2. waiting[j] \in Intakes /\ Captured(waiting[j])
    BY Zenon, <1>1, ElementOfSeq DEF WaitingCaptured
  <2>. PICK p \in Intakes : p = waiting[j]
    BY <2>2
  <2>3. Captured(p)
    BY <2>2
  <2>4. waiting' # << >>
    OBVIOUS
  <2>5. Captured(p)'
    BY Zenon, <1>1, <2>3, <2>4, CapturedStays
  <2>. QED
    BY <2>1, <2>5
<1>4. WaitingCaptured'
  BY Zenon, <1>3, WaitingNext
<1>5. ASSUME intake'.at # "off", ~ intake'.cut
      PROVE  \E p \in Intakes : p = intake'.of /\ Captured(p)'
  <2>1. PICK p \in Intakes : p = intake.of
    BY <1>2
  <2>2. Captured(p)
    BY Zenon, <1>1, <1>5, <2>1 DEF HandCaptured
  <2>3. brake'.version = brake.version => era' = era
    BY Zenon, <1>5
  <2>4. Captured(p)'
    BY Zenon, <1>1, <2>2, <2>3, CapturedStays
  <2>. QED
    BY <2>1, <2>4
<1>6. HandCaptured'
  BY Zenon, <1>5, HandNext
<1>7. intake'.plan <= Len(plans')
  BY <1>1, <1>2 DEF IntentKept
<1>8. intake'.at = "prepare" =>
        /\ intake'.plan # 0
        /\ plans'[intake'.plan].policy = intake'.of.policy
  BY <1>1, <1>2 DEF IntentKept
<1>. QED
  BY Zenon, <1>4, <1>6, <1>7, <1>8 DEF IntentKept

(* The copies stay, and no intake comes to its last step.                   *)
LEMMA CopiesStay ==
  ASSUME CopiesBounded, jobRoots' = jobRoots,
         intake'.at = "prepare" => intake.at = "prepare" /\ intake'.blind = intake.blind
  PROVE  CopiesBounded'
BY DEF CopiesBounded, Counted, Retained

LEMMA UsesTyped ==
  ASSUME DispatchInv, NEW what \in DispatchEvents, Uses(what)
  PROVE  spare' \in [DispatchEvents -> Nat]
BY DEF Uses, DispatchInv, DispatchFlags

LEMMA NoIntakeTyped ==
  NoIntake \in IntakeRecord /\ NoIntake.at = "off" /\ NoIntake.plan = 0 /\ NoIntake.blind = FALSE
BY DEF NoIntake, Nobody, IntakeRecord, Intakes

(* Intent is dropped: nothing waits, and what is in hand is cut short.      *)
LEMMA DropsIntent ==
  ASSUME DispatchInv, DropIntent
  PROVE  /\ waiting' = << >> /\ waiting' \in Seq(Intakes) /\ Len(waiting') = 0
         /\ wakeAgain' = FALSE
         /\ intake' \in IntakeRecord
         /\ intake'.at = intake.at /\ intake'.of = intake.of /\ intake'.plan = intake.plan
         /\ intake'.blind = intake.blind
         /\ intake.cut => intake'.cut
         /\ intake.at # "off" => intake'.cut
<1>1. intake \in IntakeRecord
  BY DEF DispatchInv, IntentKept
<1>2. PICK flag \in BOOLEAN : flag = (intake.cut \/ intake.at # "off")
  OBVIOUS
<1>3. intake' = [intake EXCEPT !.cut = flag]
  BY Zenon, <1>2 DEF DropIntent
<1>4. /\ intake' \in IntakeRecord /\ intake'.cut = flag
      /\ intake'.at = intake.at /\ intake'.of = intake.of /\ intake'.plan = intake.plan
      /\ intake'.blind = intake.blind
  BY <1>1, <1>3 DEF IntakeRecord
<1>5. (intake.cut => intake'.cut) /\ (intake.at # "off" => intake'.cut)
  BY Zenon, <1>2, <1>4
<1>6. waiting' = << >> /\ wakeAgain' = FALSE
  BY DEF DropIntent
<1>7. waiting' \in Seq(Intakes) /\ Len(waiting') = 0
  BY <1>6
<1>. QED
  BY <1>4, <1>5, <1>6, <1>7

LEMMA DrainWakes ==
  ASSUME DispatchInv, RequestDrain
  PROVE  pump' \in {"off", "top", "in", "end"} /\ wakeAgain' \in BOOLEAN
<1>1. pump' = pump \/ pump' = "top"
  BY DEF RequestDrain
<1>2. wakeAgain' \in BOOLEAN
  BY Zenon DEF RequestDrain, DispatchInv, DispatchFlags
<1>. QED
  BY <1>1, <1>2 DEF DispatchInv, DispatchFlags

(* Steps of the conversation, the control and the drain that leave the      *)
(* ledger and the copies alone, keep the policies that ended, and add to    *)
(* no intent.                                                               *)
LEMMA DispatchStays ==
  ASSUME DispatchInv, UNCHANGED <<plans, execs, jobRoots>>,
         chat' \in [turn : Nat, run : Nat, busy : BOOLEAN, sel : Nat],
         brake' \in [paused : BOOLEAN, version : Nat], era' \in Nat,
         rules' \in Seq(RuleStatus), Len(rules) <= Len(rules'),
         \A p \in 1 .. Len(rules) : Ended(p)' <=> Ended(p),
         waiting' \in Seq(Intakes),
         \A i \in 1 .. Len(waiting') : \E j \in 1 .. Len(waiting) : waiting'[i] = waiting[j],
         intake' \in IntakeRecord,
         intake'.at = intake.at, intake'.of = intake.of, intake'.plan = intake.plan,
         intake'.blind = intake.blind,
         intake.cut => intake'.cut,
         brake.version <= brake'.version,
         brake'.version = brake.version =>
           era' = era \/ (waiting' = << >> /\ (intake.at # "off" => intake'.cut)),
         DispatchFlags'
  PROVE  DispatchInv'
<1>1. DispatchTables'
  BY DEF DispatchInv, DispatchLedger, DispatchTables
<1>2. /\ Len(rules) \in Nat /\ Len(rules') \in Nat /\ Len(plans) \in Nat
      /\ \A i \in 1 .. Len(plans') : plans'[i].policy \in 1 .. Len(rules')
  <2>1. DispatchLedger /\ References
    BY Zenon DEF DispatchInv, DispatchLedger
  <2>2. rules' \in Seq(RuleStatus)
    BY Zenon, <1>1 DEF DispatchTables
  <2>3. Len(rules) \in Nat /\ Len(plans) \in Nat
    BY Zenon, <2>1, DispatchFacts
  <2>4. Len(rules') \in Nat
    BY <2>2
  <2>5. \A i \in 1 .. Len(plans) : plans[i].policy \in 1 .. Len(rules)
    BY Zenon, <2>1 DEF References
  <2>6. \A i \in 1 .. Len(plans') : plans'[i].policy \in 1 .. Len(rules')
    BY <2>3, <2>4, <2>5
  <2>. QED
    BY Zenon, <2>3, <2>4, <2>6
<1>3. DispatchLedger'
  BY <1>1, <1>2, LedgerStays DEF DispatchInv
<1>4. IntentKept'
  BY <1>1, <1>2, IntentStays DEF DispatchInv
<1>5. CopiesBounded'
  BY Zenon, CopiesStay DEF DispatchInv
<1>. QED
  BY <1>3, <1>4, <1>5 DEF DispatchInv

LEMMA DispatchTyped ==
  ASSUME DispatchInv
  PROVE  /\ DispatchTables /\ DispatchLedger
         /\ chat \in [turn : Nat, run : Nat, busy : BOOLEAN, sel : Nat]
         /\ brake \in [paused : BOOLEAN, version : Nat] /\ brake.version \in Nat
         /\ era \in Nat
         /\ rules \in Seq(RuleStatus) /\ Len(rules) \in Nat
         /\ waiting \in Seq(Intakes) /\ Len(waiting) \in Nat
         /\ \A i \in 1 .. Len(waiting) : \E j \in 1 .. Len(waiting) : waiting[i] = waiting[j]
         /\ intake \in IntakeRecord
BY DEF DispatchInv, DispatchLedger, DispatchTables, IntentKept

(* A prune only lets go: of copies whose grant is revoked or over, and of   *)
(* cleaned ones.                                                            *)
GoesOn(c, new) ==
  /\ new \in RootRow
  /\ new.exec = jobRoots[c].exec /\ new.blind = jobRoots[c].blind
  /\ new.is \in {"prepared", "cleaned"} => jobRoots[c].is \in {"prepared", "cleaned"}
  /\ jobRoots[c].is = "prepared" =>
       new.is = "prepared" \/ execs[jobRoots[c].exec].grant \in {"revoked", "over"}

Releasable(c) ==
  jobRoots[c].is = "prepared" => execs[jobRoots[c].exec].grant \in {"revoked", "over"}

LetGo(roots) ==
  /\ roots \in Seq(RootRow) /\ Len(roots) = Len(jobRoots)
  /\ \A c \in 1 .. Len(jobRoots) : GoesOn(c, roots[c])

LEMMA RootsTyped ==
  ASSUME DispatchInv
  PROVE  /\ jobRoots \in Seq(RootRow) /\ Len(jobRoots) \in Nat
         /\ DOMAIN jobRoots = 1 .. Len(jobRoots)
         /\ \A c \in 1 .. Len(jobRoots) : jobRoots[c] \in RootRow
         /\ LetGo(jobRoots)
<1>1. jobRoots \in Seq(RootRow) /\ Len(jobRoots) \in Nat /\ DOMAIN jobRoots = 1 .. Len(jobRoots)
  BY DispatchTyped DEF DispatchTables
<1>2. \A c \in 1 .. Len(jobRoots) : jobRoots[c] \in RootRow
  BY <1>1
<1>. QED
  BY <1>1, <1>2 DEF LetGo, GoesOn

LEMMA RowsLetGo ==
  ASSUME DispatchInv, NEW roots, roots = [c \in 1 .. Len(jobRoots) |-> roots[c]],
         \A c \in 1 .. Len(jobRoots) : GoesOn(c, roots[c])
  PROVE  LetGo(roots)
<1>1. Len(jobRoots) \in Nat
  BY Zenon, RootsTyped
<1>2. DOMAIN roots = 1 .. Len(jobRoots)
  OBVIOUS
<1>3. roots \in [1 .. Len(jobRoots) -> RootRow]
  BY DEF GoesOn
<1>4. roots \in Seq(RootRow) /\ Len(roots) = Len(jobRoots)
  BY <1>1, <1>2, <1>3
<1>. QED
  BY <1>4 DEF LetGo

(* What the sweep makes of one record.                                      *)
LEMMA SweptRow ==
  ASSUME DispatchInv, NEW c \in 1 .. Len(jobRoots), NEW is, is = Swept(jobRoots[c])
  PROVE  /\ GoesOn(c, [jobRoots[c] EXCEPT !.is = is])
         /\ is # jobRoots[c].is \/ is = "cleaned" => Releasable(c)
<1>1. PICK row \in RootRow : row = jobRoots[c]
  BY RootsTyped
<1>2. /\ is \in {row.is, "gone", "cleaned"}
      /\ is # row.is => row.is = "prepared" /\ execs[row.exec].grant \in {"revoked", "over"}
  BY <1>1 DEF Swept
<1>. QED
  BY <1>1, <1>2 DEF GoesOn, Releasable, RootRow

(* A copy whose grant is done with expires, or loses its record.            *)
LEMMA RowOut ==
  ASSUME NEW c, NEW row, GoesOn(c, row), Releasable(c), NEW is \in {"gone", "bare"}
  PROVE  GoesOn(c, [row EXCEPT !.is = is])
BY DEF GoesOn, Releasable, RootRow

LEMMA SweptLetGo ==
  ASSUME DispatchInv, NEW done, NEW roots, roots = SweptAt(done)
  PROVE  LetGo(roots)
<1>1. roots = [c \in 1 .. Len(jobRoots) |->
                 IF c \in done THEN [jobRoots[c] EXCEPT !.is = Swept(jobRoots[c])] ELSE jobRoots[c]]
  BY Zenon, RootsTyped DEF SweptAt
<1>2. ASSUME NEW c \in 1 .. Len(jobRoots) PROVE GoesOn(c, roots[c])
  <2>1. PICK is : is = Swept(jobRoots[c])
    OBVIOUS
  <2>2. roots[c] = [jobRoots[c] EXCEPT !.is = is] \/ roots[c] = jobRoots[c]
    BY <1>1, <2>1
  <2>3. GoesOn(c, [jobRoots[c] EXCEPT !.is = is])
    BY Zenon, <2>1, SweptRow
  <2>4. GoesOn(c, jobRoots[c])
    BY Zenon, RootsTyped DEF LetGo
  <2>. QED
    BY Zenon, <2>2, <2>3, <2>4
<1>3. roots = [c \in 1 .. Len(jobRoots) |-> roots[c]]
  BY <1>1
<1>. QED
  BY Zenon, <1>2, <1>3, RowsLetGo

LEMMA ExpiringOut ==
  ASSUME DispatchInv, NEW c \in Expiring
  PROVE  c \in 1 .. Len(jobRoots) /\ Releasable(c)
<1>1. c \in DOMAIN SweptAt(DOMAIN jobRoots) /\ SweptAt(DOMAIN jobRoots)[c].is = "cleaned"
  BY Zenon DEF Expiring
<1>2. c \in 1 .. Len(jobRoots)
  BY <1>1, RootsTyped DEF SweptAt
<1>3. PICK row \in RootRow : row = jobRoots[c]
  BY <1>2, RootsTyped
<1>4. PICK is : is = Swept(jobRoots[c])
  OBVIOUS
<1>5. SweptAt(DOMAIN jobRoots)[c] = [row EXCEPT !.is = is]
  BY <1>2, <1>3, <1>4, RootsTyped DEF SweptAt
<1>6. is = "cleaned"
  BY <1>1, <1>3, <1>5 DEF RootRow
<1>7. is # jobRoots[c].is \/ is = "cleaned" => Releasable(c)
  BY Zenon, <1>2, <1>4, SweptRow
<1>. QED
  BY <1>2, <1>6, <1>7

LEMMA ExpiredLetGo ==
  ASSUME DispatchInv, NEW out, out \subseteq Expiring, NEW roots, roots = Expired(out)
  PROVE  LetGo(roots)
<1>1. PICK swept : swept = SweptAt(DOMAIN jobRoots)
  OBVIOUS
<1>2. LetGo(swept)
  BY Zenon, <1>1, SweptLetGo
<1>3. roots = [c \in 1 .. Len(jobRoots) |->
                 IF c \in out THEN [swept[c] EXCEPT !.is = "gone"] ELSE swept[c]]
  <2>1. DOMAIN swept = 1 .. Len(jobRoots)
    BY <1>1, RootsTyped DEF SweptAt
  <2>. QED
    BY Zenon, <1>1, <2>1 DEF Expired
<1>4. ASSUME NEW c \in 1 .. Len(jobRoots) PROVE GoesOn(c, roots[c])
  <2>1. GoesOn(c, swept[c])
    BY Zenon, <1>2 DEF LetGo
  <2>2. CASE c \in out
    <3>1. c \in Expiring
      BY <2>2
    <3>2. Releasable(c)
      BY Zenon, <3>1, ExpiringOut
    <3>3. GoesOn(c, [swept[c] EXCEPT !.is = "gone"])
      BY Zenon, <2>1, <3>2, RowOut
    <3>. QED
      BY <1>3, <2>2, <3>3
  <2>3. CASE c \notin out
    BY <1>3, <2>1, <2>3
  <2>. QED
    BY <2>2, <2>3
<1>5. roots = [c \in 1 .. Len(jobRoots) |-> roots[c]]
  BY <1>3
<1>. QED
  BY Zenon, <1>4, <1>5, RowsLetGo

LEMMA PrunedLetGo ==
  ASSUME DispatchInv
  PROVE  LetGo(Pruned)
BY Zenon, ExpiredLetGo DEF Pruned

LEMMA TornLetGo ==
  ASSUME DispatchInv, NEW was, LetGo(was), NEW c \in 1 .. Len(jobRoots), Releasable(c),
         NEW roots \in Torn(was, c)
  PROVE  LetGo(roots)
<1>1. CASE roots = was
  BY <1>1
<1>2. CASE roots = [was EXCEPT ![c].is = "bare"]
  <2>1. /\ was \in Seq(RootRow) /\ Len(was) = Len(jobRoots) /\ Len(jobRoots) \in Nat
        /\ \A d \in 1 .. Len(jobRoots) : GoesOn(d, was[d])
    BY Zenon, RootsTyped DEF LetGo
  <2>2. was = [d \in 1 .. Len(jobRoots) |-> was[d]]
    BY <2>1
  <2>3. PICK row : row = [was[c] EXCEPT !.is = "bare"]
    OBVIOUS
  <2>4. GoesOn(c, row)
    <3>1. GoesOn(c, was[c]) /\ "bare" \in {"gone", "bare"}
      BY <2>1
    <3>. QED
      BY Zenon, <2>3, <3>1, RowOut
  <2>5. roots = [d \in 1 .. Len(jobRoots) |-> IF d = c THEN row ELSE was[d]]
    BY <1>2, <2>2, <2>3
  <2>6. /\ roots = [d \in 1 .. Len(jobRoots) |-> roots[d]]
        /\ \A d \in 1 .. Len(jobRoots) : GoesOn(d, roots[d])
    BY <2>1, <2>4, <2>5
  <2>. QED
    BY Zenon, <2>6, RowsLetGo
<1>. QED
  BY <1>1, <1>2 DEF Torn

LEMMA BrokenLetGo ==
  ASSUME DispatchInv, NEW roots \in BrokenPrunes
  PROVE  LetGo(roots)
<1>. DEFINE leaving == {c \in DOMAIN jobRoots : Swept(jobRoots[c]) # jobRoots[c].is}
            swept == UNION {UNION {Torn(SweptAt(done), c) : done \in SUBSET (leaving \ {c})} : c \in leaving}
            after == UNION {Torn(Expired({d \in Expiring : d < c}), c) : c \in Expiring}
<1>1. roots \in {jobRoots} \union swept \union after
  BY Zenon DEF BrokenPrunes
<1>. HIDE DEF swept, after
<1>4. roots = jobRoots \/ roots \in swept \/ roots \in after
  BY <1>1
<1>. HIDE DEF leaving
<1>5. CASE roots = jobRoots
  BY Zenon, <1>5, RootsTyped
<1>6. CASE roots \in swept
  <2>1. PICK c \in leaving : roots \in UNION {Torn(SweptAt(done), c) : done \in SUBSET (leaving \ {c})}
    BY Zenon, <1>6 DEF swept
  <2>2. PICK done \in SUBSET (leaving \ {c}) : roots \in Torn(SweptAt(done), c)
    BY Zenon, <2>1
  <2>3. c \in 1 .. Len(jobRoots) /\ Swept(jobRoots[c]) # jobRoots[c].is
    BY Zenon, RootsTyped DEF leaving
  <2>4. PICK is : is = Swept(jobRoots[c])
    OBVIOUS
  <2>5. Releasable(c)
    BY Zenon, <2>3, <2>4, SweptRow
  <2>6. LetGo(SweptAt(done))
    BY Zenon, SweptLetGo
  <2>. QED
    BY Zenon, <2>2, <2>3, <2>5, <2>6, TornLetGo
<1>7. CASE roots \in after
  <2>1. PICK c \in Expiring : roots \in Torn(Expired({d \in Expiring : d < c}), c)
    BY Zenon, <1>7 DEF after
  <2>2. PICK out : out = {d \in Expiring : d < c}
    OBVIOUS
  <2>3. LetGo(Expired(out))
    <3>1. out \subseteq Expiring
      BY <2>2
    <3>. QED
      BY Zenon, <3>1, ExpiredLetGo
  <2>4. c \in 1 .. Len(jobRoots) /\ Releasable(c)
    BY Zenon, ExpiringOut
  <2>. QED
    BY Zenon, <2>1, <2>2, <2>3, <2>4, TornLetGo
<1>. QED
  BY <1>4, <1>5, <1>6, <1>7

LEMMA CountedFewer ==
  ASSUME DispatchInv, NEW roots, LetGo(roots)
  PROVE  /\ Counted(roots) \subseteq Counted(jobRoots) /\ Counted(jobRoots) \subseteq 1 .. Len(jobRoots)
         /\ Cardinality(Counted(roots)) \in Nat /\ Cardinality(Counted(jobRoots)) \in Nat
         /\ Cardinality(Counted(roots)) <= Cardinality(Counted(jobRoots))
<1>1. Len(jobRoots) \in Nat /\ DOMAIN jobRoots = 1 .. Len(jobRoots)
  BY Zenon, RootsTyped
<1>2. DOMAIN roots = 1 .. Len(jobRoots)
  BY DEF LetGo
<1>3. Counted(jobRoots) \subseteq 1 .. Len(jobRoots)
  BY <1>1 DEF Counted, Retained
<1>4. Counted(roots) \subseteq Counted(jobRoots)
  <2>. SUFFICES ASSUME NEW c \in Counted(roots) PROVE c \in Counted(jobRoots)
    OBVIOUS
  <2>1. c \in 1 .. Len(jobRoots) /\ roots[c].is \in {"prepared", "cleaned"} /\ ~ roots[c].blind
    BY <1>2 DEF Counted, Retained
  <2>2. GoesOn(c, roots[c])
    BY <2>1 DEF LetGo
  <2>. QED
    BY <1>1, <2>1, <2>2 DEF GoesOn, Counted, Retained
<1>. QED
  BY Zenon, <1>1, <1>3, <1>4, CountsFewer

(* The copies that are not let go of, and perhaps one more.                 *)
RootsGrow ==
  /\ jobRoots' \in Seq(RootRow) /\ Len(jobRoots) <= Len(jobRoots')
  /\ \A c \in 1 .. Len(jobRoots) : GoesOn(c, jobRoots'[c])

LEMMA CopyComes ==
  ASSUME DispatchInv, NEW roots, LetGo(roots), NEW copy \in RootRow,
         jobRoots' = Append(roots, copy) \/ jobRoots' = roots,
         NEW n \in Nat, Len(execs) <= n, copy.exec <= n
  PROVE  /\ RootsGrow
         /\ \A c \in 1 .. Len(jobRoots') : jobRoots'[c].exec <= n
         /\ jobRoots' = Append(roots, copy) =>
              Len(jobRoots') = Len(jobRoots) + 1 /\ jobRoots'[Len(jobRoots) + 1] = copy
<1>1. /\ roots \in Seq(RootRow) /\ Len(roots) = Len(jobRoots) /\ Len(jobRoots) \in Nat
      /\ \A c \in 1 .. Len(jobRoots) : GoesOn(c, roots[c])
  BY Zenon, RootsTyped DEF LetGo
<1>2. \A c \in 1 .. Len(jobRoots) : roots[c].exec <= n
  <2>. SUFFICES ASSUME NEW c \in 1 .. Len(jobRoots) PROVE roots[c].exec <= n
    OBVIOUS
  <2>1. jobRoots[c] \in RootRow /\ roots[c].exec = jobRoots[c].exec
    BY <1>1, RootsTyped DEF GoesOn
  <2>2. jobRoots[c].exec \in Nat
    BY <2>1 DEF RootRow
  <2>3. jobRoots[c].exec <= Len(execs) /\ Len(execs) \in Nat
    BY DispatchTyped, DispatchFacts DEF DispatchLedger, References
  <2>. QED
    BY <2>1, <2>2, <2>3
<1>3. CASE jobRoots' = roots
  <2>1. Len(jobRoots') = Len(jobRoots)
    BY <1>1, <1>3
  <2>2. jobRoots' # Append(roots, copy)
    <3>1. Len(Append(roots, copy)) = Len(jobRoots) + 1
      BY <1>1
    <3>. QED
      BY <1>1, <2>1, <3>1
  <2>. QED
    BY <1>1, <1>2, <1>3, <2>2 DEF RootsGrow
<1>4. CASE jobRoots' = Append(roots, copy)
  <2>1. /\ jobRoots' \in Seq(RootRow) /\ Len(jobRoots') = Len(jobRoots) + 1
        /\ jobRoots'[Len(jobRoots) + 1] = copy
        /\ \A c \in 1 .. Len(jobRoots) : jobRoots'[c] = roots[c]
    BY <1>1, <1>4
  <2>2. \A c \in 1 .. Len(jobRoots') : c \in 1 .. Len(jobRoots) \/ c = Len(jobRoots) + 1
    BY <1>1, <2>1
  <2>3. \A c \in 1 .. Len(jobRoots') : jobRoots'[c].exec <= n
    BY Zenon, <1>2, <2>1, <2>2
  <2>4. Len(jobRoots) <= Len(jobRoots')
    BY <1>1, <2>1
  <2>. QED
    BY Zenon, <1>1, <2>1, <2>3, <2>4 DEF RootsGrow
<1>. QED
  BY <1>3, <1>4

LEMMA CopyMade ==
  ASSUME DispatchInv, NEW exec \in Nat, NEW is \in {"prepared", "bare"}
  PROVE  /\ Copy(exec, is) \in RootRow /\ Copy(exec, is).exec = exec /\ Copy(exec, is).is = is
         /\ Copy(exec, is).blind = intake.blind
<1>1. intake.blind \in BOOLEAN
  BY DispatchTyped DEF IntakeRecord
<1>. QED
  BY <1>1 DEF Copy, RootRow

(* A copy is kept until its grant is done with.                             *)
LEMMA CopyKeeps ==
  ASSUME DispatchInv, RootsGrow, NEW k, Copied(k), execs[k].grant \notin {"revoked", "over"}
  PROVE  Copied(k)'
<1>1. PICK c \in 1 .. Len(jobRoots) : jobRoots[c].exec = k /\ jobRoots[c].is = "prepared"
  BY DEF Copied
<1>2. Len(jobRoots) \in Nat /\ Len(jobRoots') \in Nat /\ Len(jobRoots) <= Len(jobRoots')
  BY RootsTyped DEF RootsGrow
<1>3. c \in 1 .. Len(jobRoots') /\ GoesOn(c, jobRoots'[c])
  BY <1>2 DEF RootsGrow
<1>. QED
  BY <1>1, <1>3 DEF Copied, GoesOn

LEMMA RootsGo ==
  ASSUME DispatchInv, LetGo(jobRoots')
  PROVE  RootsGrow /\ \A c \in 1 .. Len(jobRoots') : jobRoots'[c].exec <= Len(execs)
<1>1. PICK copy : copy = [exec |-> 0, is |-> "gone", old |-> FALSE, blind |-> FALSE]
  OBVIOUS
<1>2. /\ copy \in RootRow /\ copy.exec = 0 /\ Len(execs) \in Nat
      /\ Len(execs) <= Len(execs) /\ copy.exec <= Len(execs)
  BY <1>1, DispatchTyped, DispatchFacts DEF RootRow
<1>3. PICK roots : roots = jobRoots'
  OBVIOUS
<1>. QED
  BY Zenon, <1>2, <1>3, CopyComes

LEMMA RootsStill ==
  ASSUME DispatchInv, jobRoots' = jobRoots
  PROVE  /\ LetGo(jobRoots') /\ RootsGrow
         /\ \A c \in 1 .. Len(jobRoots') : jobRoots'[c].exec <= Len(execs)
<1>1. LetGo(jobRoots')
  BY Zenon, RootsTyped
<1>. QED
  BY Zenon, <1>1, RootsGo

(* One more copy, where there was room or the prune had failed.             *)
LEMMA OneMoreCopy ==
  ASSUME DispatchInv, intake.at = "prepare", intake'.at # "prepare",
         NEW roots, LetGo(roots), NEW copy \in RootRow, copy.blind = intake.blind,
         jobRoots' = Append(roots, copy) \/ jobRoots' = roots
  PROVE  CopiesBounded'
<1>1. /\ roots \in Seq(RootRow) /\ Len(roots) = Len(jobRoots) /\ Len(jobRoots) \in Nat
      /\ DOMAIN roots = 1 .. Len(jobRoots) /\ MaxRetained \in Nat
  BY RootsTyped, DispatchAssumption DEF LetGo
<1>2. /\ Counted(roots) \subseteq Counted(jobRoots) /\ Counted(jobRoots) \subseteq 1 .. Len(jobRoots)
      /\ Cardinality(Counted(roots)) \in Nat /\ Cardinality(Counted(jobRoots)) \in Nat
      /\ Cardinality(Counted(roots)) <= Cardinality(Counted(jobRoots))
  BY Zenon, CountedFewer
<1>3. Cardinality(Counted(jobRoots)) <= MaxRetained
  BY DEF DispatchInv, CopiesBounded
<1>4. PICK now : now = Counted(jobRoots)'
  OBVIOUS
<1>5. CASE intake.blind \/ jobRoots' = roots
  <2>1. now \subseteq Counted(roots)
    <3>1. CASE jobRoots' = roots
      BY <1>4, <3>1 DEF Counted, Retained
    <3>2. CASE jobRoots' = Append(roots, copy) /\ intake.blind
      <4>1. copy.blind
        BY Zenon, <3>2
      <4>2. /\ DOMAIN jobRoots' = 1 .. Len(jobRoots) + 1
            /\ \A c \in 1 .. Len(jobRoots) : jobRoots'[c] = roots[c]
            /\ jobRoots'[Len(jobRoots) + 1] = copy
        BY <1>1, <3>2
      <4>3. now \subseteq 1 .. Len(jobRoots) + 1 /\ \A c \in now : ~ jobRoots'[c].blind
        BY <1>4, <4>2 DEF Counted, Retained
      <4>4. now \subseteq 1 .. Len(jobRoots)
        BY <1>1, <4>1, <4>2, <4>3
      <4>5. \A c \in now : roots[c].is \in {"prepared", "cleaned"} /\ ~ roots[c].blind
        BY <1>4, <4>2, <4>3, <4>4 DEF Counted, Retained
      <4>. QED
        BY <1>1, <4>4, <4>5 DEF Counted, Retained
    <3>. QED
      BY <1>5, <3>1, <3>2
  <2>2. now \subseteq Counted(jobRoots)
    BY <1>2, <2>1
  <2>3. Cardinality(now) \in Nat /\ Cardinality(now) <= Cardinality(Counted(jobRoots))
    BY Zenon, <1>1, <1>2, <2>2, CountsFewer
  <2>4. Cardinality(now) <= MaxRetained
    BY <1>1, <1>2, <1>3, <2>3
  <2>. QED
    BY <1>4, <2>4 DEF CopiesBounded
<1>6. CASE ~ intake.blind /\ jobRoots' = Append(roots, copy)
  <2>1. Cardinality(Counted(jobRoots)) < MaxRetained
    BY <1>6 DEF DispatchInv, CopiesBounded
  <2>2. now \subseteq Counted(roots) \union {Len(jobRoots) + 1}
    BY <1>1, <1>4, <1>6 DEF Counted, Retained
  <2>3. now \subseteq Counted(jobRoots) \union {Len(jobRoots) + 1}
    BY <1>2, <2>2
  <2>4. Cardinality(now) \in Nat /\ Cardinality(now) <= Cardinality(Counted(jobRoots)) + 1
    BY Zenon, <1>1, <1>2, <2>3, CountsOneMore
  <2>5. Cardinality(now) <= MaxRetained
    BY <1>1, <1>2, <2>1, <2>4
  <2>. QED
    BY <1>4, <2>5 DEF CopiesBounded
<1>. QED
  BY <1>5, <1>6

(* Copies that are only let go of stay within their budget.                 *)
LEMMA CopiesGo ==
  ASSUME DispatchInv, LetGo(jobRoots'),
         intake'.at = "prepare" /\ ~ intake'.blind => Cardinality(Counted(jobRoots')) < MaxRetained
  PROVE  CopiesBounded'
<1>1. Cardinality(Counted(jobRoots)) <= MaxRetained /\ MaxRetained \in Nat
  BY DispatchAssumption DEF DispatchInv, CopiesBounded
<1>2. PICK roots : roots = jobRoots'
  OBVIOUS
<1>3. /\ Cardinality(Counted(roots)) \in Nat /\ Cardinality(Counted(jobRoots)) \in Nat
      /\ Cardinality(Counted(roots)) <= Cardinality(Counted(jobRoots))
  BY Zenon, <1>2, CountedFewer
<1>4. Cardinality(Counted(roots)) <= MaxRetained
  BY <1>1, <1>3
<1>5. Counted(jobRoots)' = Counted(roots)
  BY <1>2 DEF Counted, Retained
<1>. QED
  BY <1>2, <1>4, <1>5 DEF CopiesBounded

LEMMA TalkKept ==
  ASSUME DispatchInv, PostIntent \/ PostRetryIntent \/ TurnFails \/ TurnCancelled
  PROVE  DispatchInv'
<1>1. /\ UNCHANGED <<brake, rules, plans, execs, pump, jobRoots, slot, shut>>
  BY DEF PostIntent, PostRetryIntent, TurnFails, TurnCancelled, ledgerVars, serviceVars
<1>2. chat' \in [turn : Nat, run : Nat, busy : BOOLEAN, sel : Nat]
  <2>1. /\ chat \in [turn : Nat, run : Nat, busy : BOOLEAN, sel : Nat]
        /\ chat.turn + 1 \in Nat /\ chat.run + 1 \in Nat
    BY DispatchTyped
  <2>2. CASE PostIntent
    BY <2>1, <2>2 DEF PostIntent
  <2>3. CASE PostRetryIntent
    <3>1. PICK n \in Nat : n = chat.run + 1
      BY <2>1
    <3>2. chat' = [chat EXCEPT !.run = n, !.busy = TRUE]
      BY <2>3, <3>1 DEF PostRetryIntent
    <3>. QED
      BY <2>1, <3>2
  <2>4. CASE TurnFails \/ TurnCancelled
    <3>1. chat' = [chat EXCEPT !.busy = FALSE]
      BY <2>4 DEF TurnFails, TurnCancelled
    <3>. QED
      BY <2>1, <3>1
  <2>. QED
    BY <2>2, <2>3, <2>4
<1>3. spare' \in [DispatchEvents -> Nat]
  <2>1. CASE PostIntent \/ PostRetryIntent
    BY Zenon, <2>1, UsesTyped DEF PostIntent, PostRetryIntent, DispatchEvents
  <2>2. CASE TurnFails \/ TurnCancelled
    BY <2>2 DEF TurnFails, TurnCancelled, DispatchInv, DispatchFlags
  <2>. QED
    BY <2>1, <2>2
<1>4. CASE DropIntent
  <2>1. /\ waiting' = << >> /\ waiting' \in Seq(Intakes) /\ Len(waiting') = 0
        /\ wakeAgain' = FALSE
        /\ intake' \in IntakeRecord
        /\ intake'.at = intake.at /\ intake'.of = intake.of /\ intake'.plan = intake.plan
        /\ intake'.blind = intake.blind
        /\ intake.cut => intake'.cut
        /\ intake.at # "off" => intake'.cut
    BY Zenon, <1>4, DropsIntent
  <2>2. era' \in Nat
    BY DispatchTyped DEF PostIntent, PostRetryIntent, TurnFails, TurnCancelled
  <2>3. wakeAgain' \in BOOLEAN
    BY <2>1
  <2>4. DispatchFlags'
    BY <1>1, <1>3, <2>3 DEF DispatchInv, DispatchFlags
  <2>5. \A p \in 1 .. Len(rules) : Ended(p)' <=> Ended(p)
    BY <1>1 DEF Ended
  <2>. QED
    BY <1>1, <1>2, <2>1, <2>2, <2>4, <2>5, DispatchTyped, DispatchStays
<1>5. CASE TurnFails
  <2>1. UNCHANGED <<waiting, intake, wakeAgain, era>>
    BY <1>5 DEF TurnFails, serviceVars
  <2>2. DispatchFlags'
    BY <1>1, <1>3, <2>1 DEF DispatchInv, DispatchFlags
  <2>3. \A p \in 1 .. Len(rules) : Ended(p)' <=> Ended(p)
    BY <1>1 DEF Ended
  <2>. QED
    BY <1>1, <1>2, <2>1, <2>2, <2>3, DispatchTyped, DispatchStays
<1>. QED
  BY <1>4, <1>5 DEF PostIntent, PostRetryIntent, TurnCancelled

LEMMA PoliciesKept ==
  ASSUME DispatchInv, CreatePolicy \/ \E p \in DOMAIN rules : PolicyLapses(p)
  PROVE  DispatchInv'
<1>1. UNCHANGED <<chat, brake, plans, execs, waiting, intake, pump, wakeAgain, jobRoots, slot, shut, era>>
  BY DEF CreatePolicy, PolicyLapses, userVars, serviceVars
<1>2. spare' \in [DispatchEvents -> Nat]
  BY Zenon, UsesTyped DEF CreatePolicy, PolicyLapses, DispatchEvents
<1>3. /\ rules' \in Seq(RuleStatus) /\ Len(rules) <= Len(rules')
      /\ \A p \in 1 .. Len(rules) : Ended(p)' <=> Ended(p)
  <2>1. rules \in Seq(RuleStatus) /\ Len(rules) \in Nat /\ DOMAIN rules = 1 .. Len(rules)
    BY DispatchTyped
  <2>2. "active" \in RuleStatus /\ "lapsed" \in RuleStatus
    BY DEF RuleStatus
  <2>3. CASE CreatePolicy
    <3>1. rules' = Append(rules, "active")
      BY <2>3 DEF CreatePolicy
    <3>. QED
      BY <2>1, <2>2, <3>1 DEF Ended
  <2>4. CASE \E p \in DOMAIN rules : PolicyLapses(p)
    <3>1. PICK p \in 1 .. Len(rules) : rules[p] = "active" /\ rules' = [rules EXCEPT ![p] = "lapsed"]
      BY <2>1, <2>4 DEF PolicyLapses
    <3>. QED
      BY <2>1, <2>2, <3>1 DEF Ended
  <2>. QED
    BY <2>3, <2>4
<1>4. DispatchFlags'
  BY <1>1, <1>2 DEF DispatchInv, DispatchFlags
<1>. QED
  BY <1>1, <1>3, <1>4, DispatchTyped, DispatchStays

LEMMA SlotKept ==
  ASSUME DispatchInv, OtherTakesSlot \/ OtherFreesSlot
  PROVE  DispatchInv'
<1>1. UNCHANGED <<chat, brake, rules, plans, execs, waiting, intake, jobRoots, shut, era>>
  BY DEF OtherTakesSlot, OtherFreesSlot, userVars, ledgerVars, serviceVars
<1>2. DispatchFlags'
  <2>1. CASE OtherTakesSlot
    <3>1. spare' \in [DispatchEvents -> Nat]
      BY Zenon, <2>1, UsesTyped DEF OtherTakesSlot, DispatchEvents
    <3>. QED
      BY <2>1, <3>1 DEF OtherTakesSlot, serviceVars, DispatchInv, DispatchFlags
  <2>2. CASE OtherFreesSlot
    BY Zenon, <2>2, DrainWakes DEF OtherFreesSlot, DispatchInv, DispatchFlags
  <2>. QED
    BY <2>1, <2>2
<1>3. \A p \in 1 .. Len(rules) : Ended(p)' <=> Ended(p)
  BY <1>1 DEF Ended
<1>. QED
  BY <1>1, <1>2, <1>3, DispatchTyped, DispatchStays

LEMMA DrainKept ==
  ASSUME DispatchInv, DrainDrops \/ DrainReturns \/ DrainSettles
  PROVE  DispatchInv'
<1>1. UNCHANGED <<chat, brake, rules, plans, execs, intake, jobRoots, slot, shut, era, spare>>
  BY DEF DrainDrops, DrainReturns, DrainSettles, userVars, ledgerVars
<1>2. wakeAgain' \in BOOLEAN
  BY DEF DrainDrops, DrainReturns, DrainSettles, DispatchInv, DispatchFlags
<1>3. pump' \in {"off", "top", "in", "end"}
  BY DEF DrainDrops, DrainReturns, DrainSettles, DispatchInv, DispatchFlags
<1>4. DispatchFlags'
  BY <1>1, <1>2, <1>3 DEF DispatchInv, DispatchFlags
<1>5. /\ waiting' \in Seq(Intakes)
      /\ \A i \in 1 .. Len(waiting') : \E j \in 1 .. Len(waiting) : waiting'[i] = waiting[j]
  <2>1. CASE waiting' = waiting
    BY Zenon, <2>1, DispatchTyped
  <2>2. CASE waiting # << >> /\ waiting' = Tail(waiting)
    <3>1. waiting \in Seq(Intakes)
      BY Zenon, DispatchTyped
    <3>2. /\ waiting' \in Seq(Intakes) /\ Len(waiting') = Len(waiting) - 1
          /\ \A i \in 1 .. Len(waiting') : waiting'[i] = waiting[i + 1]
      BY <2>2, <3>1
    <3>3. \A i \in 1 .. Len(waiting') : i + 1 \in 1 .. Len(waiting)
      BY <3>1, <3>2
    <3>. QED
      BY <3>2, <3>3
  <2>. QED
    BY <2>1, <2>2 DEF DrainDrops, DrainReturns, DrainSettles
<1>6. \A p \in 1 .. Len(rules) : Ended(p)' <=> Ended(p)
  BY <1>1 DEF Ended
<1>. QED
  BY <1>1, <1>4, <1>5, <1>6, DispatchTyped, DispatchStays

LEMMA StopServiceKept ==
  ASSUME DispatchInv, StopService
  PROVE  DispatchInv'
<1>1. UNCHANGED <<chat, brake, rules, plans, execs, pump, jobRoots, slot, era, spare>>
  BY DEF StopService, userVars, ledgerVars
<1>2. shut' = TRUE /\ DropIntent
  BY DEF StopService
<1>3. wakeAgain' = FALSE
  BY Zenon, <1>2, DropsIntent
<1>4. DispatchFlags'
  BY <1>1, <1>2, <1>3 DEF DispatchInv, DispatchFlags
<1>5. \A p \in 1 .. Len(rules) : Ended(p)' <=> Ended(p)
  BY <1>1 DEF Ended
<1>. QED
  BY <1>1, <1>2, <1>4, <1>5, DropsIntent, DispatchTyped, DispatchStays

(* Nothing of the ledger moves but the conversation.                        *)
LEMMA LedgerRests ==
  ASSUME DispatchInv, UNCHANGED <<brake, era, rules, plans, execs, jobRoots>>,
         chat' \in [turn : Nat, run : Nat, busy : BOOLEAN, sel : Nat]
  PROVE  DispatchLedger'
<1>1. DispatchTables'
  BY Zenon, DispatchTyped DEF DispatchTables
<1>2. \A p \in 1 .. Len(rules) : Ended(p)' <=> Ended(p)
  BY DEF Ended
<1>3. \A i \in 1 .. Len(plans') : plans'[i].policy \in 1 .. Len(rules')
  BY Zenon, DispatchTyped DEF DispatchLedger, References
<1>. QED
  BY <1>1, <1>2, <1>3, DispatchTyped, DispatchFacts, LedgerStays

(* A completed Run is captured with what is in force.                       *)
LEMMA CompleteKept ==
  ASSUME DispatchInv, TurnCompletes
  PROVE  DispatchInv'
<1>1. UNCHANGED <<brake, rules, plans, execs, intake, jobRoots, slot, shut, era, spare>>
  BY DEF TurnCompletes, ledgerVars
<1>2. chat' \in [turn : Nat, run : Nat, busy : BOOLEAN, sel : Nat]
  BY Zenon, DispatchTyped DEF TurnCompletes
<1>3. pump' \in {"off", "top", "in", "end"} /\ wakeAgain' \in BOOLEAN
  BY Zenon, DrainWakes DEF TurnCompletes, DispatchInv, DispatchFlags
<1>4. DispatchFlags'
  BY <1>1, <1>3 DEF DispatchInv, DispatchFlags
<1>5. DispatchLedger'
  BY Zenon, <1>1, <1>2, LedgerRests
<1>6. CopiesBounded'
  BY Zenon, <1>1, CopiesStay DEF DispatchInv
<1>7. /\ waiting \in Seq(Intakes) /\ Len(waiting) \in Nat
      /\ \A i \in 1 .. Len(waiting) : waiting[i] \in Intakes /\ Captured(waiting[i])
  <2>1. waiting \in Seq(Intakes) /\ Len(waiting) \in Nat /\ WaitingCaptured
    BY Zenon, DispatchTyped DEF DispatchInv, IntentKept
  <2>. QED
    BY <2>1, ElementOfSeq DEF WaitingCaptured
<1>8. \A p \in Intakes : Captured(p) => Captured(p)'
  BY <1>1 DEF Captured
<1>9. waiting' \in Seq(Intakes) /\ WaitingCaptured'
  <2>1. CASE waiting' = waiting
    BY Zenon, <1>7, <1>8, <2>1, WaitingNext
  <2>2. CASE waiting' # waiting
    <3>1. PICK p : p = [run |-> chat.run, turn |-> chat.turn, policy |-> Newest(InForce),
                        version |-> brake.version, era |-> era]
      OBVIOUS
    <3>2. InForce # {} /\ waiting' = Append(waiting, p)
      BY <2>2, <3>1 DEF TurnCompletes
    <3>3. Newest(InForce) \in 1 .. Len(rules)
      <4>1. InForce \subseteq 1 .. Len(rules) /\ Len(rules) \in Nat
        BY DispatchTyped DEF InForce
      <4>2. Newest(InForce) \in InForce
        BY Zenon, <3>2, <4>1, NewestIn
      <4>. QED
        BY <4>1, <4>2
    <3>4. p \in Intakes /\ p.policy = Newest(InForce) /\ p.version = brake.version /\ p.era = era
      BY <3>1, <3>3, DispatchTyped DEF Intakes
    <3>5. Captured(p)'
      BY <1>1, <3>3, <3>4, DispatchTyped DEF Captured
    <3>6. /\ waiting' \in Seq(Intakes) /\ Len(waiting') = Len(waiting) + 1
          /\ waiting'[Len(waiting) + 1] = p
          /\ \A i \in 1 .. Len(waiting) : waiting'[i] = waiting[i]
      BY <1>7, <3>2, <3>4
    <3>7. ASSUME NEW i \in 1 .. Len(waiting')
          PROVE  \E q \in Intakes : q = waiting'[i] /\ Captured(q)'
      <4>1. CASE i = Len(waiting) + 1
        BY <3>4, <3>5, <3>6, <4>1
      <4>2. CASE i # Len(waiting) + 1
        <5>1. i \in 1 .. Len(waiting)
          BY <1>7, <3>6, <4>2
        <5>. QED
          BY <1>7, <1>8, <3>6, <5>1
      <4>. QED
        BY <4>1, <4>2
    <3>. QED
      BY Zenon, <3>6, <3>7, WaitingNext
  <2>. QED
    BY <2>1, <2>2
<1>10. HandCaptured'
  BY <1>1 DEF DispatchInv, IntentKept, HandCaptured, Captured
<1>11. IntentKept'
  BY <1>1, <1>9, <1>10 DEF DispatchInv, IntentKept
<1>. QED
  BY <1>4, <1>5, <1>6, <1>11 DEF DispatchInv

LEMMA AdmitKept ==
  ASSUME DispatchInv, DrainAdmits
  PROVE  DispatchInv'
<1>1. UNCHANGED <<chat, brake, rules, plans, execs, wakeAgain, jobRoots, shut, era, spare>>
  BY DEF DrainAdmits, userVars, ledgerVars
<1>2. /\ waiting # << >> /\ waiting' = Tail(waiting) /\ slot' = "mine" /\ pump' = "in"
      /\ intake' = [at |-> "plan", cut |-> FALSE, of |-> Head(waiting), plan |-> 0,
                    blind |-> FALSE]
  BY DEF DrainAdmits
<1>3. /\ waiting \in Seq(Intakes)
      /\ \A i \in 1 .. Len(waiting) : waiting[i] \in Intakes /\ Captured(waiting[i])
  <2>1. waiting \in Seq(Intakes) /\ WaitingCaptured
    BY DEF DispatchInv, IntentKept
  <2>. QED
    BY <2>1, ElementOfSeq DEF WaitingCaptured
<1>4. /\ waiting' \in Seq(Intakes) /\ Len(waiting') = Len(waiting) - 1
      /\ \A i \in 1 .. Len(waiting') : waiting'[i] = waiting[i + 1]
      /\ Head(waiting) = waiting[1] /\ 1 \in 1 .. Len(waiting) /\ Head(waiting) \in Intakes
      /\ \A i \in 1 .. Len(waiting') : i + 1 \in 1 .. Len(waiting)
  BY <1>2, <1>3
<1>5. PICK p \in Intakes : p = Head(waiting) /\ Captured(p)
  BY <1>3, <1>4
<1>6. /\ intake' \in IntakeRecord /\ intake'.at = "plan" /\ intake'.of = p /\ intake'.plan = 0
  BY <1>2, <1>5 DEF IntakeRecord
<1>7. DispatchFlags'
  BY <1>1, <1>2 DEF DispatchInv, DispatchFlags
<1>8. DispatchLedger'
  BY Zenon, <1>1, DispatchTyped, LedgerRests
<1>9. CopiesBounded'
  BY Zenon, <1>1, <1>6, CopiesStay DEF DispatchInv
<1>10. IntentKept'
  <2>1. \A q \in Intakes : Captured(q) => Captured(q)'
    BY <1>1 DEF Captured
  <2>2. WaitingCaptured'
    <3>1. \A i \in 1 .. Len(waiting') : \E q \in Intakes : q = waiting'[i] /\ Captured(q)'
      BY <1>3, <1>4, <2>1
    <3>. QED
      BY Zenon, <3>1, WaitingNext
  <2>3. HandCaptured'
    BY Zenon, <1>5, <1>6, <2>1, HandNext
  <2>4. Len(plans') \in Nat
    BY Zenon, <1>1, DispatchTyped, DispatchFacts
  <2>. QED
    BY <1>4, <1>6, <2>2, <2>3, <2>4 DEF IntentKept
<1>. QED
  BY <1>7, <1>8, <1>9, <1>10 DEF DispatchInv

LEMMA WaitingStays ==
  ASSUME DispatchInv, waiting' = waiting, UNCHANGED <<brake, rules, era>>
  PROVE  waiting' \in Seq(Intakes) /\ WaitingCaptured'
BY DEF DispatchInv, IntentKept, WaitingCaptured, Captured

LEMMA IntentOver ==
  ASSUME DispatchInv, waiting' = waiting, intake' = NoIntake, UNCHANGED <<brake, rules, era>>,
         Len(plans') \in Nat
  PROVE  IntentKept'
<1>1. intake' \in IntakeRecord /\ intake'.at = "off" /\ intake'.plan = 0
  BY Zenon, NoIntakeTyped
<1>2. HandCaptured'
  BY <1>1 DEF HandCaptured
<1>. QED
  BY <1>1, <1>2, WaitingStays DEF IntentKept

LEMMA OverTyped ==
  ASSUME DispatchInv, IntakeOver
  PROVE  /\ slot' = "free" /\ pump' = "top" /\ intake' = NoIntake /\ waiting' = waiting
         /\ wakeAgain' \in BOOLEAN
         /\ intake'.at = "off"
<1>1. wakeAgain' \in BOOLEAN
  BY Zenon DEF IntakeOver
<1>. QED
  BY Zenon, <1>1, NoIntakeTyped DEF IntakeOver

(* A plan is added; what is not dispatched is superseded by it.             *)
LEMMA PlanMade ==
  ASSUME DispatchInv, NEW p \in 1 .. Len(rules), NEW status \in {"frozen", "open"},
         plans' = PlansWith(p, status)
  PROVE  /\ plans' \in Seq(PlanRow) /\ Len(plans') = Len(plans) + 1
         /\ \A i \in 1 .. Len(plans) : plans'[i].policy = plans[i].policy
         /\ plans'[Len(plans) + 1].policy = p
<1>1. /\ plans \in Seq(PlanRow) /\ Len(plans) \in Nat /\ DOMAIN plans = 1 .. Len(plans)
      /\ chat.turn \in Nat /\ chat.sel \in Nat /\ p \in Nat
  BY DispatchTyped DEF DispatchTables
<1>. DEFINE row(i) == IF plans[i].status = "dispatched" THEN plans[i]
                      ELSE [plans[i] EXCEPT !.status = "superseded"]
<1>2. PICK old : old = [i \in 1 .. Len(plans) |-> row(i)]
  OBVIOUS
<1>3. PICK new : new = [policy |-> p, turn |-> chat.turn, run |-> chat.sel, status |-> status]
  OBVIOUS
<1>4. plans' = Append(old, new)
  BY <1>1, <1>2, <1>3 DEF PlansWith
<1>5. \A i \in 1 .. Len(plans) : row(i) \in PlanRow /\ row(i).policy = plans[i].policy
  <2>. SUFFICES ASSUME NEW i \in 1 .. Len(plans)
                PROVE  row(i) \in PlanRow /\ row(i).policy = plans[i].policy
    OBVIOUS
  <2>1. plans[i] \in PlanRow
    BY <1>1
  <2>. QED
    BY <2>1 DEF PlanRow
<1>. HIDE DEF row
<1>6. /\ old \in Seq(PlanRow) /\ Len(old) = Len(plans)
      /\ \A i \in 1 .. Len(plans) : old[i].policy = plans[i].policy
  BY <1>1, <1>2, <1>5
<1>7. new \in PlanRow /\ new.policy = p
  BY <1>1, <1>3 DEF PlanRow
<1>. QED
  BY <1>1, <1>4, <1>6, <1>7

(* Plans are stored, copies let go of and one left behind: the executions   *)
(* stay as they are.                                                        *)
LEMMA LedgerPruned ==
  ASSUME DispatchInv, RootsGrow, \A c \in 1 .. Len(jobRoots') : jobRoots'[c].exec <= Len(execs),
         UNCHANGED <<chat, brake, rules, execs, era>>,
         plans' \in Seq(PlanRow), Len(plans) <= Len(plans'),
         \A i \in 1 .. Len(plans') : plans'[i].policy \in 1 .. Len(rules)
  PROVE  DispatchLedger'
<1>1. /\ DispatchLedger /\ DispatchTables /\ Len(execs) \in Nat /\ Len(rules) \in Nat
      /\ jobRoots \in Seq(RootRow) /\ Len(jobRoots) \in Nat
  BY Zenon, DispatchTyped, DispatchFacts DEF DispatchTables
<1>2. jobRoots' \in Seq(RootRow) /\ Len(jobRoots') \in Nat /\ Len(jobRoots) <= Len(jobRoots')
  BY DEF RootsGrow
<1>3. DispatchTables'
  BY <1>1, <1>2 DEF DispatchTables
<1>4. ASSUME NEW k \in 1 .. Len(execs) PROVE SameExec(k) /\ WindsDown(k) /\ ExecSound(k)'
  <2>1. ExecSound(k)
    BY <1>1 DEF DispatchLedger
  <2>2. Ended(execs[k].policy)' <=> Ended(execs[k].policy)
    BY DEF Ended
  <2>3. Copied(k) /\ execs[k].grant \notin {"revoked", "over"} => Copied(k)'
    BY Zenon, CopyKeeps
  <2>4. ExecSound(k)'
    BY <2>1, <2>2, <2>3 DEF ExecSound
  <2>. QED
    BY <2>4 DEF SameExec, WindsDown
<1>5. \A c \in 1 .. Len(jobRoots') : jobRoots'[c].exec <= Len(execs')
  BY Zenon
<1>6. /\ Len(execs') = Len(execs) /\ Len(execs') # Len(execs) + 1
      /\ \A k \in 1 .. Len(execs') : ExecSound(k)'
      /\ Len(rules') = Len(rules)
  BY <1>1, <1>4
<1>7. AddedFits
  BY <1>6 DEF AddedFits
<1>. QED
  BY <1>1, <1>3, <1>4, <1>5, <1>6, <1>7, LedgerKept

(* The intake ends before it authorises; the copy it leaves behind is       *)
(* nobody's.                                                                *)
LEMMA IntakeStopsKept ==
  ASSUME DispatchInv, PlannerStops \/ PrepareStops
  PROVE  DispatchInv'
<1>1. UNCHANGED <<chat, brake, rules, plans, execs, shut, era>> /\ IntakeOver
  BY DEF PlannerStops, PrepareStops, userVars, ledgerVars
<1>2. /\ slot' = "free" /\ pump' = "top" /\ intake' = NoIntake /\ waiting' = waiting
      /\ wakeAgain' \in BOOLEAN /\ intake'.at = "off"
  BY Zenon, <1>1, OverTyped
<1>3. \/ UNCHANGED <<jobRoots, spare>>
      \/ intake.at = "prepare" /\ Uses("faults") /\ CopyStays(0)
  BY DEF PlannerStops, PrepareStops, Discards
<1>4. spare' \in [DispatchEvents -> Nat]
  <2>1. CASE spare' = spare
    BY <2>1 DEF DispatchInv, DispatchFlags
  <2>2. CASE Uses("faults")
    BY Zenon, <2>2, UsesTyped DEF DispatchEvents
  <2>. QED
    BY <1>3, <2>1, <2>2
<1>5. DispatchFlags'
  BY <1>1, <1>2, <1>4 DEF DispatchInv, DispatchFlags
<1>6. IntentKept'
  BY Zenon, <1>1, <1>2, IntentOver, DispatchTyped, DispatchFacts
<1>7. CASE jobRoots' = jobRoots
  <2>1. DispatchLedger'
    BY Zenon, <1>1, <1>7, DispatchTyped, LedgerRests
  <2>2. CopiesBounded'
    BY Zenon, <1>2, <1>7, CopiesStay DEF DispatchInv
  <2>. QED
    BY <1>5, <1>6, <2>1, <2>2 DEF DispatchInv
<1>8. CASE intake.at = "prepare" /\ CopyStays(0)
  <2>1. PICK is \in {"prepared", "bare"} : jobRoots' = Append(jobRoots, Copy(0, is))
    BY <1>8 DEF CopyStays
  <2>2. PICK copy : copy = Copy(0, is)
    OBVIOUS
  <2>3. copy \in RootRow /\ copy.exec = 0 /\ copy.blind = intake.blind
    BY Zenon, <2>2, CopyMade
  <2>4. /\ DispatchLedger /\ LetGo(jobRoots) /\ Len(execs) \in Nat /\ Len(rules) \in Nat
        /\ Len(plans) \in Nat /\ plans \in Seq(PlanRow)
        /\ \A i \in 1 .. Len(plans) : plans[i].policy \in 1 .. Len(rules)
    BY Zenon, DispatchTyped, DispatchFacts, RootsTyped DEF DispatchTables, DispatchLedger, References
  <2>5. Len(execs) <= Len(execs) /\ copy.exec <= Len(execs) /\ Len(plans) <= Len(plans)
    BY <2>3, <2>4
  <2>6. jobRoots' = Append(jobRoots, copy)
    BY <2>1, <2>2
  <2>7. RootsGrow /\ \A c \in 1 .. Len(jobRoots') : jobRoots'[c].exec <= Len(execs)
    BY Zenon, <2>3, <2>4, <2>5, <2>6, CopyComes
  <2>8. DispatchLedger'
    BY Zenon, <1>1, <2>4, <2>5, <2>7, LedgerPruned
  <2>9. CopiesBounded'
    <3>1. intake'.at # "prepare"
      BY <1>2
    <3>. QED
      BY Zenon, <1>8, <2>3, <2>4, <2>6, <3>1, OneMoreCopy
  <2>. QED
    BY <1>5, <1>6, <2>8, <2>9 DEF DispatchInv
<1>. QED
  BY <1>3, <1>7, <1>8

(* A plan is stored or found; a frozen one goes on while there is room.     *)
LEMMA PlannerKept ==
  ASSUME DispatchInv, PlannerReturns
  PROVE  DispatchInv'
<1>1. PICK i \in 1 .. Len(plans) + 1, status \in {"frozen", "open"} :
        /\ IF i > Len(plans)
             THEN plans' = PlansWith(intake.of.policy, status)
             ELSE /\ plans[i].policy = intake.of.policy
                  /\ plans[i].turn = chat.turn /\ plans[i].run = chat.sel
                  /\ UNCHANGED plans
        /\ \/ PrunesAndPrepares(i)
           \/ IntakeOver /\ UNCHANGED <<jobRoots, spare>>
  BY DEF PlannerReturns
<1>2. UNCHANGED <<chat, brake, rules, execs, shut, era>>
  BY DEF PlannerReturns, userVars
<1>3. intake.at = "plan" /\ ~ intake.cut /\ Captured(intake.of)
      /\ intake.of.policy \in 1 .. Len(rules)
  BY DEF PlannerReturns, DispatchInv, IntentKept, HandCaptured, Captured
<1>4. /\ Len(plans) \in Nat /\ plans \in Seq(PlanRow) /\ Len(rules) \in Nat
      /\ \A j \in 1 .. Len(plans) : plans[j].policy \in 1 .. Len(rules)
      /\ brake.version \in Nat /\ MaxRetained \in Nat
  BY Zenon, DispatchTyped, DispatchFacts, DispatchAssumption
     DEF DispatchTables, DispatchLedger, References
<1>5. /\ plans' \in Seq(PlanRow) /\ Len(plans') \in Nat /\ Len(plans) <= Len(plans')
      /\ i \in 1 .. Len(plans') /\ plans'[i].policy = intake.of.policy
      /\ \A j \in 1 .. Len(plans) : plans'[j].policy = plans[j].policy
      /\ \A j \in 1 .. Len(plans') : plans'[j].policy \in 1 .. Len(rules)
  <2>1. CASE i > Len(plans)
    <3>1. /\ plans' \in Seq(PlanRow) /\ Len(plans') = Len(plans) + 1
          /\ \A j \in 1 .. Len(plans) : plans'[j].policy = plans[j].policy
          /\ plans'[Len(plans) + 1].policy = intake.of.policy
      BY Zenon, <1>1, <1>3, <2>1, PlanMade
    <3>2. i = Len(plans) + 1
      BY <1>4, <2>1
    <3>3. ASSUME NEW j \in 1 .. Len(plans') PROVE plans'[j].policy \in 1 .. Len(rules)
      <4>1. CASE j \in 1 .. Len(plans)
        BY <1>4, <3>1, <4>1
      <4>2. CASE j = Len(plans) + 1
        BY <1>3, <3>1, <4>2
      <4>. QED
        BY <1>4, <3>1, <4>1, <4>2
    <3>4. Len(plans) \in Nat
      BY <1>4
    <3>5. /\ Len(plans') \in Nat /\ Len(plans) <= Len(plans') /\ i \in 1 .. Len(plans')
          /\ plans'[i].policy = intake.of.policy
      BY <3>1, <3>2, <3>4
    <3>. QED
      BY <3>1, <3>3, <3>5
  <2>2. CASE i <= Len(plans)
    BY <1>1, <1>4, <2>2
  <2>. QED
    BY <1>4, <2>1, <2>2
<1>6. LetGo(jobRoots') /\ RootsGrow /\ \A c \in 1 .. Len(jobRoots') : jobRoots'[c].exec <= Len(execs)
  <2>1. PICK roots : roots = jobRoots'
    OBVIOUS
  <2>2. roots = jobRoots \/ roots = Pruned \/ roots \in BrokenPrunes
    BY <1>1, <2>1 DEF PrunesAndPrepares
  <2>3. LetGo(roots)
    BY Zenon, <2>2, RootsTyped, PrunedLetGo, BrokenLetGo
  <2>4. PICK copy \in RootRow : copy.exec = 0
    <3>1. [exec |-> 0, is |-> "bare", old |-> FALSE, blind |-> FALSE] \in RootRow
      BY DEF RootRow
    <3>. QED
      BY <3>1
  <2>5. Len(execs) \in Nat /\ Len(execs) <= Len(execs) /\ copy.exec <= Len(execs)
    BY <2>4, DispatchTyped, DispatchFacts
  <2>6. RootsGrow /\ \A c \in 1 .. Len(jobRoots') : jobRoots'[c].exec <= Len(execs)
    BY Zenon, <2>1, <2>3, <2>5, CopyComes
  <2>. QED
    BY <2>1, <2>3, <2>6
<1>7. DispatchLedger'
  BY Zenon, <1>2, <1>5, <1>6, LedgerPruned
<1>71. spare' \in [DispatchEvents -> Nat]
  <2>1. CASE spare' = spare
    BY <2>1 DEF DispatchInv, DispatchFlags
  <2>2. CASE Uses("faults")
    BY Zenon, <2>2, UsesTyped DEF DispatchEvents
  <2>. QED
    BY <1>1, <2>1, <2>2 DEF PrunesAndPrepares
<1>8. CASE IntakeOver
  <2>1. /\ slot' = "free" /\ pump' = "top" /\ intake' = NoIntake /\ waiting' = waiting
        /\ wakeAgain' \in BOOLEAN /\ intake'.at = "off"
    BY Zenon, <1>8, OverTyped
  <2>2. DispatchFlags'
    BY <1>2, <1>71, <2>1 DEF DispatchInv, DispatchFlags
  <2>3. CopiesBounded'
    <3>1. intake'.at # "prepare"
      BY <2>1
    <3>. QED
      BY Zenon, <1>6, <3>1, CopiesGo
  <2>4. IntentKept'
    BY Zenon, <1>2, <1>5, <2>1, IntentOver
  <2>. QED
    BY <1>7, <2>2, <2>3, <2>4 DEF DispatchInv
<1>9. ASSUME NEW unseen \in BOOLEAN, Prepares(i, unseen), ~ unseen => BudgetLeft(jobRoots')
      PROVE  DispatchInv'
  <2>0. /\ intake' = [intake EXCEPT !.at = "prepare", !.plan = i, !.blind = unseen]
        /\ UNCHANGED <<waiting, pump, wakeAgain, slot>>
    BY <1>9 DEF Prepares
  <2>1. intake \in IntakeRecord /\ i \in Nat
    BY DispatchTyped
  <2>2. /\ intake' \in IntakeRecord /\ intake'.at = "prepare" /\ intake'.plan = i
        /\ intake'.of = intake.of /\ intake'.cut = intake.cut /\ intake'.blind = unseen
    BY <2>0, <2>1 DEF IntakeRecord
  <2>3. DispatchFlags'
    BY <1>2, <1>71, <2>0 DEF DispatchInv, DispatchFlags
  <2>4. ~ unseen => Cardinality(Counted(jobRoots')) < MaxRetained
    <3>. SUFFICES ASSUME ~ unseen PROVE Cardinality(Counted(jobRoots')) < MaxRetained
      OBVIOUS
    <3>0. PICK roots : roots = jobRoots'
      OBVIOUS
    <3>1. Len(jobRoots) \in Nat /\ DOMAIN roots = 1 .. Len(jobRoots)
      BY <1>6, <3>0, RootsTyped DEF LetGo
    <3>2. Counted(roots) \subseteq Retained(roots) /\ Retained(roots) \subseteq 1 .. Len(jobRoots)
      BY <3>1 DEF Counted, Retained
    <3>3. /\ Cardinality(Retained(roots)) \in Nat /\ Cardinality(Counted(roots)) \in Nat
          /\ Cardinality(Counted(roots)) <= Cardinality(Retained(roots))
      BY Zenon, <3>1, <3>2, CountsFewer
    <3>4. Cardinality(Retained(roots)) < MaxRetained
      BY <1>9, <3>0 DEF BudgetLeft
    <3>. QED
      BY <1>4, <3>0, <3>3, <3>4
  <2>5. CopiesBounded'
    BY Zenon, <1>6, <2>2, <2>4, CopiesGo
  <2>6. IntentKept'
    <3>1. waiting' \in Seq(Intakes) /\ WaitingCaptured'
      BY Zenon, <1>2, <2>0, WaitingStays
    <3>2. PICK p \in Intakes : p = intake.of
      BY <2>1 DEF IntakeRecord
    <3>3. Captured(p)'
      BY <1>2, <1>3, <3>2 DEF Captured
    <3>4. HandCaptured'
      BY Zenon, <2>2, <3>2, <3>3, HandNext
    <3>. QED
      BY <1>5, <2>2, <3>1, <3>4 DEF IntentKept
  <2>. QED
    BY <1>7, <2>3, <2>5, <2>6 DEF DispatchInv
<1>10. CASE PrunesAndPrepares(i) /\ ~ IntakeOver
  <2>1. CASE jobRoots' = Pruned /\ BudgetLeft(Pruned) /\ Prepares(i, FALSE)
    BY <1>9, <2>1
  <2>2. CASE Prepares(i, TRUE)
    BY <1>9, <2>2
  <2>. QED
    BY Zenon, <1>10, <2>1, <2>2 DEF PrunesAndPrepares
<1>. QED
  BY Zenon, <1>1, <1>8, <1>10

(* A plan is posted by hand.                                                *)
LEMMA PostedKept ==
  ASSUME DispatchInv, NEW p \in DOMAIN rules, NEW status \in {"frozen", "open"}, PlanPosted(p, status)
  PROVE  DispatchInv'
<1>1. UNCHANGED <<chat, brake, rules, execs, waiting, intake, pump, wakeAgain, jobRoots, slot, shut, era>>
  BY DEF PlanPosted, userVars, serviceVars
<1>2. plans' = PlansWith(p, status) /\ p \in 1 .. Len(rules)
  BY DispatchTyped DEF PlanPosted
<1>3. /\ plans' \in Seq(PlanRow) /\ Len(plans') = Len(plans) + 1
      /\ \A i \in 1 .. Len(plans) : plans'[i].policy = plans[i].policy
      /\ plans'[Len(plans) + 1].policy = p
  BY Zenon, <1>2, PlanMade
<1>4. /\ Len(plans) \in Nat /\ Len(rules) \in Nat
      /\ \A j \in 1 .. Len(plans) : plans[j].policy \in 1 .. Len(rules)
  BY Zenon, DispatchTyped, DispatchFacts DEF DispatchLedger, References
<1>5. Len(plans) <= Len(plans') /\ \A j \in 1 .. Len(plans') : plans'[j].policy \in 1 .. Len(rules)
  BY <1>2, <1>3, <1>4
<1>6. DispatchLedger'
  <2>1. RootsGrow /\ \A c \in 1 .. Len(jobRoots') : jobRoots'[c].exec <= Len(execs)
    BY Zenon, <1>1, RootsStill
  <2>. QED
    BY Zenon, <1>1, <1>3, <1>5, <2>1, LedgerPruned
<1>7. spare' \in [DispatchEvents -> Nat]
  BY Zenon, UsesTyped DEF PlanPosted, DispatchEvents
<1>8. DispatchFlags'
  BY <1>1, <1>7 DEF DispatchInv, DispatchFlags
<1>9. CopiesBounded'
  BY Zenon, <1>1, CopiesStay DEF DispatchInv
<1>10. IntentKept'
  <2>1. DispatchTables' /\ DispatchLedger /\ IntentKept
    BY Zenon, <1>6, DispatchTyped DEF DispatchLedger, DispatchInv
  <2>2. waiting' = waiting /\ intake' = intake /\ era' = era /\ rules' = rules /\ brake' = brake
    BY Zenon, <1>1
  <2>3. brake.version \in Nat /\ Len(rules) \in Nat
    BY Zenon, <1>4, DispatchTyped
  <2>4. Len(rules) <= Len(rules') /\ brake.version <= brake'.version
    BY <2>2, <2>3
  <2>. QED
    BY Zenon, <1>3, <1>5, <2>1, <2>2, <2>4, DispatchTyped, IntentStays
<1>. QED
  BY <1>6, <1>8, <1>9, <1>10 DEF DispatchInv

(* An execution rests: only its grant moves on, as the trial runner and the *)
(* control move it.                                                         *)
Rests(k) ==
  /\ SameExec(k) /\ WindsDown(k)
  /\ execs'[k].status = execs[k].status
  /\ execs'[k].grant = "claimed" /\ execs[k].grant # "claimed" =>
       execs[k].linked /\ ~ Ended(execs[k].policy)
  /\ execs[k].stop => execs'[k].stop

LEMMA LedgerWinds ==
  ASSUME DispatchInv, DispatchTables', rules' = rules, Len(plans') = Len(plans),
         \A i \in 1 .. Len(plans) : plans'[i].policy = plans[i].policy,
         Len(execs') = Len(execs) \/ Len(execs') = Len(execs) + 1,
         \A k \in 1 .. Len(execs) : Rests(k),
         RootsGrow,
         \A c \in 1 .. Len(jobRoots') : jobRoots'[c].exec <= Len(execs'),
         \A k \in Len(execs) + 1 .. Len(execs') : ExecSound(k)',
         AddedFits
  PROVE  DispatchLedger'
<1>1. /\ DispatchLedger /\ Len(execs) \in Nat /\ Len(rules) \in Nat /\ Len(plans) \in Nat
  BY Zenon, DispatchTyped, DispatchFacts
<1>2. ASSUME NEW k \in 1 .. Len(execs) PROVE SameExec(k) /\ WindsDown(k) /\ ExecSound(k)'
  <2>1. ExecSound(k) /\ Rests(k)
    BY <1>1 DEF DispatchLedger
  <2>2. Ended(execs[k].policy)' <=> Ended(execs[k].policy)
    BY <2>1 DEF Ended, Rests, SameExec
  <2>3. Copied(k) /\ execs[k].grant \notin {"revoked", "over"} => Copied(k)'
    BY Zenon, CopyKeeps
  <2>4. ExecSound(k)'
    BY <2>1, <2>2, <2>3 DEF ExecSound, Rests, SameExec, WindsDown
  <2>. QED
    BY <2>1, <2>4 DEF Rests
<1>3. \A k \in 1 .. Len(execs') : ExecSound(k)'
  BY <1>1, <1>2
<1>4. \A i \in 1 .. Len(plans') : plans'[i].policy \in 1 .. Len(rules')
  BY <1>1 DEF DispatchLedger, References
<1>5. \A k \in 1 .. Len(execs) : SameExec(k) /\ WindsDown(k)
  BY Zenon, <1>2
<1>6. Len(rules) <= Len(rules') /\ Len(plans) <= Len(plans')
  BY <1>1
<1>. QED
  BY Zenon, <1>1, <1>3, <1>4, <1>5, <1>6, LedgerKept

(* The last fence holds: what was asked is what is given, under a policy in *)
(* force; and what may be authorised has room.                              *)
LEMMA ReadyFacts ==
  ASSUME DispatchInv, PrepareReady
  PROVE  /\ intake.plan \in 1 .. Len(plans)
         /\ plans[intake.plan].policy \in 1 .. Len(rules)
         /\ rules[plans[intake.plan].policy] = "active"
         /\ intake.of.era = era /\ intake.at = "prepare"
         /\ Authorisable(intake.plan) => HasRoom(plans[intake.plan].policy)
<1>1. /\ intake.at = "prepare" /\ ~ intake.cut
      /\ Newest(InForce) = intake.of.policy /\ brake.version = intake.of.version
  BY DEF PrepareReady, IntakeCurrent
<1>2. /\ Captured(intake.of) /\ intake.plan # 0 /\ intake.plan <= Len(plans)
      /\ plans[intake.plan].policy = intake.of.policy
  BY <1>1 DEF DispatchInv, IntentKept, HandCaptured
<1>3. /\ intake.plan \in Nat /\ Len(rules) \in Nat /\ Len(plans) \in Nat /\ Len(execs) \in Nat
      /\ DOMAIN rules = 1 .. Len(rules) /\ DOMAIN execs = 1 .. Len(execs) /\ DispatchLedger
      /\ execs \in Seq(ExecRow)
  BY Zenon, DispatchTyped, DispatchFacts DEF IntakeRecord, DispatchTables
<1>4. PICK p : p = plans[intake.plan].policy
  OBVIOUS
<1>5. p \in 1 .. Len(rules) /\ intake.of.era = era /\ Newest(InForce) = p
  BY <1>1, <1>2, <1>4 DEF Captured
<1>6. rules[p] = "active"
  <2>1. InForce # {}
    BY <1>3, <1>5 DEF Newest
  <2>2. Newest(InForce) \in InForce
    BY Zenon, <1>3, <2>1, NewestIn DEF InForce
  <2>. QED
    BY <1>5, <2>2 DEF InForce
<1>7. ASSUME Authorisable(intake.plan)
      PROVE  HasRoom(p)
  <2>1. Cardinality(SpentToday(p)) < JobsPerDay /\ Cardinality(Running(p)) < Concurrent
    BY <1>4, <1>7 DEF Authorisable
  <2>2. Running(p) \subseteq 1 .. Len(execs)
    BY <1>3 DEF Running, Spent
  <2>3. Load(p) \subseteq Running(p)
    <3>. SUFFICES ASSUME NEW e \in Load(p) PROVE e \in Running(p)
      OBVIOUS
    <3>1. /\ e \in 1 .. Len(execs) /\ execs[e] \in ExecRow /\ ExecSound(e) /\ execs[e].policy = p
          /\ execs[e].status # "blocked"
          /\ execs[e].status = "reserved" \/ execs[e].grant \in {"queued", "claimed"}
      BY <1>3 DEF Load, DispatchLedger
    <3>2. ~ Ended(p)
      BY <1>6 DEF Ended
    <3>3. execs[e].status \in {"reserved", "authorized"}
      BY <3>1, <3>2 DEF ExecSound, ExecRow, ExecStatus
    <3>. QED
      BY <1>3, <3>1, <3>3 DEF Running, Spent
  <2>4. /\ Cardinality(Load(p)) \in Nat /\ Cardinality(Running(p)) \in Nat
        /\ Cardinality(Load(p)) <= Cardinality(Running(p))
    BY Zenon, <1>3, <2>2, <2>3, CountsFewer
  <2>5. Concurrent \in Nat
    BY DispatchAssumption
  <2>6. Cardinality(Load(p)) < Concurrent
    BY <2>1, <2>4, <2>5
  <2>. QED
    BY <2>1, <2>6 DEF HasRoom
<1>. QED
  BY <1>1, <1>2, <1>3, <1>4, <1>5, <1>6, <1>7

(* What an authorisation writes.                                            *)
AsMade(x, status, grant, linked) ==
  /\ x \in ExecRow /\ x.plan = intake.plan /\ x.policy = plans[intake.plan].policy
  /\ x.status = status /\ x.grant = grant /\ x.linked = linked /\ x.asked = x.given
  /\ x.stop = FALSE

LEMMA ExecutionMade ==
  ASSUME DispatchInv, PrepareReady, NEW status \in ExecStatus, NEW grant \in GrantStatus,
         NEW linked \in BOOLEAN, NEW x, x = Execution(intake.plan, status, grant, linked)
  PROVE  AsMade(x, status, grant, linked)
<1>1. /\ intake.plan \in 1 .. Len(plans) /\ plans[intake.plan].policy \in 1 .. Len(rules)
      /\ intake.of.era = era
  BY Zenon, ReadyFacts
<1>2. brake.version \in Nat /\ era \in Nat
  BY Zenon, DispatchTyped
<1>. QED
  BY <1>1, <1>2 DEF Execution, ExecRow, AsMade

(* An authorisation adds its execution, with its copy or without.           *)
LEMMA ExecutionAdded ==
  ASSUME DispatchInv, PrepareReady,
         NEW status \in {"denied", "blocked", "authorized", "reserved"},
         NEW grant \in {"none", "queued"}, NEW linked \in BOOLEAN,
         status = "denied" => grant = "none",
         status # "denied" => Authorisable(intake.plan),
         execs' \in Seq(ExecRow), Len(execs') = Len(execs) + 1,
         execs'[Len(execs) + 1] = Execution(intake.plan, status, grant, linked),
         \A k \in 1 .. Len(execs) : Rests(k),
         rules' = rules, plans' \in Seq(PlanRow), Len(plans') = Len(plans),
         \A i \in 1 .. Len(plans) : plans'[i].policy = plans[i].policy,
         chat' \in [turn : Nat, run : Nat, busy : BOOLEAN, sel : Nat],
         brake' \in [paused : BOOLEAN, version : Nat], era' \in Nat,
         NEW roots, LetGo(roots), NEW copy \in RootRow, copy.exec = Len(execs) + 1,
         linked => copy.is = "prepared",
         jobRoots' = Append(roots, copy) \/ (jobRoots' = roots /\ ~ linked)
  PROVE  DispatchLedger'
<1>1. /\ DispatchLedger /\ Len(execs) \in Nat /\ Len(rules) \in Nat /\ Len(plans) \in Nat
      /\ Len(jobRoots) \in Nat /\ rules \in Seq(RuleStatus)
  BY Zenon, DispatchTyped, DispatchFacts, RootsTyped
<1>2. /\ intake.plan \in 1 .. Len(plans) /\ plans[intake.plan].policy \in 1 .. Len(rules)
      /\ rules[plans[intake.plan].policy] = "active"
      /\ Authorisable(intake.plan) => HasRoom(plans[intake.plan].policy)
  BY Zenon, ReadyFacts
<1>3. PICK x : x = Execution(intake.plan, status, grant, linked)
  OBVIOUS
<1>4. status \in ExecStatus /\ grant \in GrantStatus
  BY DEF ExecStatus, GrantStatus
<1>5. /\ x \in ExecRow /\ x.plan = intake.plan /\ x.policy = plans[intake.plan].policy
      /\ x.status = status /\ x.grant = grant /\ x.linked = linked /\ x.asked = x.given
  <2>1. AsMade(x, status, grant, linked)
    BY ZenonT(40), <1>3, <1>4, ExecutionMade
  <2>. QED
    BY <2>1 DEF AsMade
<1>6. /\ RootsGrow /\ jobRoots' \in Seq(RootRow)
      /\ \A c \in 1 .. Len(jobRoots') : jobRoots'[c].exec <= Len(execs')
      /\ linked => Len(jobRoots') = Len(jobRoots) + 1
                   /\ jobRoots'[Len(jobRoots) + 1].exec = Len(execs) + 1
                   /\ jobRoots'[Len(jobRoots) + 1].is = "prepared"
  <2>1. PICK n \in Nat : n = Len(execs) + 1
    BY <1>1
  <2>2. Len(execs) <= n /\ copy.exec <= n
    BY <1>1, <2>1
  <2>3. /\ RootsGrow
        /\ \A c \in 1 .. Len(jobRoots') : jobRoots'[c].exec <= n
        /\ jobRoots' = Append(roots, copy) =>
             Len(jobRoots') = Len(jobRoots) + 1 /\ jobRoots'[Len(jobRoots) + 1] = copy
    BY Zenon, <2>2, CopyComes
  <2>4. linked => jobRoots' = Append(roots, copy)
    OBVIOUS
  <2>5. n = Len(execs')
    BY <2>1
  <2>6. jobRoots' \in Seq(RootRow)
    BY <2>3 DEF RootsGrow
  <2>. QED
    BY Zenon, <2>3, <2>4, <2>5, <2>6
<1>7. DispatchTables'
  BY <1>1, <1>6 DEF DispatchTables
<1>8. ASSUME NEW k \in Len(execs) + 1 .. Len(execs') PROVE ExecSound(k)'
  <2>0. k = Len(execs) + 1
    BY <1>1
  <2>1. execs'[k] = x
    BY <1>3, <2>0
  <2>2. linked => Copied(k)'
    <3>. SUFFICES ASSUME linked PROVE Copied(k)'
      OBVIOUS
    <3>1. Len(jobRoots) + 1 \in 1 .. Len(jobRoots')
      BY <1>1, <1>6
    <3>. QED
      BY <1>6, <2>0, <3>1 DEF Copied
  <2>3. ~ Ended(x.policy)'
    BY <1>2, <1>5 DEF Ended
  <2>. QED
    BY <1>5, <2>1, <2>2, <2>3 DEF ExecSound
<1>9. execs'[Len(execs')] = x
  BY <1>1, <1>3
<1>10. AddedFits
  BY <1>2, <1>5, <1>9 DEF AddedFits
<1>. QED
  BY Zenon, <1>6, <1>7, <1>8, <1>10, LedgerWinds

(* The rows of the ledger and one more.                                     *)
Extended(rows, x, grant) ==
  /\ rows \in Seq(ExecRow) /\ Len(rows) = Len(execs) + 1
  /\ \A k \in 1 .. Len(execs) : rows[k] = execs[k]
  /\ rows[Len(execs) + 1] = x /\ rows[Len(execs) + 1].grant = grant

LEMMA ReservedUnclaimed ==
  ASSUME DispatchInv, PrepareReady,
         NEW status \in {"denied", "blocked", "authorized", "reserved"},
         NEW grant \in {"none", "queued"}, NEW linked \in BOOLEAN,
         NEW rows, rows = Append(execs, Execution(intake.plan, status, grant, linked))
  PROVE  Extended(rows, Execution(intake.plan, status, grant, linked), grant)
<1>1. execs \in Seq(ExecRow) /\ Len(execs) \in Nat
  BY Zenon, DispatchTyped, DispatchFacts DEF DispatchTables
<1>2. PICK x : x = Execution(intake.plan, status, grant, linked)
  OBVIOUS
<1>3. status \in ExecStatus /\ grant \in GrantStatus
  BY DEF ExecStatus, GrantStatus
<1>4. x \in ExecRow /\ x.grant = grant
  <2>1. AsMade(x, status, grant, linked)
    BY Zenon, <1>2, <1>3, ExecutionMade
  <2>. QED
    BY <2>1 DEF AsMade
<1>5. rows = Append(execs, x)
  BY <1>2
<1>6. /\ rows \in Seq(ExecRow) /\ Len(rows) = Len(execs) + 1
      /\ \A k \in 1 .. Len(execs) : rows[k] = execs[k]
      /\ rows[Len(execs) + 1] = x
  BY <1>1, <1>4, <1>5
<1>. QED
  BY <1>2, <1>4, <1>6 DEF Extended

(* The intake ends with an execution: denied, granted with its copy, or     *)
(* blocked.                                                                 *)
LEMMA AuthoriseKept ==
  ASSUME DispatchInv,
         AuthoriseDenies \/ AuthoriseGrants \/ \E g \in {"none", "queued"} : AuthoriseThrows(g)
  PROVE  DispatchInv'
<1>1. /\ PrepareReady /\ IntakeOver
      /\ UNCHANGED <<chat, brake, rules, shut, era>>
  BY DEF AuthoriseDenies, AuthoriseGrants, AuthoriseThrows, userVars
<1>2. PICK status \in {"denied", "blocked", "authorized", "reserved"},
           grant \in {"none", "queued"}, linked \in BOOLEAN, is \in {"prepared", "bare"} :
        /\ status = "denied" => grant = "none"
        /\ status # "denied" => Authorisable(intake.plan)
        /\ linked => is = "prepared"
        /\ execs' = Append(execs, Execution(intake.plan, status, grant, linked))
        /\ \/ jobRoots' = Append(jobRoots, Copy(Len(execs) + 1, is))
           \/ jobRoots' = jobRoots /\ ~ linked
        /\ spare' = spare \/ Uses("faults")
  <2>1. CASE AuthoriseDenies
    BY <2>1 DEF AuthoriseDenies, Discards, CopyStays
  <2>2. CASE AuthoriseGrants
    BY <2>2 DEF AuthoriseGrants
  <2>3. CASE \E g \in {"none", "queued"} : AuthoriseThrows(g)
    BY <2>3 DEF AuthoriseThrows, CopyStays
  <2>. QED
    BY Zenon, <2>1, <2>2, <2>3
<1>3. PICK end \in {"dispatched", "blocked"} :
        plans' = plans \/ plans' = [plans EXCEPT ![intake.plan].status = end]
  BY DEF AuthoriseDenies, AuthoriseGrants, AuthoriseThrows
<1>4. spare' \in [DispatchEvents -> Nat]
  <2>1. CASE spare' = spare
    BY <2>1 DEF DispatchInv, DispatchFlags
  <2>2. CASE Uses("faults")
    BY Zenon, <2>2, UsesTyped DEF DispatchEvents
  <2>. QED
    BY <1>2, <2>1, <2>2
<1>5. /\ plans \in Seq(PlanRow) /\ Len(plans) \in Nat /\ Len(execs) \in Nat
      /\ intake.plan \in 1 .. Len(plans) /\ intake.at = "prepare" /\ LetGo(jobRoots)
  BY Zenon, <1>1, DispatchTyped, DispatchFacts, ReadyFacts, RootsTyped DEF DispatchTables
<1>6. /\ plans' \in Seq(PlanRow) /\ Len(plans') = Len(plans)
      /\ \A i \in 1 .. Len(plans) : plans'[i].policy = plans[i].policy
  <2>1. CASE plans' = plans
    BY <1>5, <2>1
  <2>2. CASE plans' = [plans EXCEPT ![intake.plan].status = end]
    <3>1. PICK i \in 1 .. Len(plans) : i = intake.plan
      BY <1>5
    <3>2. plans[i] \in PlanRow
      BY <1>5
    <3>3. PICK row : row = [plans[i] EXCEPT !.status = end]
      OBVIOUS
    <3>4. row \in PlanRow /\ row.policy = plans[i].policy
      BY <3>2, <3>3 DEF PlanRow
    <3>5. plans' = [plans EXCEPT ![i] = row]
      BY Zenon, <2>2, <3>1, <3>3
    <3>6. plans \in Seq(PlanRow) /\ Len(plans) \in Nat
      BY <1>5
    <3>. QED
      BY <3>4, <3>5, <3>6
  <2>. QED
    BY <1>3, <2>1, <2>2
<1>7. /\ execs' \in Seq(ExecRow) /\ Len(execs') = Len(execs) + 1
      /\ \A k \in 1 .. Len(execs) : execs'[k] = execs[k]
      /\ execs'[Len(execs) + 1] = Execution(intake.plan, status, grant, linked)
  <2>1. PICK rows : rows = execs'
    OBVIOUS
  <2>2. rows = Append(execs, Execution(intake.plan, status, grant, linked))
    BY <1>2, <2>1
  <2>3. /\ rows \in Seq(ExecRow) /\ Len(rows) = Len(execs) + 1
        /\ \A k \in 1 .. Len(execs) : rows[k] = execs[k]
        /\ rows[Len(execs) + 1] = Execution(intake.plan, status, grant, linked)
    <3>1. Extended(rows, Execution(intake.plan, status, grant, linked), grant)
      BY Zenon, <1>1, <2>2, ReservedUnclaimed
    <3>. QED
      BY <3>1 DEF Extended
  <2>. QED
    BY <2>1, <2>3
<1>8. \A k \in 1 .. Len(execs) : Rests(k)
  BY <1>7 DEF Rests, SameExec, WindsDown
<1>80. PICK n \in Nat : n = Len(execs) + 1
  BY <1>5
<1>81. PICK copy : copy = Copy(n, is)
  OBVIOUS
<1>82. /\ copy \in RootRow /\ copy.exec = n /\ copy.is = is
       /\ copy.blind = intake.blind
  BY Zenon, <1>81, CopyMade
<1>83. jobRoots' = Append(jobRoots, copy) \/ (jobRoots' = jobRoots /\ ~ linked)
  BY Zenon, <1>2, <1>80, <1>81
<1>84. linked => copy.is = "prepared"
  BY Zenon, <1>2, <1>82
<1>9. DispatchLedger'
  <2>1. /\ rules' = rules /\ chat' \in [turn : Nat, run : Nat, busy : BOOLEAN, sel : Nat]
        /\ brake' \in [paused : BOOLEAN, version : Nat] /\ era' \in Nat
    BY Zenon, <1>1, DispatchTyped
  <2>2. status = "denied" => grant = "none"
    BY Zenon, <1>2
  <2>3. status # "denied" => Authorisable(intake.plan)
    BY Zenon, <1>2
  <2>4. PICK roots : roots = jobRoots
    OBVIOUS
  <2>5. LetGo(roots) /\ (jobRoots' = Append(roots, copy) \/ (jobRoots' = roots /\ ~ linked))
    BY Zenon, <1>5, <1>83, <2>4
  <2>6. copy \in RootRow /\ copy.exec = Len(execs) + 1
    BY Zenon, <1>80, <1>82
  <2>. QED
    BY Zenon, <1>1, <1>6, <1>7, <1>8, <1>84, <2>1, <2>2, <2>3, <2>5, <2>6, ExecutionAdded
<1>10. /\ slot' = "free" /\ pump' = "top" /\ intake' = NoIntake /\ waiting' = waiting
       /\ wakeAgain' \in BOOLEAN /\ intake'.at = "off"
  BY Zenon, <1>1, OverTyped
<1>11. DispatchFlags'
  BY <1>1, <1>4, <1>10 DEF DispatchInv, DispatchFlags
<1>12. CopiesBounded'
  <2>1. intake'.at # "prepare"
    BY <1>10
  <2>. QED
    BY Zenon, <1>5, <1>82, <1>83, <2>1, OneMoreCopy
<1>13. IntentKept'
  BY Zenon, <1>1, <1>5, <1>6, <1>10, IntentOver
<1>. QED
  BY <1>9, <1>11, <1>12, <1>13 DEF DispatchInv

(* A restart pauses, settles what was claimed, and forgets what was         *)
(* captured.                                                                *)
LEMMA RebornFacts ==
  ASSUME DispatchInv, NEW rows, rows \in Seq(ExecRow), NEW left, Reborn(rows, left)
  PROVE  /\ execs' \in Seq(ExecRow) /\ Len(execs') = Len(rows)
         /\ \A k \in 1 .. Len(rows) :
              \/ execs'[k] = rows[k]
              \/ \E settled \in {"stopped", "over"} :
                   rows[k].grant = "claimed" /\ execs'[k] = [rows[k] EXCEPT !.grant = settled]
         /\ \A k \in 1 .. Len(rows) : rows[k].grant # "claimed" => execs'[k] = rows[k]
         /\ UNCHANGED <<rules, plans>>
         /\ chat' \in [turn : Nat, run : Nat, busy : BOOLEAN, sel : Nat]
         /\ brake' \in [paused : BOOLEAN, version : Nat] /\ era' \in Nat
         /\ intake'.at = "off"
         /\ IntentKept' /\ DispatchFlags'
         /\ \E roots : LetGo(roots) /\ jobRoots' = roots \o left
<1>1. PICK settled \in {"stopped", "over"} :
        execs' = [e \in DOMAIN rows |->
                    IF rows[e].grant = "claimed" THEN [rows[e] EXCEPT !.grant = settled] ELSE rows[e]]
  BY DEF Reborn
<1>2. DOMAIN rows = 1 .. Len(rows) /\ Len(rows) \in Nat
  OBVIOUS
<1>3. DOMAIN execs' = 1 .. Len(rows)
  BY <1>1, <1>2
<1>4. ASSUME NEW k \in 1 .. Len(rows)
      PROVE  /\ execs'[k] \in ExecRow
             /\ \/ execs'[k] = rows[k]
                \/ rows[k].grant = "claimed" /\ execs'[k] = [rows[k] EXCEPT !.grant = settled]
             /\ rows[k].grant # "claimed" => execs'[k] = rows[k]
  <2>1. PICK row \in ExecRow : row = rows[k]
    BY <1>2
  <2>2. execs'[k] = IF row.grant = "claimed" THEN [row EXCEPT !.grant = settled] ELSE row
    BY <1>1, <1>2, <2>1
  <2>3. execs'[k] \in ExecRow
    BY <2>1, <2>2 DEF ExecRow, GrantStatus
  <2>. QED
    BY Zenon, <2>1, <2>2, <2>3
<1>5. execs' \in Seq(ExecRow) /\ Len(execs') = Len(rows)
  <2>1. PICK f : f = execs'
    OBVIOUS
  <2>2. f = [k \in 1 .. Len(rows) |-> f[k]] /\ \A k \in 1 .. Len(rows) : f[k] \in ExecRow
    BY <1>1, <1>2, <1>4, <2>1
  <2>3. f \in [1 .. Len(rows) -> ExecRow]
    BY <2>2
  <2>4. f \in Seq(ExecRow) /\ Len(f) = Len(rows)
    BY <1>2, <2>3
  <2>. QED
    BY <2>1, <2>4
<1>6. UNCHANGED <<rules, plans>>
  BY DEF Reborn
<1>7. chat' \in [turn : Nat, run : Nat, busy : BOOLEAN, sel : Nat]
  BY Zenon, DispatchTyped DEF Reborn
<1>8. brake' \in [paused : BOOLEAN, version : Nat]
  <2>1. brake \in [paused : BOOLEAN, version : Nat] /\ brake.version + 1 \in Nat
    BY DispatchTyped
  <2>2. brake' = brake \/ brake' = [paused |-> TRUE, version |-> brake.version + 1]
    BY DEF Reborn
  <2>3. PICK v \in Nat : v = brake.version + 1
    BY <2>1
  <2>4. CASE brake' = brake
    BY <2>1, <2>4
  <2>5. CASE brake' = [paused |-> TRUE, version |-> v]
    BY <2>3, <2>5
  <2>. QED
    BY Zenon, <2>2, <2>3, <2>4, <2>5
<1>9. era' \in Nat
  BY DispatchTyped DEF Reborn
<1>10. /\ waiting' = << >> /\ intake' = NoIntake /\ pump' = "off" /\ wakeAgain' = FALSE
       /\ slot' = "free" /\ shut' = FALSE
  BY DEF Reborn
<1>11. spare' \in [DispatchEvents -> Nat]
  <2>1. CASE Uses("lives")
    BY Zenon, <2>1, UsesTyped DEF DispatchEvents
  <2>2. CASE /\ spare["lives"] > 0 /\ spare["faults"] > 0
             /\ spare' = [spare EXCEPT !["lives"] = @ - 1, !["faults"] = @ - 1]
    <3>1. spare \in [DispatchEvents -> Nat] /\ {"lives", "faults"} \subseteq DispatchEvents
      BY DEF DispatchInv, DispatchFlags, DispatchEvents
    <3>2. PICK lives \in Nat, faults \in Nat :
            lives = spare["lives"] - 1 /\ faults = spare["faults"] - 1
      BY <2>2, <3>1
    <3>3. spare' = [spare EXCEPT !["lives"] = lives, !["faults"] = faults]
      BY <2>2, <3>2
    <3>. QED
      BY <3>1, <3>2, <3>3
  <2>. QED
    BY Zenon, <2>1, <2>2 DEF Reborn, PrunesAtBoot
<1>12. DispatchFlags'
  BY <1>10, <1>11 DEF DispatchFlags
<1>13. intake' \in IntakeRecord /\ intake'.at = "off" /\ intake'.plan = 0
  BY Zenon, <1>10, NoIntakeTyped
<1>14. IntentKept'
  <2>1. waiting' \in Seq(Intakes) /\ Len(waiting') = 0 /\ Len(plans') \in Nat
    BY <1>6, <1>10, DispatchTyped, DispatchFacts
  <2>. QED
    BY <1>13, <2>1 DEF IntentKept, WaitingCaptured, HandCaptured
<1>15. \E roots : LetGo(roots) /\ jobRoots' = roots \o left
  BY Zenon, PrunedLetGo, BrokenLetGo DEF Reborn, PrunesAtBoot
<1>. QED
  BY <1>4, <1>5, <1>6, <1>7, <1>8, <1>9, <1>12, <1>13, <1>14, <1>15

LEMMA RebornRests ==
  ASSUME DispatchInv, NEW rows, rows \in Seq(ExecRow), NEW left, Reborn(rows, left),
         Len(execs) <= Len(rows),
         \A k \in 1 .. Len(execs) : rows[k] = execs[k]
  PROVE  \A k \in 1 .. Len(execs) : Rests(k)
<1>. SUFFICES ASSUME NEW k \in 1 .. Len(execs) PROVE Rests(k)
  OBVIOUS
<1>1. k \in 1 .. Len(rows) /\ rows[k] = execs[k]
  BY DispatchTyped, DispatchFacts
<1>2. PICK row \in ExecRow : row = execs[k]
  BY <1>1
<1>3. \/ execs'[k] = row
      \/ \E settled \in {"stopped", "over"} :
           row.grant = "claimed" /\ execs'[k] = [row EXCEPT !.grant = settled]
  <2>1. \A i \in 1 .. Len(rows) :
          \/ execs'[i] = rows[i]
          \/ \E settled \in {"stopped", "over"} :
               rows[i].grant = "claimed" /\ execs'[i] = [rows[i] EXCEPT !.grant = settled]
    BY Zenon, RebornFacts
  <2>2. k \in 1 .. Len(rows) /\ rows[k] = row
    BY Zenon, <1>1, <1>2
  <2>. QED
    BY Zenon, <2>1, <2>2
<1>. QED
  BY <1>2, <1>3 DEF Rests, SameExec, WindsDown, ExecRow

(* The process ends, in an authorisation or elsewhere.                      *)
LEMMA DispatchDeathKept ==
  ASSUME DispatchInv, ServerDies \/ \E g \in {"none", "queued"} : DiesAuthorising(g)
  PROVE  DispatchInv'
<1>1. /\ execs \in Seq(ExecRow) /\ Len(execs) \in Nat /\ Len(rules) \in Nat /\ Len(plans) \in Nat
      /\ rules \in Seq(RuleStatus) /\ plans \in Seq(PlanRow)
  BY Zenon, DispatchTyped, DispatchFacts DEF DispatchTables
<1>2. CASE ServerDies
  <2>1. PICK left \in {<< >>, <<Copy(0, "prepared")>>, <<Copy(0, "bare")>>} :
          (left # << >> => intake.at = "prepare") /\ Reborn(execs, left)
    BY Zenon, <1>2 DEF ServerDies
  <2>2. \A k \in 1 .. Len(execs) : Rests(k)
    <3>1. /\ execs \in Seq(ExecRow) /\ Len(execs) <= Len(execs)
          /\ \A k \in 1 .. Len(execs) : execs[k] = execs[k]
      BY <1>1
    <3>. QED
      BY Zenon, <2>1, <3>1, RebornRests
  <2>3. /\ execs' \in Seq(ExecRow) /\ Len(execs') = Len(execs)
        /\ UNCHANGED <<rules, plans>>
        /\ chat' \in [turn : Nat, run : Nat, busy : BOOLEAN, sel : Nat]
        /\ brake' \in [paused : BOOLEAN, version : Nat] /\ era' \in Nat
        /\ intake'.at = "off"
        /\ IntentKept' /\ DispatchFlags'
        /\ \E roots : LetGo(roots) /\ jobRoots' = roots \o left
    BY Zenon, <1>1, <2>1, RebornFacts
  <2>4. PICK roots : LetGo(roots) /\ jobRoots' = roots \o left
    BY Zenon, <2>3
  <2>41. PICK is \in {"prepared", "bare"} : left = << >> \/ left = <<Copy(0, is)>>
    BY Zenon, <2>1
  <2>42. PICK stray : stray = Copy(0, is)
    OBVIOUS
  <2>43. stray \in RootRow /\ stray.exec = 0 /\ stray.blind = intake.blind
    BY Zenon, <2>42, CopyMade
  <2>5. jobRoots' = roots \/ (intake.at = "prepare" /\ jobRoots' = Append(roots, stray))
    <3>1. roots \in Seq(RootRow)
      BY <2>4 DEF LetGo
    <3>2. CASE left = << >>
      BY <2>4, <3>1, <3>2
    <3>3. CASE left = <<stray>>
      <4>1. left # << >>
        BY <3>3
      <4>2. roots \o <<stray>> = Append(roots, stray)
        BY <2>43, <3>1
      <4>. QED
        BY <2>1, <2>4, <3>3, <4>1, <4>2
    <3>. QED
      BY <2>41, <2>42, <3>2, <3>3
  <2>6. /\ RootsGrow /\ jobRoots' \in Seq(RootRow)
        /\ \A c \in 1 .. Len(jobRoots') : jobRoots'[c].exec <= Len(execs')
    <3>1. Len(execs) <= Len(execs) /\ stray.exec <= Len(execs)
      BY <1>1, <2>43
    <3>2. RootsGrow /\ \A c \in 1 .. Len(jobRoots') : jobRoots'[c].exec <= Len(execs)
      BY Zenon, <1>1, <2>4, <2>43, <2>5, <3>1, CopyComes
    <3>3. jobRoots' \in Seq(RootRow)
      BY <3>2 DEF RootsGrow
    <3>. QED
      BY Zenon, <2>3, <3>2, <3>3
  <2>7. DispatchTables'
    BY <1>1, <2>3, <2>6 DEF DispatchTables
  <2>8. Len(execs') # Len(execs) + 1 /\ Len(plans') = Len(plans) /\ rules' = rules
        /\ \A i \in 1 .. Len(plans) : plans'[i].policy = plans[i].policy
    BY <1>1, <2>3
  <2>9. DispatchLedger'
    <3>1. AddedFits /\ \A k \in Len(execs) + 1 .. Len(execs') : FALSE
      BY <1>1, <2>3, <2>8 DEF AddedFits
    <3>. QED
      BY Zenon, <2>2, <2>3, <2>6, <2>7, <2>8, <3>1, LedgerWinds
  <2>10. CopiesBounded'
    <3>1. intake'.at # "prepare"
      BY <2>3
    <3>2. CASE jobRoots' = roots
      <4>1. LetGo(jobRoots')
        BY <2>4, <3>2
      <4>. QED
        BY Zenon, <3>1, <4>1, CopiesGo
    <3>3. CASE intake.at = "prepare"
      BY Zenon, <2>4, <2>43, <2>5, <3>1, <3>3, OneMoreCopy
    <3>. QED
      BY <2>5, <3>2, <3>3
  <2>. QED
    BY <2>3, <2>9, <2>10 DEF DispatchInv
<1>3. CASE \E g \in {"none", "queued"} : DiesAuthorising(g)
  <2>1. PICK grant \in {"none", "queued"} : DiesAuthorising(grant)
    BY <1>3
  <2>2. PICK rows : rows = Append(execs, Execution(intake.plan, "reserved", grant, FALSE))
    OBVIOUS
  <2>20. PICK n \in Nat : n = Len(execs) + 1
    BY <1>1
  <2>21. PICK copy : copy = Copy(n, "prepared")
    OBVIOUS
  <2>22. copy \in RootRow /\ copy.exec = n /\ copy.blind = intake.blind
    <3>1. "prepared" \in {"prepared", "bare"}
      OBVIOUS
    <3>. QED
      BY Zenon, <2>21, <3>1, CopyMade
  <2>3. PrepareReady /\ Authorisable(intake.plan) /\ Reborn(rows, <<copy>>)
    BY Zenon, <2>1, <2>2, <2>20, <2>21 DEF DiesAuthorising
  <2>4. /\ rows \in Seq(ExecRow) /\ Len(rows) = Len(execs) + 1
        /\ \A k \in 1 .. Len(execs) : rows[k] = execs[k]
        /\ rows[Len(execs) + 1] = Execution(intake.plan, "reserved", grant, FALSE)
        /\ rows[Len(execs) + 1].grant = grant
    <3>1. "reserved" \in {"denied", "blocked", "authorized", "reserved"} /\ FALSE \in BOOLEAN
      OBVIOUS
    <3>2. Extended(rows, Execution(intake.plan, "reserved", grant, FALSE), grant)
      BY Zenon, <2>2, <2>3, <3>1, ReservedUnclaimed
    <3>. QED
      BY <3>2 DEF Extended
  <2>5. \A k \in 1 .. Len(execs) : Rests(k)
    <3>1. Len(execs) <= Len(rows)
      BY <1>1, <2>4
    <3>. QED
      BY Zenon, <2>3, <2>4, <3>1, RebornRests
  <2>6. /\ execs' \in Seq(ExecRow) /\ Len(execs') = Len(rows)
        /\ \A k \in 1 .. Len(rows) : rows[k].grant # "claimed" => execs'[k] = rows[k]
        /\ UNCHANGED <<rules, plans>>
        /\ chat' \in [turn : Nat, run : Nat, busy : BOOLEAN, sel : Nat]
        /\ brake' \in [paused : BOOLEAN, version : Nat] /\ era' \in Nat
        /\ intake'.at = "off"
        /\ IntentKept' /\ DispatchFlags'
        /\ \E roots : LetGo(roots) /\ jobRoots' = roots \o <<copy>>
    BY Zenon, <2>3, <2>4, RebornFacts
  <2>61. PICK roots : LetGo(roots) /\ jobRoots' = roots \o <<copy>>
    BY Zenon, <2>6
  <2>62. jobRoots' = Append(roots, copy)
    <3>1. roots \in Seq(RootRow)
      BY <2>61 DEF LetGo
    <3>. QED
      BY <2>22, <2>61, <3>1
  <2>7. execs'[Len(execs) + 1] = Execution(intake.plan, "reserved", grant, FALSE)
    <3>0. /\ Len(execs) \in Nat /\ Len(rows) = Len(execs) + 1
          /\ rows[Len(execs) + 1].grant = grant
      BY <1>1, <2>4
    <3>1. Len(execs) + 1 \in 1 .. Len(rows) /\ rows[Len(execs) + 1].grant # "claimed"
      BY <3>0
    <3>2. execs'[Len(execs) + 1] = rows[Len(execs) + 1]
      BY <2>6, <3>1
    <3>. QED
      BY Zenon, <2>4, <3>2
  <2>8. DispatchLedger'
    BY Zenon, <1>1, <2>20, <2>22, <2>3, <2>4, <2>5, <2>6, <2>61, <2>62, <2>7, ExecutionAdded
  <2>9. CopiesBounded'
    <3>1. intake.at = "prepare"
      BY Zenon, <2>3, ReadyFacts
    <3>2. intake'.at # "prepare"
      BY <2>6
    <3>. QED
      BY Zenon, <2>22, <2>61, <2>62, <3>1, <3>2, OneMoreCopy
  <2>. QED
    BY <2>6, <2>8, <2>9 DEF DispatchInv
<1>. QED
  BY <1>2, <1>3

(* Steps in which executions rest and copies only age.                      *)
LEMMA RestKept ==
  ASSUME DispatchInv,
         UNCHANGED <<chat, rules, plans, waiting, intake, pump, wakeAgain, slot, shut>>,
         execs' \in Seq(ExecRow), Len(execs') = Len(execs),
         \A k \in 1 .. Len(execs) : Rests(k),
         LetGo(jobRoots'),
         brake' \in [paused : BOOLEAN, version : Nat], era' \in Nat,
         brake.version <= brake'.version, brake'.version = brake.version => era' = era,
         spare' \in [DispatchEvents -> Nat]
  PROVE  DispatchInv'
<1>1. Len(execs) \in Nat /\ Len(rules) \in Nat /\ Len(plans) \in Nat
  BY Zenon, DispatchTyped, DispatchFacts
<1>2. RootsGrow /\ \A c \in 1 .. Len(jobRoots') : jobRoots'[c].exec <= Len(execs)
  BY Zenon, RootsGo
<1>21. DispatchTables'
  BY Zenon, <1>2, DispatchTyped DEF DispatchTables, RootsGrow
<1>3. /\ Len(execs') # Len(execs) + 1 /\ Len(plans') = Len(plans) /\ rules' = rules
      /\ \A i \in 1 .. Len(plans) : plans'[i].policy = plans[i].policy
      /\ \A c \in 1 .. Len(jobRoots') : jobRoots'[c].exec <= Len(execs')
  BY <1>1, <1>2
<1>4. DispatchLedger'
  <2>1. AddedFits /\ \A k \in Len(execs) + 1 .. Len(execs') : FALSE
    BY <1>1, <1>3 DEF AddedFits
  <2>. QED
    BY Zenon, <1>2, <1>21, <1>3, <2>1, LedgerWinds
<1>5. CopiesBounded'
  <2>1. intake'.at = "prepare" /\ ~ intake'.blind => Cardinality(Counted(jobRoots')) < MaxRetained
    <3>. SUFFICES ASSUME intake.at = "prepare", ~ intake.blind
                  PROVE  Cardinality(Counted(jobRoots')) < MaxRetained
      OBVIOUS
    <3>1. PICK roots : roots = jobRoots'
      OBVIOUS
    <3>2. /\ Cardinality(Counted(roots)) \in Nat /\ Cardinality(Counted(jobRoots)) \in Nat
          /\ Cardinality(Counted(roots)) <= Cardinality(Counted(jobRoots))
      BY Zenon, <3>1, CountedFewer
    <3>3. Cardinality(Counted(jobRoots)) < MaxRetained /\ MaxRetained \in Nat
      BY DispatchAssumption DEF DispatchInv, CopiesBounded
    <3>4. Cardinality(Counted(roots)) < MaxRetained
      BY <3>2, <3>3
    <3>. QED
      BY Zenon, <3>1, <3>4
  <2>. QED
    BY Zenon, <2>1, CopiesGo
<1>6. DispatchFlags'
  BY DEF DispatchInv, DispatchFlags
<1>7. IntentKept'
  <2>1. /\ DispatchLedger /\ IntentKept /\ Len(rules) <= Len(rules') /\ Len(plans) <= Len(plans')
        /\ waiting' = waiting /\ intake' = intake
    BY <1>1 DEF DispatchInv
  <2>. QED
    BY Zenon, <1>21, <1>3, <2>1, DispatchTyped, IntentStays
<1>. QED
  BY <1>4, <1>5, <1>6, <1>7 DEF DispatchInv

(* Executions rewritten in place.                                           *)
LEMMA RowsTypedExecs ==
  ASSUME DispatchInv, NEW rows, DOMAIN rows = 1 .. Len(execs),
         rows = [k \in 1 .. Len(execs) |-> rows[k]],
         \A k \in 1 .. Len(execs) : rows[k] \in ExecRow
  PROVE  rows \in Seq(ExecRow) /\ Len(rows) = Len(execs)
<1>1. Len(execs) \in Nat
  BY Zenon, DispatchTyped, DispatchFacts
<1>2. rows \in [1 .. Len(execs) -> ExecRow]
  OBVIOUS
<1>. QED
  BY <1>1, <1>2

(* A grant is claimed, refused or done with.                                *)
LEMMA GrantsKept ==
  ASSUME DispatchInv, NEW e \in DOMAIN execs, GrantClaimed(e) \/ GrantRefused(e) \/ GrantEnds(e)
  PROVE  DispatchInv'
<1>1. UNCHANGED <<chat, brake, rules, plans, waiting, intake, pump, wakeAgain, jobRoots, slot, shut, era, spare>>
  BY DEF GrantClaimed, GrantRefused, GrantEnds, userVars, serviceVars
<1>2. /\ execs \in Seq(ExecRow) /\ Len(execs) \in Nat /\ e \in 1 .. Len(execs)
      /\ brake.version <= brake.version
  BY DispatchTyped, DispatchFacts DEF DispatchTables
<1>3. PICK grant \in {"claimed", "revoked", "over"} :
        /\ execs' = [execs EXCEPT ![e].grant = grant]
        /\ grant = "claimed" => /\ execs[e].grant = "queued" /\ execs[e].linked
                                /\ rules[execs[e].policy] = "active"
        /\ grant = "revoked" => execs[e].grant = "queued"
        /\ grant = "over" => execs[e].grant = "claimed"
  BY DEF GrantClaimed, GrantRefused, GrantEnds, FreshGrant
<1>4. PICK row \in ExecRow : row = execs[e]
  BY <1>2
<1>5. PICK new : new = [row EXCEPT !.grant = grant]
  OBVIOUS
<1>6. /\ new \in ExecRow /\ new.grant = grant /\ new.plan = row.plan /\ new.policy = row.policy
      /\ new.status = row.status /\ new.linked = row.linked /\ new.stop = row.stop
      /\ new.today = row.today /\ new.asked = row.asked /\ new.given = row.given
  BY <1>4, <1>5 DEF ExecRow, GrantStatus
<1>7. execs' = [execs EXCEPT ![e] = new]
  BY <1>2, <1>3, <1>4, <1>5
<1>8. execs' \in Seq(ExecRow) /\ Len(execs') = Len(execs) /\ execs'[e] = new
      /\ \A k \in 1 .. Len(execs) : k # e => execs'[k] = execs[k]
  BY <1>2, <1>6, <1>7
<1>9. ASSUME NEW k \in 1 .. Len(execs) PROVE Rests(k)
  <2>1. CASE k = e
    <3>1. execs'[k] = new /\ execs[k] = row
      BY <1>4, <1>8, <2>1
    <3>2. grant = "claimed" => ~ Ended(row.policy)
      BY <1>3, <1>4 DEF Ended
    <3>3. SameExec(k)
      BY <1>6, <3>1 DEF SameExec
    <3>4. WindsDown(k)
      BY <1>3, <1>4, <1>6, <3>1 DEF WindsDown
    <3>. QED
      BY <1>3, <1>4, <1>6, <3>1, <3>2, <3>3, <3>4 DEF Rests
  <2>2. CASE k # e
    BY <1>8, <2>2 DEF Rests, SameExec, WindsDown
  <2>. QED
    BY <2>1, <2>2
<1>10. spare' \in [DispatchEvents -> Nat]
  BY <1>1 DEF DispatchInv, DispatchFlags
<1>. QED
  BY Zenon, <1>1, <1>2, <1>8, <1>9, <1>10, DispatchTyped, RootsStill, RestKept

(* The control is set; a pause asks what is claimed to stop.                *)
LEMMA BrakeKept ==
  ASSUME DispatchInv, NEW paused \in BOOLEAN, SetBrake(paused)
  PROVE  DispatchInv'
<1>1. /\ UNCHANGED <<chat, rules, plans, waiting, intake, pump, wakeAgain, jobRoots, slot, shut>>
      /\ brake' = [paused |-> paused, version |-> brake.version + 1] /\ era' = era + 1
  BY DEF SetBrake, serviceVars
<1>2. /\ execs \in Seq(ExecRow) /\ Len(execs) \in Nat /\ DOMAIN execs = 1 .. Len(execs)
      /\ brake.version \in Nat /\ era \in Nat
  BY Zenon, DispatchTyped, DispatchFacts DEF DispatchTables
<1>3. execs' = [e \in 1 .. Len(execs) |->
                  IF paused /\ execs[e].grant = "claimed"
                    THEN [execs[e] EXCEPT !.grant = "stopped", !.stop = TRUE] ELSE execs[e]]
  BY <1>2 DEF SetBrake
<1>4. ASSUME NEW k \in 1 .. Len(execs) PROVE execs'[k] \in ExecRow /\ Rests(k)
  <2>1. PICK row \in ExecRow : row = execs[k]
    BY <1>2
  <2>2. execs'[k] = IF paused /\ row.grant = "claimed"
                      THEN [row EXCEPT !.grant = "stopped", !.stop = TRUE] ELSE row
    BY <1>3, <2>1
  <2>. QED
    <3>1. CASE paused /\ row.grant = "claimed"
      <4>1. execs'[k] = [row EXCEPT !.grant = "stopped", !.stop = TRUE]
        BY Zenon, <2>2, <3>1
      <4>. QED
        BY <2>1, <3>1, <4>1 DEF Rests, SameExec, WindsDown, ExecRow, GrantStatus
    <3>2. CASE ~ (paused /\ row.grant = "claimed")
      <4>1. execs'[k] = row
        BY Zenon, <2>2, <3>2
      <4>. QED
        BY Zenon, <2>1, <4>1 DEF Rests, SameExec, WindsDown
    <3>. QED
      BY Zenon, <3>1, <3>2
<1>5. execs' \in Seq(ExecRow) /\ Len(execs') = Len(execs)
  <2>1. PICK rows : rows = execs'
    OBVIOUS
  <2>2. DOMAIN rows = 1 .. Len(execs) /\ rows = [k \in 1 .. Len(execs) |-> rows[k]]
    BY <1>3, <2>1
  <2>. QED
    BY Zenon, <1>4, <2>1, <2>2, RowsTypedExecs
<1>6. spare' \in [DispatchEvents -> Nat]
  BY Zenon, UsesTyped DEF SetBrake, DispatchEvents
<1>7. /\ brake' \in [paused : BOOLEAN, version : Nat] /\ era' \in Nat
      /\ brake'.version = brake.version + 1
  BY <1>1, <1>2
<1>8. brake.version <= brake'.version /\ brake'.version # brake.version
  BY <1>2, <1>7
<1>. QED
  BY Zenon, <1>1, <1>4, <1>5, <1>6, <1>7, <1>8, RootsStill, RestKept

(* Days and weeks pass.                                                     *)
LEMMA DaysKept ==
  ASSUME DispatchInv, DayPasses \/ WeekPasses
  PROVE  DispatchInv'
<1>1. /\ UNCHANGED <<chat, brake, rules, plans, waiting, intake, pump, wakeAgain, slot, shut, era>>
  BY DEF DayPasses, WeekPasses, userVars, ledgerVars, serviceVars
<1>2. /\ execs \in Seq(ExecRow) /\ Len(execs) \in Nat /\ DOMAIN execs = 1 .. Len(execs)
      /\ jobRoots \in Seq(RootRow) /\ Len(jobRoots) \in Nat /\ DOMAIN jobRoots = 1 .. Len(jobRoots)
      /\ brake.version <= brake.version
  BY DispatchTyped, DispatchFacts DEF DispatchTables
<1>3. spare' \in [DispatchEvents -> Nat]
  BY Zenon, UsesTyped DEF DayPasses, WeekPasses, DispatchEvents
<1>4. CASE DayPasses
  <2>1. jobRoots' = jobRoots /\ execs' = [e \in 1 .. Len(execs) |-> [execs[e] EXCEPT !.today = FALSE]]
    BY <1>2, <1>4 DEF DayPasses
  <2>2. ASSUME NEW k \in 1 .. Len(execs) PROVE execs'[k] \in ExecRow /\ Rests(k)
    <3>1. PICK row \in ExecRow : row = execs[k]
      BY <1>2
    <3>2. execs'[k] = [row EXCEPT !.today = FALSE]
      BY <2>1, <3>1
    <3>. QED
      BY <3>1, <3>2 DEF Rests, SameExec, WindsDown, ExecRow
  <2>3. execs' \in Seq(ExecRow) /\ Len(execs') = Len(execs)
    <3>1. PICK rows : rows = execs'
      OBVIOUS
    <3>2. DOMAIN rows = 1 .. Len(execs) /\ rows = [k \in 1 .. Len(execs) |-> rows[k]]
      BY <2>1, <3>1
    <3>. QED
      BY Zenon, <2>2, <3>1, <3>2, RowsTypedExecs
  <2>. QED
    BY Zenon, <1>1, <1>2, <1>3, <2>1, <2>2, <2>3, DispatchTyped, RootsStill, RestKept
<1>5. CASE WeekPasses
  <2>1. /\ execs' = execs
        /\ jobRoots' = [c \in 1 .. Len(jobRoots) |-> [jobRoots[c] EXCEPT !.old = TRUE]]
    BY <1>2, <1>5 DEF WeekPasses, ledgerVars
  <2>2. ASSUME NEW c \in 1 .. Len(jobRoots) PROVE GoesOn(c, jobRoots'[c])
    <3>1. PICK row \in RootRow : row = jobRoots[c]
      BY <1>2
    <3>2. jobRoots'[c] = [row EXCEPT !.old = TRUE]
      BY <2>1, <3>1
    <3>. QED
      BY <3>1, <3>2 DEF RootRow, GoesOn
  <2>3. LetGo(jobRoots')
    <3>1. PICK roots : roots = jobRoots'
      OBVIOUS
    <3>2. roots = [c \in 1 .. Len(jobRoots) |-> roots[c]]
      BY <2>1, <3>1
    <3>. QED
      BY Zenon, <2>2, <3>1, <3>2, RowsLetGo
  <2>4. \A k \in 1 .. Len(execs) : Rests(k)
    BY <2>1 DEF Rests, SameExec, WindsDown
  <2>. QED
    BY Zenon, <1>1, <1>2, <1>3, <2>1, <2>3, <2>4, DispatchTyped, RestKept
<1>. QED
  BY <1>4, <1>5

(* What a retirement does to one execution.                                 *)
AsRetired(row, new) ==
  /\ new \in ExecRow /\ new.plan = row.plan /\ new.policy = row.policy
  /\ new.linked = row.linked /\ new.asked = row.asked /\ new.given = row.given
  /\ new.today = row.today
  /\ new.status # "reserved"
  /\ row.status # "reserved" => new.status = row.status
  /\ row.status = "reserved" => new.status = "superseded"
  /\ row.grant = "queued" /\ row.linked => new.grant = "revoked"
  /\ ~ (row.grant = "queued" /\ row.linked) => new.grant = row.grant
  /\ row.grant = "claimed" /\ row.linked => new.stop

LEMMA RetiredRow ==
  ASSUME NEW row \in ExecRow, NEW new,
         new = [row EXCEPT !.status = IF @ = "reserved" THEN "superseded" ELSE @,
                           !.grant = IF @ = "queued" /\ row.linked THEN "revoked" ELSE @,
                           !.stop = @ \/ (row.grant = "claimed" /\ row.linked)]
  PROVE  AsRetired(row, new)
<1>1. PICK st : st = IF row.status = "reserved" THEN "superseded" ELSE row.status
  OBVIOUS
<1>2. PICK g : g = IF row.grant = "queued" /\ row.linked THEN "revoked" ELSE row.grant
  OBVIOUS
<1>3. PICK sp \in BOOLEAN : sp = (row.stop \/ (row.grant = "claimed" /\ row.linked))
  OBVIOUS
<1>4. new = [row EXCEPT !.status = st, !.grant = g, !.stop = sp]
  BY Zenon, <1>1, <1>2, <1>3
<1>5. st \in ExecStatus /\ g \in GrantStatus
  BY <1>1, <1>2 DEF ExecRow, ExecStatus, GrantStatus
<1>6. /\ new \in ExecRow /\ new.plan = row.plan /\ new.policy = row.policy
      /\ new.linked = row.linked /\ new.asked = row.asked /\ new.given = row.given
      /\ new.today = row.today /\ new.status = st /\ new.grant = g /\ new.stop = sp
  BY <1>4, <1>5 DEF ExecRow
<1>7. /\ st # "reserved"
      /\ row.status # "reserved" => st = row.status
      /\ row.status = "reserved" => st = "superseded"
  BY <1>1
<1>8. /\ row.grant = "queued" /\ row.linked => g = "revoked"
      /\ ~ (row.grant = "queued" /\ row.linked) => g = row.grant
  BY Zenon, <1>2
<1>9. row.grant = "claimed" /\ row.linked => sp
  BY Zenon, <1>3
<1>. QED
  BY Zenon, <1>6, <1>7, <1>8, <1>9 DEF AsRetired

(* What becomes of a grant and of its status where its policy is retired.   *)
LEMMA RetiredGrant ==
  ASSUME NEW g, NEW g2, NEW st, NEW st2, NEW l \in BOOLEAN, NEW sp \in BOOLEAN,
         NEW c \in BOOLEAN,
         g = "queued" /\ l => g2 = "revoked",
         ~ (g = "queued" /\ l) => g2 = g,
         g = "claimed" /\ l => sp,
         st # "reserved" => st2 = st,
         st = "reserved" => st2 = "superseded",
         g \in {"claimed", "stopped"} => l,
         st = "denied" => g = "none",
         l /\ g \in {"queued", "claimed", "stopped"} => c
  PROVE  /\ g2 \in {"claimed", "stopped"} => l
         /\ st2 = "denied" => g2 = "none"
         /\ l => g2 # "queued"
         /\ g2 = "claimed" => sp
         /\ l /\ g2 \in {"queued", "claimed", "stopped"} => c
OBVIOUS

(* Policies come to their end, and what is of them with them.               *)
LEMMA LedgerRetired ==
  ASSUME DispatchInv, NEW ps, Retire(ps), UNCHANGED <<chat, brake, jobRoots, era>>,
         rules' \in Seq(RuleStatus), Len(rules') = Len(rules),
         \A p \in 1 .. Len(rules) : Ended(p)' <=> (p \in ps \/ Ended(p))
  PROVE  /\ DispatchLedger' /\ Len(plans') = Len(plans)
         /\ \A i \in 1 .. Len(plans) : plans'[i].policy = plans[i].policy
<1>1. /\ DispatchLedger /\ execs \in Seq(ExecRow) /\ plans \in Seq(PlanRow)
      /\ Len(execs) \in Nat /\ DOMAIN execs = 1 .. Len(execs)
      /\ Len(plans) \in Nat /\ DOMAIN plans = 1 .. Len(plans) /\ Len(rules) \in Nat
  BY Zenon, DispatchTyped, DispatchFacts DEF DispatchTables
<1>2. plans' = [i \in 1 .. Len(plans) |->
                  IF plans[i].policy \in ps /\ plans[i].status # "dispatched"
                    THEN [plans[i] EXCEPT !.status = "superseded"] ELSE plans[i]]
  BY <1>1 DEF Retire
<1>3. ASSUME NEW i \in 1 .. Len(plans)
      PROVE  plans'[i] \in PlanRow /\ plans'[i].policy = plans[i].policy
  <2>1. PICK row \in PlanRow : row = plans[i]
    BY <1>1
  <2>2. plans'[i] = row \/ plans'[i] = [row EXCEPT !.status = "superseded"]
    BY <1>2, <2>1
  <2>. QED
    BY <2>1, <2>2 DEF PlanRow
<1>4. plans' \in Seq(PlanRow) /\ Len(plans') = Len(plans)
  <2>1. PICK rows : rows = plans'
    OBVIOUS
  <2>2. DOMAIN rows = 1 .. Len(plans) /\ rows = [k \in 1 .. Len(plans) |-> rows[k]]
    BY <1>2, <2>1
  <2>3. rows \in [1 .. Len(plans) -> PlanRow]
    BY <1>3, <2>1, <2>2
  <2>4. rows \in Seq(PlanRow) /\ Len(rows) = Len(plans)
    BY <1>1, <2>2, <2>3
  <2>. QED
    BY <2>1, <2>4
<1>5. execs' = [e \in 1 .. Len(execs) |->
                  IF execs[e].policy \in ps
                    THEN [execs[e] EXCEPT
                            !.status = IF @ = "reserved" THEN "superseded" ELSE @,
                            !.grant = IF @ = "queued" /\ execs[e].linked THEN "revoked" ELSE @,
                            !.stop = @ \/ (execs[e].grant = "claimed" /\ execs[e].linked)]
                    ELSE execs[e]]
  BY Zenon, <1>1 DEF Retire
<1>6. ASSUME NEW k \in 1 .. Len(execs)
      PROVE  execs'[k] \in ExecRow /\ SameExec(k) /\ WindsDown(k) /\ ExecSound(k)'
  <2>1. PICK row \in ExecRow : row = execs[k]
    BY <1>1
  <2>2. ExecSound(k) /\ row.policy \in 1 .. Len(rules)
    BY <1>1, <2>1 DEF DispatchLedger, References
  <2>3. PICK p \in 1 .. Len(rules) : p = row.policy
    BY <2>2
  <2>4. Ended(p)' <=> (p \in ps \/ Ended(p))
    OBVIOUS
  <2>5. Copied(k)' <=> Copied(k)
    BY DEF Copied
  <2>6. CASE p \in ps
    <3>1. PICK new : new = execs'[k]
      OBVIOUS
    <3>2. new = [row EXCEPT !.status = IF @ = "reserved" THEN "superseded" ELSE @,
                            !.grant = IF @ = "queued" /\ row.linked THEN "revoked" ELSE @,
                            !.stop = @ \/ (row.grant = "claimed" /\ row.linked)]
      BY Zenon, <1>5, <2>1, <2>3, <2>6, <3>1
    <3>3. /\ new \in ExecRow /\ new.plan = row.plan /\ new.policy = row.policy
          /\ new.linked = row.linked /\ new.asked = row.asked /\ new.given = row.given
          /\ new.today = row.today
          /\ new.status # "reserved"
          /\ row.status # "reserved" => new.status = row.status
          /\ row.status = "reserved" => new.status = "superseded"
          /\ row.grant = "queued" /\ row.linked => new.grant = "revoked"
          /\ ~ (row.grant = "queued" /\ row.linked) => new.grant = row.grant
          /\ row.grant = "claimed" /\ row.linked => new.stop
      <4>1. AsRetired(row, new)
        BY Zenon, <3>2, RetiredRow
      <4>. QED
        BY <4>1 DEF AsRetired
    <3>4. /\ row.asked = row.given
          /\ row.grant \in {"claimed", "stopped"} => row.linked
          /\ row.status = "denied" => row.grant = "none"
          /\ row.linked /\ row.grant \in {"queued", "claimed", "stopped"} => Copied(k)
      BY <2>1, <2>2 DEF ExecSound
    <3>5. Ended(new.policy)'
      BY <2>3, <2>4, <2>6, <3>3 DEF Ended
    <3>6. SameExec(k)
      BY <2>1, <3>1, <3>3 DEF SameExec
    <3>7. WindsDown(k)
      BY <2>1, <3>1, <3>3 DEF WindsDown
    <3>8. /\ new.grant \in {"claimed", "stopped"} => new.linked
          /\ new.status = "denied" => new.grant = "none"
          /\ new.linked => new.grant # "queued"
          /\ new.grant = "claimed" => new.stop
          /\ new.linked /\ new.grant \in {"queued", "claimed", "stopped"} => Copied(k)
          /\ new.asked = new.given
      <4>1. PICK c \in BOOLEAN : c = Copied(k)
        BY DEF Copied
      <4>2. PICK l \in BOOLEAN : l = row.linked
        BY DEF ExecRow
      <4>3. PICK sp \in BOOLEAN : sp = new.stop
        BY <3>3 DEF ExecRow
      <4>4. AsRetired(row, new)
        BY Zenon, <3>2, RetiredRow
      <4>5. PICK g, g2, st, st2 :
               g = row.grant /\ g2 = new.grant /\ st = row.status /\ st2 = new.status
        OBVIOUS
      <4>6. /\ g = "queued" /\ l => g2 = "revoked"
            /\ ~ (g = "queued" /\ l) => g2 = g
            /\ g = "claimed" /\ l => sp
        BY Zenon, <4>2, <4>3, <4>4, <4>5 DEF AsRetired
      <4>7. /\ st # "reserved" => st2 = st
            /\ st = "reserved" => st2 = "superseded"
        BY Zenon, <4>4, <4>5 DEF AsRetired
      <4>8. /\ g \in {"claimed", "stopped"} => l
            /\ st = "denied" => g = "none"
            /\ l /\ g \in {"queued", "claimed", "stopped"} => c
        BY Zenon, <2>1, <2>2, <4>1, <4>2, <4>5 DEF ExecSound
      <4>9. /\ g2 \in {"claimed", "stopped"} => l
            /\ st2 = "denied" => g2 = "none"
            /\ l => g2 # "queued"
            /\ g2 = "claimed" => sp
            /\ l /\ g2 \in {"queued", "claimed", "stopped"} => c
        BY Zenon, <4>6, <4>7, <4>8, RetiredGrant
      <4>10. new.linked = row.linked /\ new.asked = new.given
        BY <3>3, <3>4
      <4>. QED
        BY Zenon, <4>1, <4>2, <4>3, <4>5, <4>9, <4>10
    <3>9. ExecSound(k)'
      BY <2>5, <3>1, <3>3, <3>5, <3>8 DEF ExecSound
    <3>. QED
      BY <3>1, <3>3, <3>6, <3>7, <3>9
  <2>7. CASE p \notin ps
    <3>1. execs'[k] = row
      BY Zenon, <1>5, <2>1, <2>3, <2>7
    <3>2. Ended(row.policy)' <=> Ended(row.policy)
      BY <2>3, <2>4, <2>7 DEF Ended
    <3>3. ExecSound(k)'
      BY <2>1, <2>2, <2>5, <3>1, <3>2 DEF ExecSound
    <3>. QED
      BY <2>1, <3>1, <3>3 DEF SameExec, WindsDown
  <2>. QED
    BY <2>6, <2>7
<1>7. execs' \in Seq(ExecRow) /\ Len(execs') = Len(execs)
  <2>1. PICK rows : rows = execs'
    OBVIOUS
  <2>2. DOMAIN rows = 1 .. Len(execs) /\ rows = [k \in 1 .. Len(execs) |-> rows[k]]
    BY Zenon, <1>5, <2>1
  <2>. QED
    BY Zenon, <1>6, <2>1, <2>2, RowsTypedExecs
<1>8. DispatchTables'
  BY Zenon, <1>4, <1>7, DispatchTyped DEF DispatchTables
<1>9. /\ Len(rules) <= Len(rules') /\ Len(plans) <= Len(plans')
      /\ \A i \in 1 .. Len(plans') : plans'[i].policy \in 1 .. Len(rules')
      /\ Len(execs') # Len(execs) + 1
      /\ \A k \in 1 .. Len(execs') : ExecSound(k)'
      /\ \A c \in 1 .. Len(jobRoots') : jobRoots'[c].exec <= Len(execs')
  <2>1. \A i \in 1 .. Len(plans') : plans'[i].policy \in 1 .. Len(rules')
    BY <1>1, <1>3, <1>4 DEF DispatchLedger, References
  <2>2. \A k \in 1 .. Len(execs') : ExecSound(k)'
    BY <1>6, <1>7
  <2>3. \A c \in 1 .. Len(jobRoots') : jobRoots'[c].exec <= Len(execs')
    BY <1>1, <1>7 DEF DispatchLedger, References
  <2>4. Len(execs) \in Nat /\ Len(plans) \in Nat /\ Len(rules) \in Nat
    BY <1>1
  <2>. QED
    BY <1>4, <1>7, <2>1, <2>2, <2>3, <2>4
<1>10. AddedFits
  BY <1>9 DEF AddedFits
<1>11. DispatchLedger'
  BY Zenon, <1>1, <1>6, <1>7, <1>8, <1>9, <1>10, LedgerKept
<1>. QED
  BY <1>3, <1>4, <1>11

(* A policy is revoked or found expired, or all in force are stopped.       *)
LEMMA EndsKept ==
  ASSUME DispatchInv, StopDispatch \/ \E p \in DOMAIN rules : RevokePolicy(p) \/ ExpiryRead(p)
  PROVE  DispatchInv'
<1>1. UNCHANGED <<chat, brake, pump, jobRoots, slot, shut, era>>
  BY DEF StopDispatch, RevokePolicy, ExpiryRead, userVars, serviceVars
<1>2. spare' \in [DispatchEvents -> Nat]
  <2>1. CASE spare' = spare
    BY <2>1 DEF DispatchInv, DispatchFlags
  <2>2. CASE Uses("ends")
    BY Zenon, <2>2, UsesTyped DEF DispatchEvents
  <2>. QED
    BY <2>1, <2>2 DEF StopDispatch, RevokePolicy, ExpiryRead
<1>3. rules \in Seq(RuleStatus) /\ Len(rules) \in Nat /\ DOMAIN rules = 1 .. Len(rules)
      /\ Len(plans) \in Nat
  BY Zenon, DispatchTyped, DispatchFacts
<1>4. PICK ps : /\ Retire(ps)
                /\ rules' \in Seq(RuleStatus) /\ Len(rules') = Len(rules)
                /\ \A p \in 1 .. Len(rules) : Ended(p)' <=> (p \in ps \/ Ended(p))
  <2>1. CASE StopDispatch
    <3>1. Retire(InForce)
      BY <2>1 DEF StopDispatch
    <3>2. rules' = [p \in 1 .. Len(rules) |-> IF p \in InForce THEN "revoked" ELSE rules[p]]
      BY <1>3, <2>1 DEF StopDispatch
    <3>3. \A p \in 1 .. Len(rules) : rules'[p] \in RuleStatus
      BY <1>3, <3>2 DEF RuleStatus
    <3>4. rules' \in Seq(RuleStatus) /\ Len(rules') = Len(rules)
      <4>1. PICK rows : rows = rules'
        OBVIOUS
      <4>2. DOMAIN rows = 1 .. Len(rules) /\ rows = [k \in 1 .. Len(rules) |-> rows[k]]
        BY <3>2, <4>1
      <4>3. rows \in [1 .. Len(rules) -> RuleStatus]
        BY <3>3, <4>1, <4>2
      <4>4. rows \in Seq(RuleStatus) /\ Len(rows) = Len(rules)
        BY <1>3, <4>2, <4>3
      <4>. QED
        BY <4>1, <4>4
    <3>5. \A p \in 1 .. Len(rules) : Ended(p)' <=> (p \in InForce \/ Ended(p))
      BY <3>2 DEF Ended
    <3>. QED
      BY <3>1, <3>4, <3>5
  <2>2. CASE \E p \in DOMAIN rules : RevokePolicy(p) \/ ExpiryRead(p)
    <3>1. PICK p \in 1 .. Len(rules), end \in {"revoked", "expired"} :
            Retire({p}) /\ rules' = [rules EXCEPT ![p] = end]
      BY <1>3, <2>2 DEF RevokePolicy, ExpiryRead
    <3>2. end \in RuleStatus
      BY DEF RuleStatus
    <3>3. rules' \in Seq(RuleStatus) /\ Len(rules') = Len(rules)
      BY <1>3, <3>1, <3>2
    <3>4. \A q \in 1 .. Len(rules) : Ended(q)' <=> (q \in {p} \/ Ended(q))
      BY <1>3, <3>1 DEF Ended
    <3>. QED
      BY <3>1, <3>3, <3>4
  <2>. QED
    BY <2>1, <2>2
<1>5. /\ DispatchLedger' /\ Len(plans') = Len(plans)
      /\ \A i \in 1 .. Len(plans) : plans'[i].policy = plans[i].policy
  BY Zenon, <1>1, <1>4, LedgerRetired
<1>6. /\ waiting' \in Seq(Intakes)
      /\ \A i \in 1 .. Len(waiting') : \E j \in 1 .. Len(waiting) : waiting'[i] = waiting[j]
      /\ intake' \in IntakeRecord
      /\ intake'.at = intake.at /\ intake'.of = intake.of /\ intake'.plan = intake.plan
      /\ intake'.blind = intake.blind
      /\ intake.cut => intake'.cut
      /\ wakeAgain' \in BOOLEAN
  <2>1. CASE DropIntent
    <3>1. wakeAgain' \in BOOLEAN
      BY Zenon, <2>1, DropsIntent
    <3>. QED
      BY <2>1, <3>1, DropsIntent
  <2>2. CASE UNCHANGED <<waiting, intake, wakeAgain>>
    BY Zenon, <2>2, DispatchTyped DEF DispatchInv, DispatchFlags
  <2>. QED
    BY <2>1, <2>2 DEF StopDispatch, RevokePolicy, ExpiryRead, serviceVars
<1>7. DispatchFlags'
  BY <1>1, <1>2, <1>6 DEF DispatchInv, DispatchFlags
<1>8. CopiesBounded'
  BY Zenon, <1>1, <1>6, CopiesStay DEF DispatchInv
<1>9. IntentKept'
  <2>1. /\ DispatchLedger /\ IntentKept /\ DispatchTables' /\ Len(rules) <= Len(rules')
        /\ Len(plans) <= Len(plans') /\ brake.version <= brake'.version /\ era' = era
    BY <1>1, <1>3, <1>4, <1>5, DispatchTyped DEF DispatchInv, DispatchLedger
  <2>. QED
    BY Zenon, <1>5, <1>6, <2>1, IntentStays
<1>. QED
  BY <1>5, <1>7, <1>8, <1>9 DEF DispatchInv

LEMMA DispatchStands ==
  ASSUME DispatchInv, UNCHANGED dispatchVars
  PROVE  DispatchInv'
<1>1. UNCHANGED <<chat, brake, rules, plans, execs, jobRoots, waiting, intake, pump, wakeAgain,
                  slot, shut, era, spare>>
  BY DEF dispatchVars, userVars, ledgerVars, serviceVars
<1>2. DispatchFlags'
  BY <1>1 DEF DispatchInv, DispatchFlags
<1>3. /\ \A p \in 1 .. Len(rules) : Ended(p)' <=> Ended(p)
      /\ intake' = intake /\ waiting' = waiting /\ brake' = brake /\ era' = era
      /\ rules' = rules /\ chat' = chat /\ UNCHANGED <<plans, execs, jobRoots>>
  BY <1>1 DEF Ended
<1>4. Len(rules) <= Len(rules) /\ brake.version <= brake.version
  BY DispatchTyped
<1>. QED
  BY Zenon, <1>2, <1>3, <1>4, DispatchTyped, DispatchStays

LEMMA DispatchStarts ==
  ASSUME DispatchInit
  PROVE  DispatchInv
<1>1. /\ chat = [turn |-> 0, run |-> 0, busy |-> FALSE, sel |-> 0]
      /\ brake = [paused |-> FALSE, version |-> 1]
      /\ rules = <<"active">> /\ plans = << >> /\ execs = << >> /\ jobRoots = << >>
      /\ waiting = << >> /\ intake = NoIntake /\ pump = "off" /\ wakeAgain = FALSE
      /\ slot = "free" /\ shut = FALSE /\ era = 0 /\ spare \in DispatchLoads
  BY DEF DispatchInit
<1>2. /\ Len(plans) = 0 /\ Len(execs) = 0 /\ Len(jobRoots) = 0 /\ Len(waiting) = 0
      /\ DOMAIN execs = {} /\ DOMAIN jobRoots = {} /\ Len(rules) = 1
      /\ plans \in Seq(PlanRow) /\ execs \in Seq(ExecRow) /\ jobRoots \in Seq(RootRow)
      /\ waiting \in Seq(Intakes)
  BY <1>1
<1>3. rules \in Seq(RuleStatus)
  BY <1>1 DEF RuleStatus
<1>4. DispatchTables
  BY <1>1, <1>2, <1>3 DEF DispatchTables
<1>5. References /\ \A e \in 1 .. Len(execs) : ExecSound(e)
  BY <1>2 DEF References
<1>6. CapsKept
  <2>1. \A p : SpentToday(p) = {} /\ Load(p) = {}
    BY <1>2 DEF SpentToday, Spent, Load
  <2>2. \A p : Cardinality(SpentToday(p)) = 0 /\ Cardinality(Load(p)) = 0
    BY Zenon, <2>1, FS_EmptySet
  <2>3. JobsPerDay \in Nat /\ Concurrent \in Nat
    BY DispatchAssumption
  <2>. QED
    BY <2>2, <2>3 DEF CapsKept
<1>7. intake \in IntakeRecord /\ intake.at = "off" /\ intake.plan = 0
  BY Zenon, <1>1, NoIntakeTyped
<1>8. IntentKept
  BY <1>2, <1>7 DEF IntentKept, WaitingCaptured, HandCaptured
<1>9. CopiesBounded
  <2>1. Counted(jobRoots) = {}
    BY <1>2 DEF Counted, Retained
  <2>. QED
    BY <1>7, <2>1, FS_EmptySet, DispatchAssumption DEF CopiesBounded
<1>10. DispatchFlags
  BY <1>1, DispatchAssumption DEF DispatchFlags
<1>. QED
  BY <1>4, <1>5, <1>6, <1>8, <1>9, <1>10 DEF DispatchInv, DispatchLedger

LEMMA DispatchStep ==
  ASSUME DispatchInv, [DispatchNext]_dispatchVars
  PROVE  DispatchInv'
<1>1. CASE UNCHANGED dispatchVars
  BY Zenon, <1>1, DispatchStands
<1>2. CASE OwnerActs
  <2>1. CASE PostIntent \/ PostRetryIntent \/ TurnFails \/ TurnCancelled
    BY Zenon, <2>1, TalkKept
  <2>2. CASE \E paused \in BOOLEAN : SetBrake(paused)
    BY Zenon, <2>2, BrakeKept
  <2>3. CASE CreatePolicy \/ \E p \in DOMAIN rules : PolicyLapses(p)
    BY Zenon, <2>3, PoliciesKept
  <2>4. CASE StopDispatch \/ \E p \in DOMAIN rules : RevokePolicy(p)
    BY Zenon, <2>4, EndsKept
  <2>5. CASE \E p \in DOMAIN rules : \E s \in {"frozen", "open"} : PlanPosted(p, s)
    BY Zenon, <2>5, PostedKept
  <2>6. CASE OtherTakesSlot
    BY Zenon, <2>6, SlotKept
  <2>7. CASE DayPasses \/ WeekPasses
    BY Zenon, <2>7, DaysKept
  <2>. QED
    BY <1>2, <2>1, <2>2, <2>3, <2>4, <2>5, <2>6, <2>7 DEF OwnerActs
<1>3. CASE ServiceActs
  <2>1. CASE DrainDrops \/ DrainReturns \/ DrainSettles
    BY Zenon, <2>1, DrainKept
  <2>2. CASE DrainAdmits
    BY Zenon, <2>2, AdmitKept
  <2>3. CASE PlannerStops \/ PrepareStops
    BY Zenon, <2>3, IntakeStopsKept
  <2>4. CASE \E p \in DOMAIN rules : ExpiryRead(p)
    BY Zenon, <2>4, EndsKept
  <2>. QED
    BY <1>3, <2>1, <2>2, <2>3, <2>4 DEF ServiceActs
<1>4. CASE TurnCompletes
  BY Zenon, <1>4, CompleteKept
<1>5. CASE OtherFreesSlot
  BY Zenon, <1>5, SlotKept
<1>6. CASE PlannerReturns
  BY Zenon, <1>6, PlannerKept
<1>7. CASE AuthoriseDenies \/ AuthoriseGrants \/ \E g \in {"none", "queued"} : AuthoriseThrows(g)
  BY Zenon, <1>7, AuthoriseKept
<1>8. CASE \E e \in DOMAIN execs : GrantClaimed(e) \/ GrantRefused(e) \/ GrantEnds(e)
  BY Zenon, <1>8, GrantsKept
<1>9. CASE ServerDies \/ \E g \in {"none", "queued"} : DiesAuthorising(g)
  BY Zenon, <1>9, DispatchDeathKept
<1>10. CASE StopService
  BY Zenon, <1>10, StopServiceKept
<1>. QED
  BY <1>1, <1>2, <1>3, <1>4, <1>5, <1>6, <1>7, <1>8, <1>9, <1>10 DEF DispatchNext

(* Rows that are each of a set are a sequence over it.                      *)
LEMMA RowsAreOf ==
  ASSUME NEW S, NEW R, NEW rows \in Seq(S), \A i \in 1 .. Len(rows) : rows[i] \in R
  PROVE  rows \in Seq(R)
<1>1. Len(rows) \in Nat /\ rows \in [1 .. Len(rows) -> S]
  OBVIOUS
<1>2. rows \in [1 .. Len(rows) -> R]
  BY <1>1
<1>. QED
  BY <1>1, <1>2

LEMMA DispatchInvTyped ==
  ASSUME DispatchInv
  PROVE  DispatchTypeOK
<1>1. /\ DispatchLedger /\ DispatchTables /\ References /\ IntentKept /\ DispatchFlags
      /\ Len(rules) \in Nat /\ DOMAIN rules = 1 .. Len(rules)
      /\ Len(plans) \in Nat /\ DOMAIN plans = 1 .. Len(plans)
      /\ Len(execs) \in Nat /\ DOMAIN execs = 1 .. Len(execs)
      /\ Len(jobRoots) \in Nat /\ DOMAIN jobRoots = 1 .. Len(jobRoots)
  BY Zenon, DispatchFacts DEF DispatchInv, DispatchLedger
<1>2. rules \in Seq({"active", "lapsed", "expired", "revoked"})
  BY <1>1 DEF DispatchTables, RuleStatus
<1>3. plans \in Seq([policy : DOMAIN rules, turn : Nat, run : Nat,
                     status : {"frozen", "open", "superseded", "dispatched", "blocked"}])
  <2>. DEFINE R == [policy : DOMAIN rules, turn : Nat, run : Nat,
                    status : {"frozen", "open", "superseded", "dispatched", "blocked"}]
  <2>1. \A i \in 1 .. Len(plans) : plans[i] \in R
    <3>. SUFFICES ASSUME NEW i \in 1 .. Len(plans) PROVE plans[i] \in R
      OBVIOUS
    <3>1. PICK row \in PlanRow : row = plans[i]
      BY <1>1 DEF DispatchTables
    <3>2. row.policy \in DOMAIN rules
      BY <1>1, <3>1 DEF References
    <3>. QED
      BY <3>1, <3>2 DEF PlanRow
  <2>2. plans \in Seq(PlanRow)
    BY <1>1 DEF DispatchTables
  <2>. QED
    BY Zenon, <2>1, <2>2, RowsAreOf
<1>4. execs \in Seq([plan : DOMAIN plans, policy : DOMAIN rules,
                     status : {"reserved", "authorized", "denied", "blocked", "superseded"},
                     linked : BOOLEAN, stop : BOOLEAN, gen : Nat, today : BOOLEAN,
                     grant : {"none", "queued", "claimed", "revoked", "stopped", "over"},
                     asked : Nat, given : Nat])
  <2>. DEFINE R == [plan : DOMAIN plans, policy : DOMAIN rules,
                    status : {"reserved", "authorized", "denied", "blocked", "superseded"},
                    linked : BOOLEAN, stop : BOOLEAN, gen : Nat, today : BOOLEAN,
                    grant : {"none", "queued", "claimed", "revoked", "stopped", "over"},
                    asked : Nat, given : Nat]
  <2>1. \A e \in 1 .. Len(execs) : execs[e] \in R
    <3>. SUFFICES ASSUME NEW e \in 1 .. Len(execs) PROVE execs[e] \in R
      OBVIOUS
    <3>1. PICK row \in ExecRow : row = execs[e]
      BY <1>1 DEF DispatchTables
    <3>2. row.policy \in DOMAIN rules /\ row.plan \in DOMAIN plans
      BY <1>1, <3>1 DEF References
    <3>. QED
      BY <3>1, <3>2 DEF ExecRow, ExecStatus, GrantStatus
  <2>2. execs \in Seq(ExecRow)
    BY <1>1 DEF DispatchTables
  <2>. QED
    BY Zenon, <2>1, <2>2, RowsAreOf
<1>5. jobRoots \in Seq([exec : 0 .. Len(execs), is : {"prepared", "cleaned", "gone", "bare"},
                        old : BOOLEAN, blind : BOOLEAN])
  <2>. DEFINE R == [exec : 0 .. Len(execs), is : {"prepared", "cleaned", "gone", "bare"},
                    old : BOOLEAN, blind : BOOLEAN]
  <2>1. \A c \in 1 .. Len(jobRoots) : jobRoots[c] \in R
    <3>. SUFFICES ASSUME NEW c \in 1 .. Len(jobRoots) PROVE jobRoots[c] \in R
      OBVIOUS
    <3>1. PICK row \in RootRow : row = jobRoots[c]
      BY <1>1 DEF DispatchTables
    <3>2. row.exec \in 0 .. Len(execs)
      BY <1>1, <3>1 DEF References, RootRow
    <3>. QED
      BY <3>1, <3>2 DEF RootRow
  <2>2. jobRoots \in Seq(RootRow)
    BY <1>1 DEF DispatchTables
  <2>. QED
    BY Zenon, <2>1, <2>2, RowsAreOf
<1>6. intake \in [at : {"off", "plan", "prepare"}, cut : BOOLEAN, of : Intakes,
                  plan : 0 .. Len(plans), blind : BOOLEAN]
  <2>1. intake \in IntakeRecord /\ intake.plan \in 0 .. Len(plans)
    BY <1>1 DEF IntentKept, IntakeRecord
  <2>. QED
    BY <2>1 DEF IntakeRecord
<1>7. {wakeAgain, shut} \subseteq BOOLEAN
  BY <1>1 DEF DispatchFlags
<1>. QED
  BY <1>1, <1>2, <1>3, <1>4, <1>5, <1>6, <1>7
     DEF DispatchTypeOK, DispatchTables, DispatchFlags, IntentKept

LEMMA DispatchInvSafe ==
  ASSUME DispatchInv
  PROVE  DispatchSafe
<1>1. /\ DispatchLedger /\ DispatchTables /\ References /\ CapsKept
      /\ Len(rules) \in Nat /\ DOMAIN rules = 1 .. Len(rules)
      /\ Len(execs) \in Nat /\ DOMAIN execs = 1 .. Len(execs)
      /\ Len(jobRoots) \in Nat /\ DOMAIN jobRoots = 1 .. Len(jobRoots)
      /\ \A e \in 1 .. Len(execs) : ExecSound(e)
  BY Zenon, DispatchFacts DEF DispatchInv, DispatchLedger
<1>2. GrantIsCurrent
  BY <1>1 DEF GrantIsCurrent, ExecSound
<1>3. RevokedIsStopped
  <2>. SUFFICES ASSUME NEW e \in 1 .. Len(execs), rules[execs[e].policy] \in {"revoked", "expired"}
                PROVE  /\ execs[e].status # "reserved"
                       /\ execs[e].linked => execs[e].grant # "queued"
                       /\ execs[e].grant = "claimed" => execs[e].stop
    BY <1>1 DEF RevokedIsStopped
  <2>. QED
    BY <1>1 DEF ExecSound, Ended
<1>4. DispatchCaps
  <2>. SUFFICES ASSUME NEW p \in 1 .. Len(rules)
                PROVE  /\ Cardinality(SpentToday(p)) <= JobsPerDay
                       /\ Cardinality({e \in DOMAIN execs :
                                         /\ execs[e].policy = p /\ execs[e].status # "blocked"
                                         /\ execs[e].grant \in {"queued", "claimed"}}) <= Concurrent
    BY <1>1 DEF DispatchCaps
  <2>1. Cardinality(SpentToday(p)) <= JobsPerDay /\ Cardinality(Load(p)) <= Concurrent
    BY <1>1 DEF CapsKept
  <2>2. PICK S : S = {e \in DOMAIN execs :
                        /\ execs[e].policy = p /\ execs[e].status # "blocked"
                        /\ execs[e].grant \in {"queued", "claimed"}}
    OBVIOUS
  <2>3. S \subseteq Load(p) /\ Load(p) \subseteq 1 .. Len(execs)
    BY <1>1, <2>2 DEF Load
  <2>4. Cardinality(S) \in Nat /\ Cardinality(Load(p)) \in Nat /\ Cardinality(S) <= Cardinality(Load(p))
    BY Zenon, <1>1, <2>3, CountsFewer
  <2>. QED
    BY <2>1, <2>2, <2>4, DispatchAssumption
<1>5. CopiesHeld
  <2>1. Cardinality({c \in Retained(jobRoots) : ~ jobRoots[c].blind}) <= MaxRetained
    BY DEF DispatchInv, CopiesBounded, Counted
  <2>2. \A e \in 1 .. Len(execs) : execs[e].grant \in {"claimed", "stopped"} => Copied(e)
    BY <1>1 DEF ExecSound
  <2>. QED
    BY <1>1, <2>1, <2>2 DEF CopiesHeld, Copied
<1>. QED
  BY <1>2, <1>3, <1>4, <1>5 DEF DispatchSafe

(* A grant answers the intent as it was captured, an ended policy leaves    *)
(* nothing to claim, the caps bound what is given, the copies stay within   *)
(* their budget except for those that a failed prune let in (prune()        *)
(* answers zero, autodispatch_service.ts:211), and no worker loses its own: *)
(* for any caps, budget and number of Runs, through failed writes and       *)
(* crashes anywhere.                                                        *)
THEOREM DispatchSound == DispatchSpec => []DispatchSafe
<1>1. DispatchInit => DispatchInv
  BY Zenon, DispatchStarts
<1>2. DispatchInv /\ [DispatchNext]_dispatchVars => DispatchInv'
  BY Zenon, DispatchStep
<1>3. DispatchInv => DispatchSafe
  BY Zenon, DispatchInvSafe
<1>. QED
  BY <1>1, <1>2, <1>3, PTL DEF DispatchSpec

(***************************************************************************)
(* The services together.                                                   *)
(***************************************************************************)
(* The projector's variables have their types.                              *)
THEOREM NoticeTypeCorrect == NoticeSpec => []NoticeTypeOK
<1>1. NoticeInit => NoticeInv
  BY Zenon, NoticeStarts
<1>2. NoticeInv /\ [NoticeNext]_noticeVars => NoticeInv'
  BY Zenon, NoticeStep
<1>3. NoticeInv => NoticeTypeOK
  BY Zenon, NoticeInvTyped
<1>. QED
  BY <1>1, <1>2, <1>3, PTL DEF NoticeSpec

(* The shadow worker's variables have their types.                          *)
THEOREM ShadowTypeCorrect == ShadowSpec => []ShadowTypeOK
<1>1. ShadowInit => ShadowInv
  BY Zenon, ShadowStarts
<1>2. ShadowInv /\ [ShadowNext]_shadowVars => ShadowInv'
  BY Zenon, ShadowStep
<1>3. ShadowInv => ShadowTypeOK
  BY Zenon, ShadowInvTyped
<1>. QED
  BY <1>1, <1>2, <1>3, PTL DEF ShadowSpec

(* The dispatch ledger's and its service's variables have their types, and  *)
(* every row refers to rows that are there.                                 *)
THEOREM DispatchTypeCorrect == DispatchSpec => []DispatchTypeOK
<1>1. DispatchInit => DispatchInv
  BY Zenon, DispatchStarts
<1>2. DispatchInv /\ [DispatchNext]_dispatchVars => DispatchInv'
  BY Zenon, DispatchStep
<1>3. DispatchInv => DispatchTypeOK
  BY Zenon, DispatchInvTyped
<1>. QED
  BY <1>1, <1>2, <1>3, PTL DEF DispatchSpec

LEMMA BackgroundStart ==
  BackgroundInit => MemoryInit /\ ShadowInit /\ DispatchInit /\ NoticeInit
BY DEF BackgroundInit

LEMMA BackgroundSteps ==
  ASSUME [BackgroundNext]_backgroundVars
  PROVE  /\ [MemoryNext]_memoryVars /\ [ShadowNext]_shadowVars
         /\ [DispatchNext]_dispatchVars /\ [NoticeNext]_noticeVars
BY Zenon DEF BackgroundNext, backgroundVars

(* Each service's own behaviour is within the background's behaviour.       *)
LEMMA BackgroundIsParts ==
  BackgroundSpec => MemorySpec /\ ShadowSpec /\ DispatchSpec /\ NoticeSpec
BY BackgroundStart, BackgroundSteps, PTL
DEF BackgroundSpec, MemorySpec, ShadowSpec, DispatchSpec, NoticeSpec

(* Whichever service moves, the variables of all have their types.          *)
THEOREM BackgroundTypeCorrect == BackgroundSpec => []BackgroundTypeOK
<1>1. MemoryTypeOK /\ ShadowTypeOK /\ DispatchTypeOK /\ NoticeTypeOK => BackgroundTypeOK
  BY DEF BackgroundTypeOK
<1>. QED
  BY <1>1, BackgroundIsParts, MemoryTypeCorrect, ShadowTypeCorrect, DispatchTypeCorrect,
     NoticeTypeCorrect, PTL

(* The autonomous services keep to what they may do: a shadow decision      *)
(* stands on unchanged ground, a dispatch grant answers a current intent    *)
(* within its caps, and alerts follow the tasks and the stop.               *)
THEOREM AutonomySound == BackgroundSpec => []AutonomySafe
<1>1. ShadowSafe /\ DispatchSafe /\ NotifySafe => AutonomySafe
  BY DEF AutonomySafe
<1>. QED
  BY <1>1, BackgroundIsParts, ShadowSound, DispatchSound, NotifySound, PTL

(* Among the services, too, an acknowledged memory operation was applied,   *)
(* and after stop() the queue is at rest.                                   *)
THEOREM BackgroundMemorySound == BackgroundSpec => []MemorySafe /\ QuietAfterStop
BY BackgroundIsParts, MemorySound, NothingAfterStop, PTL

=============================================================================
