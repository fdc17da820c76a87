------------------------------ MODULE RunStream ------------------------------
(***************************************************************************)
(* How a Run's journal reaches the chat page: the SSE loop of               *)
(* apps/server/src/sse.ts and the page's subscription, serialized reducer,  *)
(* gap catch-up, JSON fallback poll and reload (ConversationApp in          *)
(* apps/server/src/ui/client.ts, applyRunEvent in ui/reducer.ts).           *)
(*                                                                          *)
(* One Run, whose journal has the events 1 .. total, the last one terminal. *)
(* One page, which may be reloaded.  Frames of a connection arrive in       *)
(* order; a connection may break at any time and the browser reconnects     *)
(* with the last id it received.  The events of one page of the JSON API    *)
(* are at most PageSize; the twenty-page cap of a catch-up (a thousand      *)
(* events) is beyond what a Run writes and is left out.                     *)
(***************************************************************************)
EXTENDS Naturals, Sequences

CONSTANTS
  MaxEvents,    \* bound: length of the journal
  PageSize,     \* limit of a page of the JSON API
  MaxStreak,    \* POLL_MAX_ERROR_STREAK
  MaxBreaks,    \* bound: connections broken
  MaxFaults,    \* bound: JSON reads failed
  MaxVisits     \* bound: reloads

ASSUME StreamAssumption ==
  /\ MaxEvents \in Nat \ {0, 1}
  /\ PageSize \in Nat \ {0}
  /\ MaxStreak \in Nat \ {0}
  /\ MaxBreaks \in Nat
  /\ MaxFaults \in Nat
  /\ MaxVisits \in Nat

VARIABLES
  total,      \* events the Run will have written when it ends
  ending,     \* the kind of its terminal event
  log,        \* events written so far (runs.event_seq)
  saved,      \* the Run's cursor in localStorage, 0 when there is none
  following,  \* activeRunId: "none" yet, this Run, or "left" it
  booting,    \* the boot of a reloaded page: "", "ask" or "history"
  view,       \* the reducer's cursor
  conn,       \* the EventSource
  received,   \* last id the EventSource received, or its ?after
  pushed,     \* the server loop's cursor on the open connection
  opened,     \* a frame arrived on this subscription
  timer,      \* the five-second fallback timer is armed
  queue,      \* events waiting for the serialized reducer
  link,       \* the reducer's catch-up: [event, after], event 0 when idle
  poll,       \* the fallback poll: [at, after, streak]
  copies,     \* answers of this Run in the list
  known,      \* the Run is in renderedAnswers
  told,       \* the page showed how the Run ended
  claimed,    \* the terminal hydration was claimed
  refresh,    \* a terminal hydration is under way
  missed,     \* ghost: a catch-up of this visit failed
  breaks, faults, visits

runVars == <<total, ending, log>>
listVars == <<copies, known, told, claimed, refresh>>
connVars == <<conn, received, pushed, opened, timer>>
readVars == <<view, saved, queue, link>>
spentVars == <<breaks, faults, visits>>
streamVars == <<runVars, listVars, connVars, readVars, spentVars,
                following, booting, poll, missed>>

Events == 0 .. MaxEvents
Idle0 == [event |-> 0, after |-> 0]
Quiet == [at |-> "off", after |-> 0, streak |-> 0]

(* The values the variables take.                                           *)
StreamTypeOK ==
  /\ total \in 2 .. MaxEvents
  /\ ending \in {"completed", "failed"}
  /\ log \in 0 .. total
  /\ {saved, view, received, pushed} \subseteq 0 .. log
  /\ following \in {"none", "active", "left"}
  /\ booting \in {"", "ask", "history"}
  /\ conn \in {"none", "connecting", "open"}
  /\ opened \in BOOLEAN
  /\ timer \in BOOLEAN
  /\ queue \in Seq(1 .. log)
  /\ link \in [event : Events, after : Events]
  /\ poll \in [at : {"off", "fetch", "wait", "gaveup"}, after : Events, streak : 0 .. MaxStreak]
  /\ copies \in Nat
  /\ {known, told, claimed, refresh, missed} \subseteq BOOLEAN
  /\ breaks \in 0 .. MaxBreaks
  /\ faults \in 0 .. MaxFaults
  /\ visits \in 0 .. MaxVisits

(* The Run was created; the page has not seen the 202 of its message yet.   *)
StreamInit ==
  /\ total \in 2 .. MaxEvents
  /\ ending \in {"completed", "failed"}
  /\ log = 1
  /\ saved = 0
  /\ following = "none"
  /\ booting = ""
  /\ view = 0
  /\ conn = "none"
  /\ received = 0
  /\ pushed = 0
  /\ opened = FALSE
  /\ timer = FALSE
  /\ queue = << >>
  /\ link = Idle0
  /\ poll = Quiet
  /\ copies = 0
  /\ known = FALSE
  /\ told = FALSE
  /\ claimed = FALSE
  /\ refresh = FALSE
  /\ missed = FALSE
  /\ breaks = 0
  /\ faults = 0
  /\ visits = 0

Following == following = "active"
Ended == log = total
Terminal(v) == v = total
Answered == Ended /\ ending = "completed"

-----------------------------------------------------------------------------
(* What a step does to the page.                                            *)

(* finishActiveRun: the composer is free, the stream closed.                *)
FinishActiveRun ==
  /\ following' = "left"
  /\ conn' = "none"
  /\ timer' = FALSE
  /\ UNCHANGED <<received, pushed, opened>>

(* Mutant: the answer is appended whatever is already in the list.          *)
AnswerAppendedAgain == copies' = IF ending = "completed" THEN copies + 1 ELSE copies

(* The answer is appended unless the page already holds it.                 *)
AnswerAppended ==
  copies' = IF ending = "completed" /\ ~ known THEN copies + 1 ELSE copies

(* renderRunView of a view at v: a terminal view is shown, releases the     *)
(* composer and claims one refresh of the history.                          *)
RenderRunView(v) ==
  IF Terminal(v)
    THEN /\ AnswerAppended
         /\ known' = (known \/ ending = "completed")
         /\ told' = TRUE
         /\ claimed' = TRUE
         /\ refresh' = (refresh \/ ~ claimed)
         /\ FinishActiveRun
    ELSE UNCHANGED <<listVars, connVars, following>>

(* A page of the JSON API read at `after`, applied by the reducer: events   *)
(* at or below its cursor are duplicates, a page beyond it leaves a gap.    *)
PageEnd(after) == IF after + PageSize < log THEN after + PageSize ELSE log
AppliedPage(after) == IF after <= view /\ PageEnd(after) > view THEN PageEnd(after) ELSE view

ApplyPage(after) ==
  /\ view' = AppliedPage(after)
  /\ saved' = IF AppliedPage(after) > view THEN AppliedPage(after) ELSE saved

-----------------------------------------------------------------------------
(* The Run and the SSE loop.                                                *)

AppendEvent ==
  /\ ~ Ended
  /\ log' = log + 1
  /\ UNCHANGED <<total, ending, listVars, connVars, readVars, spentVars,
                 following, booting, poll, missed>>

(* The server takes the request: its cursor is the larger of ?after and     *)
(* Last-Event-ID, and its first poll follows.                               *)
Connect ==
  /\ conn = "connecting"
  /\ conn' = "open"
  /\ pushed' = received
  /\ UNCHANGED <<received, opened, timer, runVars, listVars, readVars, spentVars,
                 following, booting, poll, missed>>

(* The loop closes a stream when the Run is terminal and all is sent.       *)
StreamDone == Ended /\ pushed = log

PollSseStep ==
  /\ conn = "open"
  /\ ~ StreamDone
  /\ pushed < log
  /\ pushed' = PageEnd(pushed)
  /\ UNCHANGED <<conn, received, opened, timer, runVars, listVars, readVars, spentVars,
                 following, booting, poll, missed>>

(* The browser hands a frame to the page, which queues it for the reducer.  *)
FrameArrives ==
  /\ conn = "open"
  /\ received < pushed
  /\ received' = received + 1
  /\ opened' = TRUE
  /\ queue' = Append(queue, received + 1)
  /\ UNCHANGED <<conn, pushed, timer, view, saved, link, runVars, listVars, spentVars,
                 following, booting, poll, missed>>

(* onerror: the browser will reconnect, unless the view is terminal.        *)
OnError ==
  IF Following /\ Terminal(view)
    THEN FinishActiveRun
    ELSE /\ conn' = "connecting"
         /\ UNCHANGED <<received, pushed, opened, timer, following>>

StreamCloses ==
  /\ conn = "open"
  /\ StreamDone
  /\ received = pushed
  /\ OnError
  /\ UNCHANGED <<runVars, listVars, readVars, spentVars, booting, poll, missed>>

(* The connection is cut, or the server closes a client too slow to drain   *)
(* its frames.                                                              *)
ConnectionBreaks ==
  /\ conn = "open"
  /\ breaks < MaxBreaks
  /\ breaks' = breaks + 1
  /\ OnError
  /\ UNCHANGED <<runVars, listVars, readVars, faults, visits, booting, poll, missed>>

-----------------------------------------------------------------------------
(* The serialized reducer.                                                  *)

ApplyNext ==
  /\ link = Idle0
  /\ queue # << >>
  /\ LET e == Head(queue)
     IN /\ queue' = Tail(queue)
        /\ \/ /\ e <= view
              /\ UNCHANGED <<view, saved, link, listVars, connVars, following>>
           \/ /\ e = view + 1
              /\ view' = e
              /\ saved' = e
              /\ RenderRunView(e)
              /\ UNCHANGED link
           \/ /\ e > view + 1
              /\ link' = [event |-> e, after |-> view]
              /\ UNCHANGED <<view, saved, listVars, connVars, following>>
  /\ UNCHANGED <<runVars, spentVars, booting, poll, missed>>

CatchUpPage ==
  /\ link # Idle0
  /\ link.after < log
  /\ ApplyPage(link.after)
  /\ link' = [link EXCEPT !.after = PageEnd(link.after)]
  /\ UNCHANGED <<queue, runVars, listVars, connVars, spentVars, following, booting, poll, missed>>

(* An empty page ends the catch-up; the frame that caused it is a duplicate *)
(* by now and the view is rendered.                                         *)
CatchUpEnds ==
  /\ link # Idle0
  /\ link.after >= log
  /\ link' = Idle0
  /\ RenderRunView(view)
  /\ UNCHANGED <<view, saved, queue, runVars, spentVars, booting, poll, missed>>

(* A failed page drops the frame.                                           *)
CatchUpFails ==
  /\ link # Idle0
  /\ faults < MaxFaults
  /\ faults' = faults + 1
  /\ link' = Idle0
  /\ missed' = TRUE
  /\ UNCHANGED <<view, saved, queue, runVars, listVars, connVars, breaks, visits,
                 following, booting, poll>>

-----------------------------------------------------------------------------
(* The fallback poll, started when no frame came in time.                   *)

(* Mutant: a round starts from the cursor kept for the stream.              *)
RoundFromStored == saved

(* A round starts from the reducer's cursor.                                *)
RoundStart == view

FallbackTimer ==
  /\ timer
  /\ timer' = FALSE
  /\ IF opened
       THEN UNCHANGED <<conn, poll>>
       ELSE /\ conn' = "none"
            /\ poll' = [at |-> "fetch", after |-> RoundStart, streak |-> 0]
  /\ UNCHANGED <<received, pushed, opened, runVars, listVars, readVars, spentVars,
                 following, booting, missed>>

PollPage ==
  /\ poll.at = "fetch"
  /\ Following
  /\ poll.after < log
  /\ ApplyPage(poll.after)
  /\ poll' = [poll EXCEPT !.after = PageEnd(poll.after)]
  /\ UNCHANGED <<queue, link, runVars, listVars, connVars, spentVars, following, booting, missed>>

PollRound ==
  /\ poll.at = "fetch"
  /\ Following
  /\ poll.after >= log
  /\ poll' = [poll EXCEPT !.at = IF Terminal(view) THEN "off" ELSE "wait", !.streak = 0]
  /\ RenderRunView(view)
  /\ UNCHANGED <<readVars, runVars, spentVars, booting, missed>>

(* A failed round renders what it has; the streak's end asks for a reload.  *)
PollFails ==
  /\ poll.at = "fetch"
  /\ Following
  /\ faults < MaxFaults
  /\ faults' = faults + 1
  /\ IF poll.streak + 1 >= MaxStreak
       THEN /\ poll' = [poll EXCEPT !.at = "gaveup", !.streak = MaxStreak]
            /\ UNCHANGED <<listVars, connVars, following>>
       ELSE /\ poll' = [poll EXCEPT !.at = IF Terminal(view) THEN "off" ELSE "wait",
                                    !.streak = poll.streak + 1]
            /\ RenderRunView(view)
  /\ UNCHANGED <<readVars, runVars, breaks, visits, booting, missed>>

PollAgain ==
  /\ poll.at = "wait"
  /\ poll' = IF Following THEN [poll EXCEPT !.at = "fetch", !.after = RoundStart] ELSE Quiet
  /\ UNCHANGED <<readVars, runVars, listVars, connVars, spentVars, following, booting, missed>>

-----------------------------------------------------------------------------
(* The history and the reload.                                              *)

(* The list is rebuilt from the durable history.                            *)
HistoryArrives ==
  /\ refresh
  /\ refresh' = FALSE
  /\ copies' = IF Answered THEN 1 ELSE 0
  /\ known' = (known \/ Answered)
  /\ UNCHANGED <<told, claimed, readVars, runVars, connVars, spentVars,
                 following, booting, poll, missed>>

HistoryFails ==
  /\ refresh
  /\ faults < MaxFaults
  /\ faults' = faults + 1
  /\ refresh' = FALSE
  /\ UNCHANGED <<copies, known, told, claimed, readVars, runVars, connVars, breaks, visits,
                 following, booting, poll, missed>>

(* Only what localStorage holds survives.                                   *)
Revisit ==
  /\ visits < MaxVisits
  /\ visits' = visits + 1
  /\ following' = "none"
  /\ booting' = "ask"
  /\ view' = 0
  /\ queue' = << >>
  /\ link' = Idle0
  /\ poll' = Quiet
  /\ conn' = "none"
  /\ received' = 0
  /\ pushed' = 0
  /\ opened' = FALSE
  /\ timer' = FALSE
  /\ copies' = 0
  /\ known' = FALSE
  /\ told' = FALSE
  /\ claimed' = FALSE
  /\ refresh' = FALSE
  /\ missed' = FALSE
  /\ UNCHANGED <<runVars, saved, breaks, faults>>

(* recoverPending and discoverActiveRun: the Run is found, or not.          *)
BootAsks ==
  /\ booting = "ask"
  /\ booting' = "history"
  /\ following' \in {"none", "active"}
  /\ UNCHANGED <<runVars, listVars, connVars, readVars, spentVars, poll, missed>>

(* subscribe: an EventSource from the stored cursor, and the timer beside   *)
(* it.                                                                      *)
Subscribe ==
  /\ conn' = "connecting"
  /\ received' = saved
  /\ pushed' = saved
  /\ opened' = FALSE
  /\ timer' = TRUE

(* The 202 of the message or of the retry arrives at the page that sent it. *)
Follow ==
  /\ following = "none" /\ booting = "" /\ visits = 0
  /\ following' = "active"
  /\ Subscribe
  /\ UNCHANGED <<runVars, listVars, readVars, spentVars, booting, poll, missed>>

(* Boot renders the history before it subscribes from the stored cursor.    *)
BootSubscribes ==
  /\ booting = "history"
  /\ booting' = ""
  /\ \/ /\ copies' = IF Answered THEN 1 ELSE 0
        /\ known' = Answered
        /\ UNCHANGED faults
     \/ /\ faults < MaxFaults
        /\ faults' = faults + 1
        /\ UNCHANGED <<copies, known>>
  /\ IF Following
       THEN Subscribe
       ELSE UNCHANGED connVars
  /\ UNCHANGED <<told, claimed, refresh, runVars, readVars, breaks, visits, following, poll, missed>>

StreamStep ==
  \/ Connect
  \/ PollSseStep
  \/ FrameArrives
  \/ StreamCloses
  \/ ApplyNext
  \/ CatchUpPage
  \/ CatchUpEnds
  \/ FallbackTimer
  \/ PollPage
  \/ PollRound
  \/ PollAgain
  \/ HistoryArrives
  \/ BootAsks
  \/ BootSubscribes

StreamFault ==
  \/ ConnectionBreaks
  \/ CatchUpFails
  \/ PollFails
  \/ HistoryFails
  \/ Revisit

StreamNext == Follow \/ AppendEvent \/ StreamStep \/ StreamFault

StreamSpec == StreamInit /\ [][StreamNext]_streamVars

(* The browser reconnects and delivers, timers fire, requests are answered  *)
(* and the page's promise chain runs.  Nothing makes the Run go on.         *)
StreamFairness ==
  /\ WF_streamVars(Connect)
  /\ WF_streamVars(PollSseStep)
  /\ WF_streamVars(FrameArrives)
  /\ WF_streamVars(StreamCloses)
  /\ WF_streamVars(ApplyNext)
  /\ WF_streamVars(CatchUpPage \/ CatchUpEnds)
  /\ WF_streamVars(FallbackTimer)
  /\ WF_streamVars(PollPage \/ PollRound)
  /\ WF_streamVars(PollAgain)
  /\ WF_streamVars(BootAsks)
  /\ WF_streamVars(BootSubscribes)
  /\ WF_streamVars(HistoryArrives)

StreamFairSpec == StreamSpec /\ StreamFairness

-----------------------------------------------------------------------------
(* The answer is in the list at most once, however often the terminal event *)
(* is delivered, replayed, caught up or found in the history.               *)
AnswerOnce == copies <= 1

(* The composer is freed only by the Run's terminal event.                  *)
ReleasedAtEnd == told => Ended

(* A page whose catch-ups succeeded and that let go of the Run shows how it *)
(* ended, and a completed Run's answer with it.                             *)
ReleasedIsShown ==
  following = "left" /\ link = Idle0 /\ ~ missed => told /\ (Answered => copies = 1)

StreamSafe ==
  /\ AnswerOnce
  /\ ReleasedAtEnd
  /\ ReleasedIsShown

(* A page that follows a Run which has ended, and must come to show it,     *)
(* give up with a notice, or be reloaded; not when a catch-up of this visit *)
(* failed.                                                                  *)
PageBehind == Following /\ Ended /\ poll.at # "gaveup" /\ ~ missed

(* The comment on a failed catch-up says that the next frame or the         *)
(* fallback poll retries the gap: the page comes to show the end anyway.    *)
GapIsRetried ==
  (Following /\ Ended) ~> (~ Following \/ poll.at = "gaveup")
=============================================================================
