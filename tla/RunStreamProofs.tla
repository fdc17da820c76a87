--------------------------- MODULE RunStreamProofs ---------------------------
(***************************************************************************)
(* Theorems about RunStream, for a journal of any length, any page size and *)
(* any number of broken connections, failed reads and reloads.              *)
(***************************************************************************)
EXTENDS RunStream, SequenceTheorems, TLAPS

-----------------------------------------------------------------------------
(* The inductive invariant.                                                 *)

(* The list holds the answer exactly when the page knows that it does, and  *)
(* only an answer the Run has given.                                        *)
Listed ==
  /\ known => copies = 1 /\ Answered
  /\ ~known => copies = 0

(* The end is shown after it was written, and the answer with it.           *)
EndShown == told => Ended /\ (ending = "completed" => known)

(* A reducer at the end has shown it, or somebody is about to render it.    *)
EndSeen ==
  view = total => \/ told \/ missed \/ link # Idle0
                  \/ poll.at \in {"fetch", "gaveup"}

(* A page that let go has shown the end, or a catch-up under way will.      *)
LetGo == following = "left" => told \/ missed \/ (link # Idle0 /\ view = total)

(* The fallback poll and the EventSource never read side by side.           *)
OneReader == poll.at # "off" => conn = "none"

(* A page that does not follow the Run, or still boots, has nothing of it.  *)
Untouched ==
  following = "none" \/ booting # "" =>
    /\ conn = "none" /\ poll.at = "off" /\ ~timer /\ link = Idle0 /\ queue = << >>
    /\ ~told /\ ~refresh /\ view = 0 /\ following # "left"

StreamInv ==
  /\ StreamTypeOK
  /\ Listed /\ EndShown
  /\ EndSeen /\ LetGo /\ OneReader /\ Untouched
  /\ booting # "" => ~known

-----------------------------------------------------------------------------
(* The cursors.                                                             *)

(* Numbers the type invariant bounds.                                       *)
LEMMA Bounds ==
  ASSUME StreamTypeOK
  PROVE  /\ total \in Nat /\ total >= 2 /\ total <= MaxEvents /\ MaxEvents \in Nat
         /\ log \in Nat /\ log <= total
         /\ saved \in Nat /\ saved <= log /\ view \in Nat /\ view <= log
         /\ received \in Nat /\ received <= log /\ pushed \in Nat /\ pushed <= log
         /\ link.after \in Nat /\ poll.after \in Nat
<1>1. /\ total \in 2 .. MaxEvents /\ log \in 0 .. total
      /\ saved \in 0 .. log /\ view \in 0 .. log /\ received \in 0 .. log /\ pushed \in 0 .. log
  BY Zenon DEF StreamTypeOK
<1>2. /\ link \in [event : Events, after : Events]
      /\ poll \in [at : {"off", "fetch", "wait", "gaveup"}, after : Events,
                   streak : 0 .. MaxStreak]
  BY Zenon DEF StreamTypeOK
<1>3. link.after \in Nat /\ poll.after \in Nat
  BY <1>2, StreamAssumption DEF Events
<1> QED
  BY <1>1, <1>3, StreamAssumption

(* A page of the journal ends behind its start and not behind the journal.  *)
LEMMA PageFacts ==
  ASSUME StreamTypeOK, NEW after \in Nat, after < log
  PROVE  /\ PageEnd(after) \in Nat /\ PageEnd(after) <= log /\ after < PageEnd(after)
         /\ AppliedPage(after) \in Nat /\ AppliedPage(after) <= log
         /\ view <= AppliedPage(after)
<1>1. log \in Nat /\ view \in Nat /\ view <= log /\ PageSize \in Nat \ {0}
  BY Bounds, StreamAssumption
<1>2. PageEnd(after) \in Nat /\ PageEnd(after) <= log /\ after < PageEnd(after)
  BY <1>1 DEF PageEnd
<1> QED
  BY <1>1, <1>2 DEF AppliedPage

(* The Run is fixed but for the events it writes.                           *)
LEMMA RunMoves ==
  ASSUME StreamInv, StreamNext
  PROVE  /\ total' = total /\ ending' = ending
         /\ log' = log \/ (log' = log + 1 /\ ~Ended)
         /\ log' # log => AppendEvent
<1> USE DEF runVars
<1>1. CASE Follow \/ AppendEvent
  BY <1>1 DEF Follow, AppendEvent
<1>2. CASE StreamStep
  BY <1>2 DEF StreamStep, Connect, PollSseStep, FrameArrives, StreamCloses, ApplyNext, CatchUpPage,
     CatchUpEnds, FallbackTimer, PollPage, PollRound, PollAgain, HistoryArrives, BootAsks,
     BootSubscribes
<1>3. CASE StreamFault
  BY <1>3 DEF StreamFault, ConnectionBreaks, CatchUpFails, PollFails, HistoryFails, Revisit
<1> QED
  BY <1>1, <1>2, <1>3 DEF StreamNext

(* The head of the reducer's queue is an event that was written.            *)
LEMMA HeadIsWritten ==
  ASSUME StreamTypeOK, queue # << >>
  PROVE  Head(queue) \in 1 .. log /\ Tail(queue) \in Seq(1 .. log)
  BY HeadTailProperties DEF StreamTypeOK

(* What a step does to the reducer's cursor and the stored one.             *)
LEMMA CursorMoves ==
  ASSUME StreamInv, StreamNext
  PROVE  /\ view' \in Nat /\ view' <= log' /\ saved' \in Nat /\ saved' <= log'
         /\ Revisit \/ view <= view'
         /\ view' # view => \/ Revisit
                            \/ ApplyNext /\ RenderRunView(view') /\ link' = link
                            \/ CatchUpPage \/ PollPage
<1> USE DEF readVars
<1>0. StreamTypeOK
  BY DEF StreamInv
<1>1. /\ log \in Nat /\ saved \in Nat /\ saved <= log /\ view \in Nat /\ view <= log
      /\ log' \in Nat /\ log <= log'
  BY <1>0, Bounds, RunMoves
<1>2. CASE UNCHANGED <<view, saved>>
  BY <1>1, <1>2
<1>3. CASE ApplyNext
  <2>1. CASE UNCHANGED <<view, saved>>
    BY <1>2, <2>1
  <2>2. CASE ~UNCHANGED <<view, saved>>
    <3>1. PICK e \in 1 .. log : e = Head(queue)
      BY <1>0, <1>3, HeadIsWritten DEF ApplyNext
    <3>2. view' = e /\ saved' = e /\ e = view + 1 /\ RenderRunView(e) /\ link' = link
      BY <1>3, <2>2, <3>1 DEF ApplyNext
    <3>3. RenderRunView(view')
      BY <3>2, Zenon
    <3> QED
      BY <1>1, <1>3, <3>1, <3>2, <3>3
  <2> QED
    BY <2>1, <2>2
<1>4. ASSUME NEW after \in Nat, after < log, ApplyPage(after)
      PROVE  /\ view' \in Nat /\ view' <= log /\ saved' \in Nat /\ saved' <= log
             /\ view <= view'
  BY <1>0, <1>1, <1>4, PageFacts DEF ApplyPage
<1>5. CASE CatchUpPage
  <2>1. link.after \in Nat
    BY <1>0, Bounds
  <2> QED
    BY <1>1, <1>4, <1>5, <2>1 DEF CatchUpPage
<1>6. CASE PollPage
  <2>1. poll.after \in Nat
    BY <1>0, Bounds
  <2> QED
    BY <1>1, <1>4, <1>6, <2>1 DEF PollPage
<1>7. CASE Revisit
  BY <1>1, <1>7 DEF Revisit
<1>8. CASE Follow \/ AppendEvent
  BY <1>2, <1>8 DEF Follow, AppendEvent
<1>9. CASE Connect \/ PollSseStep \/ FrameArrives \/ StreamCloses \/ CatchUpEnds \/ FallbackTimer
           \/ PollRound \/ PollAgain \/ HistoryArrives \/ BootAsks \/ BootSubscribes
  BY <1>2, <1>9 DEF Connect, PollSseStep, FrameArrives, StreamCloses, CatchUpEnds, FallbackTimer,
     PollRound, PollAgain, HistoryArrives, BootAsks, BootSubscribes
<1>10. CASE ConnectionBreaks \/ CatchUpFails \/ PollFails \/ HistoryFails
  BY <1>2, <1>10 DEF ConnectionBreaks, CatchUpFails, PollFails, HistoryFails
<1> QED
  BY <1>3, <1>5, <1>6, <1>7, <1>8, <1>9, <1>10 DEF StreamNext, StreamStep, StreamFault

-----------------------------------------------------------------------------
(* What rendering does.                                                     *)

(* The connection, without its timer.                                       *)
LEMMA RenderMoves ==
  ASSUME StreamInv, NEW v, RenderRunView(v)
  PROVE  /\ UNCHANGED <<received, pushed, opened>>
         /\ conn' \in {conn, "none"} /\ timer' \in {timer, FALSE}
         /\ following' \in {following, "left"}
         /\ v = total => /\ told' /\ following' = "left" /\ conn' = "none" /\ timer' = FALSE
         /\ v # total => UNCHANGED <<copies, known, told, claimed, refresh, conn, timer, following>>
  BY DEF RenderRunView, Terminal, FinishActiveRun, listVars, connVars

(* Rendering keeps the list and what was shown in agreement.                *)
LEMMA RenderLists ==
  ASSUME StreamInv, NEW v \in Nat, v <= log, RenderRunView(v), UNCHANGED <<total, ending, log>>
  PROVE  /\ Listed' /\ EndShown'
         /\ known' \in BOOLEAN /\ told' \in BOOLEAN /\ claimed' \in BOOLEAN /\ refresh' \in BOOLEAN
<1>0. /\ known \in BOOLEAN /\ told \in BOOLEAN /\ claimed \in BOOLEAN /\ refresh \in BOOLEAN
  BY Zenon DEF StreamInv, StreamTypeOK
<1>a. StreamTypeOK
  BY DEF StreamInv
<1>1. CASE v = total
  <2>1. Ended
    BY <1>a, <1>1, Bounds DEF Ended
  <2>2. /\ copies' = IF ending = "completed" /\ ~known THEN copies + 1 ELSE copies
        /\ known' = (known \/ ending = "completed")
        /\ told' = TRUE /\ claimed' = TRUE /\ refresh' = (refresh \/ ~claimed)
    BY <1>1 DEF RenderRunView, Terminal, AnswerAppended
  <2>3. known' \in BOOLEAN /\ refresh' \in BOOLEAN /\ (known' <=> (known \/ ending = "completed"))
    BY <2>2, Zenon
  <2>4. (known => copies = 1 /\ Answered) /\ (~known => copies = 0)
    BY DEF StreamInv, Listed
  <2>5. Ended' /\ (Answered' <=> ending = "completed") /\ (Answered <=> ending = "completed")
        /\ ending' = ending
    BY <2>1 DEF Ended, Answered
  <2>6. CASE ending = "completed"
    <3>1. known'
      BY <2>3, <2>6, Zenon
    <3>2. copies' = 1
      BY <2>2, <2>4, <2>6
    <3> QED
      BY <2>2, <2>3, <2>5, <2>6, <3>1, <3>2, Zenon DEF Listed, EndShown
  <2>7. CASE ending # "completed"
    <3>1. ~known /\ ~known'
      BY <2>3, <2>4, <2>5, <2>7, Zenon
    <3>2. copies' = 0
      BY <2>2, <2>4, <2>7, <3>1
    <3> QED
      BY <2>2, <2>3, <2>5, <2>7, <3>1, <3>2, Zenon DEF Listed, EndShown
  <2> QED
    BY <2>6, <2>7
<1>2. CASE v # total
  <2>1. UNCHANGED <<copies, known, told, claimed, refresh>>
    BY <1>2 DEF RenderRunView, Terminal, listVars
  <2>2. Listed /\ EndShown
    BY DEF StreamInv
  <2> QED
    BY <1>0, <2>1, <2>2 DEF Listed, EndShown, Answered, Ended
<1> QED
  BY <1>1, <1>2

(* The list through every step.                                             *)
LEMMA ListStep ==
  ASSUME StreamInv, StreamNext
  PROVE  /\ Listed' /\ EndShown' /\ (booting' # "" => ~known')
         /\ known' \in BOOLEAN /\ told' \in BOOLEAN /\ claimed' \in BOOLEAN /\ refresh' \in BOOLEAN
<1>0. /\ known \in BOOLEAN /\ told \in BOOLEAN /\ claimed \in BOOLEAN /\ refresh \in BOOLEAN
      /\ Listed /\ EndShown /\ (booting # "" => ~known)
      /\ StreamTypeOK
  BY Zenon DEF StreamInv, StreamTypeOK
<1>1. ASSUME UNCHANGED <<copies, known, told, claimed, refresh>>,
             booting' = booting \/ booting # ""
      PROVE  /\ Listed' /\ EndShown' /\ (booting' # "" => ~known')
             /\ known' \in BOOLEAN /\ told' \in BOOLEAN /\ claimed' \in BOOLEAN
             /\ refresh' \in BOOLEAN
  <2>1. Ended => Ended'
    BY <1>0, Bounds, RunMoves DEF Ended
  <2>2. Answered => Answered'
    BY <2>1, RunMoves DEF Answered
  <2>3. ending' = ending
    BY RunMoves
  <2>4. Listed'
    BY <1>0, <1>1, <2>2, Zenon DEF Listed
  <2>5. EndShown'
    BY <1>0, <1>1, <2>1, <2>3, Zenon DEF EndShown
  <2>6. booting' # "" => ~known'
    BY <1>0, <1>1, Zenon
  <2> QED
    BY <1>0, <1>1, <2>4, <2>5, <2>6, Zenon
<1>2. ASSUME NEW v \in Nat, v <= log, RenderRunView(v), UNCHANGED <<total, ending, log>>,
             booting = "", booting' = ""
      PROVE  /\ Listed' /\ EndShown' /\ (booting' # "" => ~known')
             /\ known' \in BOOLEAN /\ told' \in BOOLEAN /\ claimed' \in BOOLEAN
             /\ refresh' \in BOOLEAN
  BY <1>2, RenderLists
<1>3. CASE Follow \/ AppendEvent
  BY <1>1, <1>3 DEF Follow, AppendEvent, listVars
<1>4. CASE Connect \/ PollSseStep \/ FrameArrives \/ StreamCloses \/ CatchUpPage \/ FallbackTimer
           \/ PollPage \/ PollAgain \/ BootAsks
  BY <1>1, <1>4 DEF Connect, PollSseStep, FrameArrives, StreamCloses, CatchUpPage, FallbackTimer,
     PollPage, PollAgain, BootAsks, listVars
<1>5. CASE ApplyNext
  <2>1. booting = "" /\ booting' = ""
    BY <1>5 DEF ApplyNext, StreamInv, Untouched
  <2>2. CASE UNCHANGED listVars
    BY <1>1, <2>1, <2>2 DEF listVars
  <2>3. CASE ~UNCHANGED listVars
    <3>1. Head(queue) \in Nat /\ Head(queue) <= log
      <4>1. Head(queue) \in 1 .. log
        BY <1>0, <1>5, HeadIsWritten DEF ApplyNext
      <4>2. log \in Nat
        BY <1>0, Bounds
      <4> QED
        BY <4>1, <4>2
    <3>2. RenderRunView(Head(queue)) /\ UNCHANGED <<total, ending, log>>
      BY <1>5, <2>3 DEF ApplyNext, runVars
    <3> QED
      BY <1>2, <2>1, <3>1, <3>2
  <2> QED
    BY <2>2, <2>3
<1>6. CASE CatchUpEnds \/ PollRound
  <2>1. booting = "" /\ booting' = ""
    BY <1>6 DEF CatchUpEnds, PollRound, StreamInv, Untouched
  <2>2. RenderRunView(view) /\ UNCHANGED <<total, ending, log>>
    BY <1>6 DEF CatchUpEnds, PollRound, runVars
  <2> QED
    BY <1>0, <1>2, <2>1, <2>2, Bounds
<1>7. CASE PollFails
  <2>1. booting = "" /\ booting' = ""
    BY <1>7 DEF PollFails, StreamInv, Untouched
  <2>2. CASE UNCHANGED listVars
    BY <1>1, <2>1, <2>2 DEF listVars
  <2>3. CASE ~UNCHANGED listVars
    <3>1. RenderRunView(view) /\ UNCHANGED <<total, ending, log>>
      BY <1>7, <2>3 DEF PollFails, runVars
    <3> QED
      BY <1>0, <1>2, <2>1, <3>1, Bounds
  <2> QED
    BY <2>2, <2>3
<1>8. CASE HistoryArrives
  <2>0. /\ booting' = booting /\ booting = ""
        /\ UNCHANGED <<told, claimed, total, ending, log>> /\ refresh' = FALSE
        /\ copies' = IF Answered THEN 1 ELSE 0
    BY <1>8 DEF HistoryArrives, runVars, StreamInv, Untouched
  <2>1. known' = (known \/ Answered)
    BY <1>8 DEF HistoryArrives
  <2>2. known' \in BOOLEAN /\ (known' <=> known \/ Answered)
    BY <2>1, Zenon
  <2>3. known => Answered
    BY <1>0 DEF Listed
  <2>4. Answered' <=> Answered
    BY <2>0 DEF Answered, Ended
  <2>5. Listed'
    <3>1. CASE Answered
      <4>1. known' /\ Answered'
        BY <2>2, <2>4, <3>1, Zenon
      <4>2. copies' = 1
        BY <2>0, <3>1
      <4> QED
        BY <4>1, <4>2, Zenon DEF Listed
    <3>2. CASE ~Answered
      <4>1. ~known'
        BY <2>2, <2>3, <3>2, Zenon
      <4>2. copies' = 0
        BY <2>0, <3>2
      <4> QED
        BY <4>1, <4>2, Zenon DEF Listed
    <3> QED
      BY <3>1, <3>2
  <2>6. EndShown'
    <3>1. known => known'
      BY <2>2, Zenon
    <3> QED
      BY <1>0, <2>0, <3>1 DEF EndShown, Ended
  <2> QED
    BY <1>0, <2>0, <2>2, <2>5, <2>6
<1>9. CASE HistoryFails
  <2>1. /\ UNCHANGED <<copies, known, told, claimed, total, ending, log, booting>>
        /\ refresh' = FALSE
    BY <1>9 DEF HistoryFails, runVars
  <2>2. Listed' /\ EndShown'
    BY <1>0, <2>1 DEF Listed, EndShown, Answered, Ended
  <2> QED
    BY <1>0, <2>1, <2>2
<1>10. CASE ConnectionBreaks \/ CatchUpFails
  BY <1>1, <1>10 DEF ConnectionBreaks, CatchUpFails, listVars
<1>11. CASE Revisit
  BY <1>11 DEF Revisit, Listed, EndShown
<1>12. CASE BootSubscribes
  <2>0. /\ booting' = "" /\ UNCHANGED <<told, claimed, refresh, total, ending, log>>
        /\ ~told /\ ~known /\ copies = 0
    BY <1>0, <1>12 DEF BootSubscribes, runVars, StreamInv, Untouched, Listed
  <2>1. \/ UNCHANGED <<copies, known>>
        \/ copies' = (IF Answered THEN 1 ELSE 0) /\ known' = Answered
    BY <1>12 DEF BootSubscribes
  <2>2. EndShown'
    BY <2>0 DEF EndShown
  <2>3. CASE UNCHANGED <<copies, known>>
    BY <1>1, <1>12, <2>0, <2>3 DEF BootSubscribes
  <2>4. CASE copies' = (IF Answered THEN 1 ELSE 0) /\ known' = Answered
    <3>1. known' \in BOOLEAN /\ (known' <=> Answered)
      BY <2>4, Zenon DEF Answered
    <3>2. Answered' <=> Answered
      BY <2>0 DEF Answered, Ended
    <3>3. Listed'
      BY <2>4, <3>1, <3>2 DEF Listed
    <3> QED
      BY <1>0, <2>0, <2>2, <3>1, <3>3
  <2> QED
    BY <2>1, <2>3, <2>4
<1> QED
  BY <1>3, <1>4, <1>5, <1>6, <1>7, <1>8, <1>9, <1>10, <1>11, <1>12
     DEF StreamNext, StreamStep, StreamFault

-----------------------------------------------------------------------------
(* Letting go of the Run.                                                   *)

(* What a step does to the connection, the poll and the catch-up.           *)
LEMMA ReadersStep ==
  ASSUME StreamInv, StreamNext
  PROVE  OneReader' /\ Untouched'
<1> USE DEF OneReader, Untouched, connVars, readVars, listVars
<1>0. OneReader /\ Untouched
  BY DEF StreamInv
<1>1. CASE Follow
  BY <1>0, <1>1 DEF Follow, Subscribe
<1>2. CASE AppendEvent \/ Connect \/ PollSseStep
  <2>1. /\ UNCHANGED <<following, booting, poll, timer, link, queue, told, refresh, view>>
        /\ conn' = conn \/ (conn # "none" /\ conn' # "none")
    BY <1>2 DEF AppendEvent, Connect, PollSseStep
  <2> QED
    BY <1>0, <2>1
<1>3. CASE FrameArrives
  BY <1>0, <1>3 DEF FrameArrives
<1>4. CASE StreamCloses \/ ConnectionBreaks
  BY <1>0, <1>4 DEF StreamCloses, ConnectionBreaks, OnError, FinishActiveRun
<1>5. ASSUME NEW v, RenderRunView(v), following # "none", booting = "", booting' = "",
             poll'.at # "off" => poll.at # "off"
      PROVE  OneReader' /\ Untouched'
  <2>1. conn' \in {conn, "none"} /\ following' \in {following, "left"}
    BY <1>5, RenderMoves
  <2> QED
    BY <1>0, <1>5, <2>1
<1>6. CASE ApplyNext
  <2>1. following # "none" /\ booting = "" /\ UNCHANGED <<booting, poll>>
    BY <1>0, <1>6 DEF ApplyNext
  <2>2. CASE UNCHANGED <<conn, following>>
    BY <1>0, <2>1, <2>2
  <2>3. CASE RenderRunView(Head(queue))
    BY <1>5, <2>1, <2>3
  <2> QED
    BY <1>6, <2>2, <2>3 DEF ApplyNext
<1>7. CASE CatchUpPage \/ CatchUpFails
  BY <1>0, <1>7 DEF CatchUpPage, CatchUpFails
<1>8. CASE CatchUpEnds
  <2>1. following # "none" /\ booting = "" /\ UNCHANGED <<booting, poll>> /\ RenderRunView(view)
    BY <1>0, <1>8 DEF CatchUpEnds
  <2> QED
    BY <1>5, <2>1
<1>9. CASE FallbackTimer
  BY <1>0, <1>9 DEF FallbackTimer
<1>10. CASE PollPage
  BY <1>0, <1>10 DEF PollPage
<1>11. CASE PollRound \/ PollFails
  <2>1. following # "none" /\ booting = "" /\ booting' = booting /\ poll.at = "fetch"
    BY <1>0, <1>11 DEF PollRound, PollFails
  <2>2. CASE UNCHANGED <<conn, following>>
    BY <1>0, <2>1, <2>2
  <2>3. CASE RenderRunView(view)
    BY <1>5, <2>1, <2>3
  <2> QED
    BY <1>11, <2>2, <2>3 DEF PollRound, PollFails
<1>12. CASE PollAgain
  <2>1. following # "none" /\ booting = "" /\ poll.at = "wait" /\ UNCHANGED <<booting, following, conn>>
    BY <1>0, <1>12 DEF PollAgain
  <2> QED
    BY <1>0, <2>1
<1>13. CASE HistoryArrives \/ HistoryFails
  BY <1>0, <1>13 DEF HistoryArrives, HistoryFails
<1>14. CASE Revisit
  BY <1>14 DEF Revisit, Quiet
<1>15. CASE BootAsks
  BY <1>0, <1>15 DEF BootAsks
<1>16. CASE BootSubscribes
  BY <1>0, <1>16 DEF BootSubscribes, Subscribe, Following
<1> QED
  BY <1>1, <1>2, <1>3, <1>4, <1>6, <1>7, <1>8, <1>9, <1>10, <1>11, <1>12, <1>13, <1>14, <1>15, <1>16
     DEF StreamNext, StreamStep, StreamFault

(* What was shown stays shown, and a failed catch-up stays noted, until the *)
(* page is reloaded.                                                        *)
LEMMA ShownStays ==
  ASSUME StreamInv, StreamNext, ~Revisit
  PROVE  (told => told') /\ (missed => missed')
<1> USE DEF listVars
<1>0. ASSUME NEW v, RenderRunView(v)
      PROVE  told => told'
  <2>1. told' = TRUE \/ told' = told
    BY <1>0 DEF RenderRunView
  <2> QED
    BY <2>1
<1>1. CASE Follow \/ AppendEvent \/ Connect \/ PollSseStep \/ FrameArrives \/ StreamCloses
  <2>1. told' = told /\ missed' = missed
    BY <1>1 DEF Follow, AppendEvent, Connect, PollSseStep, FrameArrives, StreamCloses
  <2> QED
    BY <2>1
<1>2. CASE ApplyNext
  <2>1. missed' = missed /\ (told' = told \/ RenderRunView(Head(queue)))
    BY <1>2 DEF ApplyNext
  <2> QED
    BY <1>0, <2>1
<1>3. CASE CatchUpEnds \/ PollRound
  <2>1. missed' = missed /\ RenderRunView(view)
    BY <1>3 DEF CatchUpEnds, PollRound
  <2> QED
    BY <1>0, <2>1
<1>4. CASE PollFails
  <2>1. missed' = missed /\ (told' = told \/ RenderRunView(view))
    BY <1>4 DEF PollFails
  <2> QED
    BY <1>0, <2>1
<1>5. CASE CatchUpFails
  <2>1. missed' = TRUE /\ told' = told
    BY <1>5 DEF CatchUpFails
  <2> QED
    BY <2>1
<1>6. CASE CatchUpPage \/ FallbackTimer \/ PollPage \/ PollAgain \/ HistoryArrives \/ BootAsks
           \/ BootSubscribes \/ ConnectionBreaks \/ HistoryFails
  <2>1. told' = told /\ missed' = missed
    BY <1>6 DEF CatchUpPage, FallbackTimer, PollPage, PollAgain, HistoryArrives, BootAsks,
       BootSubscribes, ConnectionBreaks, HistoryFails
  <2> QED
    BY <2>1
<1> QED
  BY <1>1, <1>2, <1>3, <1>4, <1>5, <1>6 DEF StreamNext, StreamStep, StreamFault

(* A catch-up is under way until it ends or fails.                          *)
LEMMA CatchUpStays ==
  ASSUME StreamTypeOK, CatchUpPage
  PROVE  link' # Idle0 /\ link' \in [event : Events, after : Events]
<1>1. link \in [event : Events, after : Events]
  BY Zenon DEF StreamTypeOK
<1>2. link' = [link EXCEPT !.after = PageEnd(link.after)]
  BY DEF CatchUpPage
<1>3. link.after \in Nat /\ link.after < log
  BY Bounds DEF CatchUpPage
<1>4. /\ PageEnd(link.after) > 0 /\ PageEnd(link.after) \in Nat
      /\ PageEnd(link.after) <= log /\ log <= MaxEvents /\ log \in Nat /\ MaxEvents \in Nat
  BY <1>3, PageFacts, Bounds
<1>5. PageEnd(link.after) \in Events /\ PageEnd(link.after) # 0
  BY <1>4 DEF Events
<1>6. link' \in [event : Events, after : Events] /\ link'.after # 0
  BY <1>1, <1>2, <1>5
<1> QED
  BY <1>6 DEF Idle0

(* The page renders a reducer that reached the end, or is about to.         *)
LEMMA SeenStep ==
  ASSUME StreamInv, StreamNext
  PROVE  EndSeen'
<1>0. EndSeen /\ StreamTypeOK
  BY DEF StreamInv
<1>1. total' = total /\ total \in Nat /\ total >= 2
  BY <1>0, Bounds, RunMoves
<1>2. CASE Revisit
  BY <1>1, <1>2 DEF Revisit, EndSeen
<1>3. CASE ~Revisit
  <2>0. (told => told') /\ (missed => missed')
    BY <1>3, ShownStays
  <2>1. SUFFICES ASSUME view' = total
                 PROVE  told' \/ missed' \/ link' # Idle0 \/ poll'.at \in {"fetch", "gaveup"}
    BY <1>1 DEF EndSeen
  <2>2. CASE view' # view
    <3>1. CASE ApplyNext /\ RenderRunView(view')
      BY <2>1, <3>1, RenderMoves
    <3>2. CASE CatchUpPage
      BY <1>0, <3>2, CatchUpStays
    <3>3. CASE PollPage
      <4>1. poll.at = "fetch" /\ poll' = [poll EXCEPT !.after = PageEnd(poll.after)]
        BY <3>3 DEF PollPage
      <4> QED
        BY <1>0, <4>1 DEF StreamTypeOK
    <3> QED
      BY <1>3, <2>2, <3>1, <3>2, <3>3, CursorMoves
  <2>3. CASE view' = view
    <3>0. view = total
      BY <2>1, <2>3
    <3>1. told \/ missed \/ link # Idle0 \/ poll.at \in {"fetch", "gaveup"}
      BY <1>0, <3>0 DEF EndSeen
    <3>2. CASE UNCHANGED <<link, poll>>
      BY <2>0, <3>1, <3>2
    <3>3. CASE RenderRunView(view)
      BY <3>0, <3>3, RenderMoves
    <3>4. CASE Follow \/ AppendEvent \/ Connect \/ PollSseStep \/ FrameArrives \/ StreamCloses
      BY <3>2, <3>4 DEF Follow, AppendEvent, Connect, PollSseStep, FrameArrives, StreamCloses,
         readVars
    <3>5. CASE ApplyNext
      <4>1. poll' = poll /\ (link' = link \/ link'.event > view + 1)
        BY <3>5 DEF ApplyNext
      <4>2. link' # link => link' # Idle0
        BY <1>0, <4>1, Bounds DEF Idle0
      <4> QED
        BY <3>2, <4>1, <4>2
    <3>6. CASE CatchUpPage
      BY <1>0, <3>6, CatchUpStays
    <3>7. CASE CatchUpEnds \/ PollRound
      BY <3>3, <3>7 DEF CatchUpEnds, PollRound
    <3>8. CASE CatchUpFails
      BY <3>8 DEF CatchUpFails
    <3>9. CASE FallbackTimer
      <4>1. link' = link /\ (poll' = poll \/ poll'.at = "fetch")
        BY <3>9 DEF FallbackTimer, readVars
      <4> QED
        BY <3>2, <4>1
    <3>10. CASE PollPage
      <4>1. poll.at = "fetch" /\ poll' = [poll EXCEPT !.after = PageEnd(poll.after)]
        BY <3>10 DEF PollPage
      <4> QED
        BY <1>0, <4>1 DEF StreamTypeOK
    <3>11. CASE PollFails
      <4>1. RenderRunView(view) \/ poll' = [poll EXCEPT !.at = "gaveup", !.streak = MaxStreak]
        BY <3>11 DEF PollFails
      <4>2. poll' = [poll EXCEPT !.at = "gaveup", !.streak = MaxStreak] => poll'.at = "gaveup"
        BY <1>0 DEF StreamTypeOK
      <4> QED
        BY <3>3, <4>1, <4>2
    <3>12. CASE PollAgain
      <4>1. poll.at = "wait" /\ link' = link
        BY <3>12 DEF PollAgain, readVars
      <4> QED
        BY <2>0, <3>1, <4>1
    <3>13. CASE HistoryArrives \/ BootAsks \/ BootSubscribes \/ ConnectionBreaks \/ HistoryFails
      BY <3>2, <3>13 DEF HistoryArrives, BootAsks, BootSubscribes, ConnectionBreaks, HistoryFails,
         readVars
    <3> QED
      BY <1>3, <3>4, <3>5, <3>6, <3>7, <3>8, <3>9, <3>10, <3>11, <3>12, <3>13
         DEF StreamNext, StreamStep, StreamFault
  <2> QED
    BY <2>2, <2>3
<1> QED
  BY <1>2, <1>3

(* A page lets go when it shows the end, or while a catch-up is still about *)
(* to show it.                                                              *)
LEMMA LetGoStep ==
  ASSUME StreamInv, StreamNext
  PROVE  LetGo'
<1>0. LetGo /\ EndSeen /\ OneReader /\ StreamTypeOK
  BY DEF StreamInv
<1>1. /\ total' = total /\ total \in Nat /\ view \in Nat /\ view <= log /\ log <= total
      /\ log \in Nat
  BY <1>0, Bounds, RunMoves
<1>2. CASE Revisit
  BY <1>2 DEF Revisit, LetGo
<1>3. CASE ~Revisit
  <2>0. (told => told') /\ (missed => missed')
    BY <1>3, ShownStays
  <2>1. SUFFICES ASSUME following' = "left"
                 PROVE  told' \/ missed' \/ (link' # Idle0 /\ view' = total)
    BY <1>1 DEF LetGo
  <2>2. view = total => view' = total
    <3>1. view <= view' /\ view' <= log' /\ view' \in Nat
      BY <1>3, CursorMoves
    <3>2. view = total => log' = log /\ log = total
      <4>1. view = total => log = total
        BY <1>1
      <4>2. log = total => log' = log
        BY RunMoves DEF Ended
      <4> QED
        BY <4>1, <4>2
    <3> QED
      BY <1>1, <3>1, <3>2
  <2>3. CASE following = "left"
    <3>1. told \/ missed \/ (link # Idle0 /\ view = total)
      BY <1>0, <2>3 DEF LetGo
    <3>2. view = total /\ link # Idle0 /\ link' = Idle0 => told' \/ missed'
      <4> SUFFICES ASSUME view = total, link # Idle0, link' = Idle0
                   PROVE  told' \/ missed'
        OBVIOUS
      <4>1. CASE CatchUpEnds
        <5>1. RenderRunView(view)
          BY <4>1 DEF CatchUpEnds
        <5> QED
          BY <5>1, RenderMoves
      <4>2. CASE CatchUpFails
        BY <4>2 DEF CatchUpFails
      <4>3. ~CatchUpPage
        BY <1>0, CatchUpStays
      <4>4. CASE link' = link
        BY <4>4
      <4>5. CASE ApplyNext
        BY <4>5 DEF ApplyNext
      <4>6. CASE Follow \/ AppendEvent \/ Connect \/ PollSseStep \/ FrameArrives \/ StreamCloses
                 \/ FallbackTimer \/ PollPage \/ PollRound \/ PollAgain
        BY <4>4, <4>6 DEF Follow, AppendEvent, Connect, PollSseStep, FrameArrives, StreamCloses,
           FallbackTimer, PollPage, PollRound, PollAgain, readVars
      <4>7. CASE HistoryArrives \/ BootAsks \/ BootSubscribes \/ ConnectionBreaks \/ HistoryFails
                 \/ PollFails
        BY <4>4, <4>7 DEF HistoryArrives, BootAsks, BootSubscribes, ConnectionBreaks,
           HistoryFails, PollFails, readVars
      <4> QED
        BY <1>3, <4>1, <4>2, <4>3, <4>5, <4>6, <4>7 DEF StreamNext, StreamStep, StreamFault
    <3> QED
      BY <2>0, <2>2, <3>1, <3>2
  <2>4. CASE following # "left"
    <3>1. CASE StreamCloses \/ ConnectionBreaks
      <4>1. conn = "open" /\ OnError /\ UNCHANGED <<view, link>>
        BY <3>1 DEF StreamCloses, ConnectionBreaks, readVars
      <4>2. view = total
        BY <2>1, <2>4, <4>1 DEF OnError, Terminal
      <4>3. poll.at = "off"
        BY <1>0, <4>1 DEF OneReader
      <4>4. told \/ missed \/ link # Idle0
        BY <1>0, <4>2, <4>3 DEF EndSeen
      <4> QED
        BY <2>0, <4>1, <4>2, <4>4
    <3>2. ASSUME NEW v, RenderRunView(v)
          PROVE  told'
      <4>1. v = total
        BY <2>1, <2>4, <3>2, RenderMoves
      <4> QED
        BY <3>2, <4>1, RenderMoves
    <3>3. CASE ApplyNext
      <4>1. RenderRunView(Head(queue))
        BY <2>1, <2>4, <3>3 DEF ApplyNext
      <4> QED
        BY <3>2, <4>1
    <3>4. CASE CatchUpEnds \/ PollRound \/ PollFails
      <4>1. RenderRunView(view)
        BY <2>1, <2>4, <3>4 DEF CatchUpEnds, PollRound, PollFails
      <4> QED
        BY <3>2, <4>1
    <3>5. ~(Follow \/ AppendEvent \/ Connect \/ PollSseStep \/ FrameArrives \/ CatchUpPage
            \/ CatchUpFails \/ FallbackTimer \/ PollPage \/ PollAgain \/ HistoryArrives
            \/ HistoryFails \/ BootAsks \/ BootSubscribes)
      BY <2>1, <2>4 DEF Follow, AppendEvent, Connect, PollSseStep, FrameArrives, CatchUpPage,
         CatchUpFails, FallbackTimer, PollPage, PollAgain, HistoryArrives, HistoryFails, BootAsks,
         BootSubscribes
    <3> QED
      BY <1>3, <3>1, <3>3, <3>4, <3>5 DEF StreamNext, StreamStep, StreamFault
  <2> QED
    BY <2>3, <2>4
<1> QED
  BY <1>2, <1>3

-----------------------------------------------------------------------------
(* Types.                                                                   *)

(* The connection's cursors never pass the journal.                         *)
LEMMA ConnTyped ==
  ASSUME StreamInv, StreamNext
  PROVE  /\ received' \in Nat /\ received' <= log /\ pushed' \in Nat /\ pushed' <= log
<1> USE DEF connVars
<1>0. StreamTypeOK
  BY DEF StreamInv
<1>1. /\ log \in Nat /\ saved \in Nat /\ saved <= log
      /\ received \in Nat /\ received <= log /\ pushed \in Nat /\ pushed <= log
  BY <1>0, Bounds
<1>2. CASE UNCHANGED <<received, pushed>>
  BY <1>1, <1>2
<1>3. CASE Subscribe
  BY <1>1, <1>3 DEF Subscribe
<1>4. CASE Connect
  BY <1>1, <1>4 DEF Connect
<1>5. CASE PollSseStep
  <2>1. pushed < log /\ pushed' = PageEnd(pushed) /\ received' = received
    BY <1>5 DEF PollSseStep
  <2> QED
    BY <1>0, <1>1, <2>1, PageFacts
<1>6. CASE FrameArrives
  <2>1. received < pushed /\ received' = received + 1 /\ pushed' = pushed
    BY <1>6 DEF FrameArrives
  <2> QED
    BY <1>1, <2>1
<1>7. CASE StreamCloses \/ ConnectionBreaks
  BY <1>2, <1>7 DEF StreamCloses, ConnectionBreaks, OnError, FinishActiveRun
<1>8. ASSUME NEW v, RenderRunView(v)
      PROVE  UNCHANGED <<received, pushed>>
  BY <1>8, RenderMoves
<1>9. CASE ApplyNext
  BY <1>2, <1>8, <1>9 DEF ApplyNext
<1>10. CASE CatchUpEnds \/ PollRound \/ PollFails
  BY <1>2, <1>8, <1>10 DEF CatchUpEnds, PollRound, PollFails
<1>11. CASE Revisit
  BY <1>1, <1>11 DEF Revisit
<1>12. CASE Follow \/ BootSubscribes
  BY <1>2, <1>3, <1>12 DEF Follow, BootSubscribes
<1>13. CASE AppendEvent \/ CatchUpPage \/ CatchUpFails \/ FallbackTimer \/ PollPage \/ PollAgain
            \/ HistoryArrives \/ HistoryFails \/ BootAsks
  BY <1>2, <1>13 DEF AppendEvent, CatchUpPage, CatchUpFails, FallbackTimer, PollPage, PollAgain,
     HistoryArrives, HistoryFails, BootAsks
<1> QED
  BY <1>4, <1>5, <1>6, <1>7, <1>9, <1>10, <1>11, <1>12, <1>13 DEF StreamNext, StreamStep, StreamFault

(* The reducer's queue holds events that were written.                      *)
LEMMA QueueTyped ==
  ASSUME StreamInv, StreamNext
  PROVE  queue' \in Seq(1 .. log')
<1> USE DEF readVars
<1>0. StreamTypeOK
  BY DEF StreamInv
<1>1. queue \in Seq(1 .. log)
  BY <1>0, Zenon DEF StreamTypeOK
<1>2. log \in Nat /\ (log' = log \/ log' = log + 1) /\ received \in Nat /\ pushed \in Nat
      /\ pushed <= log
  BY <1>0, RunMoves, Bounds
<1>3. CASE queue' = queue
  <2>1. 1 .. log \subseteq 1 .. log'
    BY <1>2
  <2>2. Seq(1 .. log) \subseteq Seq(1 .. log')
    BY <2>1, SeqMonotonic, Zenon
  <2> QED
    BY <1>1, <1>3, <2>2
<1>4. CASE FrameArrives
  <2>1. queue' = Append(queue, received + 1) /\ received < pushed /\ log' = log
    BY <1>4 DEF FrameArrives, runVars
  <2>2. received + 1 \in 1 .. log
    BY <1>2, <2>1
  <2> QED
    BY <1>1, <2>1, <2>2
<1>5. CASE ApplyNext
  <2>1. queue # << >> /\ queue' = Tail(queue) /\ log' = log
    BY <1>5 DEF ApplyNext, runVars
  <2> QED
    BY <1>0, <2>1, HeadIsWritten
<1>6. CASE Revisit
  BY <1>6 DEF Revisit
<1>7. CASE Follow \/ AppendEvent \/ Connect \/ PollSseStep \/ StreamCloses \/ CatchUpPage
           \/ CatchUpEnds \/ CatchUpFails \/ FallbackTimer \/ PollPage \/ PollRound \/ PollFails
           \/ PollAgain \/ HistoryArrives \/ HistoryFails \/ BootAsks \/ BootSubscribes
           \/ ConnectionBreaks
  BY <1>3, <1>7 DEF Follow, AppendEvent, Connect, PollSseStep, StreamCloses, CatchUpPage,
     CatchUpEnds, CatchUpFails, FallbackTimer, PollPage, PollRound, PollFails, PollAgain,
     HistoryArrives, HistoryFails, BootAsks, BootSubscribes, ConnectionBreaks
<1> QED
  BY <1>4, <1>5, <1>6, <1>7 DEF StreamNext, StreamStep, StreamFault

(* The catch-up.                                                            *)
LEMMA LinkTyped ==
  ASSUME StreamInv, StreamNext
  PROVE  link' \in [event : Events, after : Events]
<1> USE DEF readVars
<1>0. StreamTypeOK
  BY DEF StreamInv
<1>1. link \in [event : Events, after : Events]
  BY <1>0, Zenon DEF StreamTypeOK
<1>2. 0 \in Events /\ \A n \in Nat : n <= log => n \in Events
  BY <1>0, Bounds DEF Events
<1>3. Idle0 \in [event : Events, after : Events]
  BY <1>2 DEF Idle0
<1>4. CASE ApplyNext
  <2>1. CASE link' = link
    BY <1>1, <2>1
  <2>2. CASE link' # link
    <3>1. queue # << >> /\ link' = [event |-> Head(queue), after |-> view]
      BY <1>4, <2>2 DEF ApplyNext
    <3>2. Head(queue) \in 1 .. log
      BY <1>0, <3>1, HeadIsWritten
    <3>3. Head(queue) \in Events /\ view \in Events
      BY <1>0, <1>2, <3>2, Bounds
    <3> QED
      BY <3>1, <3>3
  <2> QED
    BY <2>1, <2>2
<1>5. CASE CatchUpPage
  BY <1>0, <1>5, CatchUpStays
<1>6. CASE CatchUpEnds \/ CatchUpFails \/ Revisit
  BY <1>3, <1>6 DEF CatchUpEnds, CatchUpFails, Revisit
<1>7. CASE Follow \/ AppendEvent \/ Connect \/ PollSseStep \/ FrameArrives \/ StreamCloses
           \/ FallbackTimer \/ PollPage \/ PollRound \/ PollFails
           \/ PollAgain \/ HistoryArrives \/ HistoryFails \/ BootAsks \/ BootSubscribes
           \/ ConnectionBreaks
  BY <1>1, <1>7 DEF Follow, AppendEvent, Connect, PollSseStep, FrameArrives, StreamCloses,
     FallbackTimer, PollPage, PollRound, PollFails, PollAgain,
     HistoryArrives, HistoryFails, BootAsks, BootSubscribes, ConnectionBreaks
<1> QED
  BY <1>4, <1>5, <1>6, <1>7 DEF StreamNext, StreamStep, StreamFault

Polls == [at : {"off", "fetch", "wait", "gaveup"}, after : Events, streak : 0 .. MaxStreak]

(* The fallback poll.                                                       *)
LEMMA PollTyped ==
  ASSUME StreamInv, StreamNext
  PROVE  poll' \in Polls
<1>0. StreamTypeOK
  BY DEF StreamInv
<1>1. poll \in Polls
  BY <1>0, Zenon DEF StreamTypeOK, Polls
<1>2. /\ 0 \in Events /\ \A n \in Nat : n <= log => n \in Events
      /\ view \in Nat /\ view <= log /\ poll.after \in Nat
      /\ MaxStreak \in Nat \ {0}
  BY <1>0, Bounds, StreamAssumption DEF Events
<1>a. /\ 0 \in 0 .. MaxStreak /\ MaxStreak \in 0 .. MaxStreak
      /\ 0 \in Events /\ view \in Events
  BY <1>2
<1>3. CASE FallbackTimer
  <2>1. poll' = poll \/ poll' = [at |-> "fetch", after |-> view, streak |-> 0]
    BY <1>3 DEF FallbackTimer, RoundStart
  <2> QED
    BY <1>1, <1>2, <2>1 DEF Polls
<1>4. CASE PollPage
  <2>1. poll.after < log /\ poll' = [poll EXCEPT !.after = PageEnd(poll.after)]
    BY <1>4 DEF PollPage
  <2>2. PageEnd(poll.after) \in Events
    BY <1>0, <1>2, <2>1, PageFacts
  <2> QED
    BY <1>1, <2>1, <2>2 DEF Polls
<1>5. CASE PollRound
  <2>1. \E a \in {"off", "wait"} : poll' = [poll EXCEPT !.at = a, !.streak = 0]
    BY <1>5 DEF PollRound
  <2> QED
    BY <1>1, <1>a, <2>1 DEF Polls
<1>6. CASE PollFails
  <2>1. CASE poll' = [poll EXCEPT !.at = "gaveup", !.streak = MaxStreak]
    BY <1>1, <1>a, <2>1 DEF Polls
  <2>2. ASSUME NEW a \in {"off", "wait"}, ~(poll.streak + 1 >= MaxStreak),
               poll' = [poll EXCEPT !.at = a, !.streak = poll.streak + 1]
        PROVE  poll' \in Polls
    <3>1. poll.streak + 1 \in 0 .. MaxStreak
      BY <1>1, <1>2, <2>2 DEF Polls
    <3> QED
      BY <1>1, <2>2, <3>1 DEF Polls
  <2> QED
    BY <1>6, <2>1, <2>2 DEF PollFails
<1>7. CASE PollAgain
  <2>1. poll' = [poll EXCEPT !.at = "fetch", !.after = view] \/ poll' = Quiet
    BY <1>7 DEF PollAgain, RoundStart
  <2>2. Quiet \in Polls
    BY <1>a DEF Polls, Quiet
  <2>3. [poll EXCEPT !.at = "fetch", !.after = view] \in Polls
    BY <1>1, <1>a DEF Polls
  <2> QED
    BY <2>1, <2>2, <2>3
<1>8. CASE Revisit
  BY <1>2, <1>8 DEF Revisit, Quiet, Polls
<1>9. CASE Follow \/ AppendEvent \/ Connect \/ PollSseStep \/ FrameArrives \/ StreamCloses
           \/ ApplyNext \/ CatchUpPage \/ CatchUpEnds \/ CatchUpFails
           \/ HistoryArrives \/ HistoryFails \/ BootAsks \/ BootSubscribes
           \/ ConnectionBreaks
  BY <1>1, <1>9 DEF Follow, AppendEvent, Connect, PollSseStep, FrameArrives, StreamCloses,
     ApplyNext, CatchUpPage, CatchUpEnds, CatchUpFails,
     HistoryArrives, HistoryFails, BootAsks, BootSubscribes, ConnectionBreaks
<1> QED
  BY <1>3, <1>4, <1>5, <1>6, <1>7, <1>8, <1>9 DEF StreamNext, StreamStep, StreamFault

(* The page's places and marks.                                             *)
LEMMA PlacesTyped ==
  ASSUME StreamInv, StreamNext
  PROVE  /\ following' \in {"none", "active", "left"}
         /\ booting' \in {"", "ask", "history"}
         /\ conn' \in {"none", "connecting", "open"}
         /\ opened' \in BOOLEAN /\ timer' \in BOOLEAN /\ missed' \in BOOLEAN
<1> USE DEF connVars
<1>0. /\ following \in {"none", "active", "left"} /\ booting \in {"", "ask", "history"}
      /\ conn \in {"none", "connecting", "open"}
      /\ opened \in BOOLEAN /\ timer \in BOOLEAN /\ missed \in BOOLEAN
  BY Zenon DEF StreamInv, StreamTypeOK
<1>1. ASSUME NEW v, RenderRunView(v)
      PROVE  /\ conn' \in {conn, "none"} /\ following' \in {following, "left"}
             /\ timer' \in {timer, FALSE} /\ opened' = opened
  BY <1>1, RenderMoves
<1>2. /\ following' \in {following, "none", "active", "left"}
      /\ booting' \in {booting, "", "ask", "history"}
      /\ conn' \in {conn, "none", "connecting", "open"}
      /\ opened' \in {opened, TRUE, FALSE} /\ timer' \in {timer, TRUE, FALSE}
      /\ missed' \in {missed, TRUE, FALSE}
  <2>1. CASE Follow \/ AppendEvent \/ Connect \/ PollSseStep \/ FrameArrives
    BY <2>1 DEF Follow, AppendEvent, Connect, PollSseStep, FrameArrives, Subscribe
  <2>2. CASE StreamCloses \/ ConnectionBreaks
    BY <2>2 DEF StreamCloses, ConnectionBreaks, OnError, FinishActiveRun
  <2>3. CASE ApplyNext
    <3>1. /\ UNCHANGED <<booting, missed>>
          /\ UNCHANGED <<connVars, following>> \/ RenderRunView(Head(queue))
      BY <2>3 DEF ApplyNext
    <3> QED
      BY <1>1, <3>1
  <2>4. CASE CatchUpEnds \/ PollRound \/ PollFails
    <3>1. /\ UNCHANGED <<booting, missed>>
          /\ UNCHANGED <<connVars, following>> \/ RenderRunView(view)
      BY <2>4 DEF CatchUpEnds, PollRound, PollFails
    <3> QED
      BY <1>1, <3>1
  <2>5. CASE CatchUpPage \/ CatchUpFails \/ FallbackTimer \/ PollPage \/ PollAgain
             \/ HistoryArrives \/ HistoryFails
    BY <2>5 DEF CatchUpPage, CatchUpFails, FallbackTimer, PollPage, PollAgain, HistoryArrives,
       HistoryFails
  <2>6. CASE Revisit \/ BootAsks \/ BootSubscribes
    BY <2>6 DEF Revisit, BootAsks, BootSubscribes, Subscribe
  <2> QED
    BY <2>1, <2>2, <2>3, <2>4, <2>5, <2>6 DEF StreamNext, StreamStep, StreamFault
<1> QED
  BY <1>0, <1>2

(* The bounds of the model.                                                 *)
LEMMA SpentTyped ==
  ASSUME StreamInv, StreamNext
  PROVE  breaks' \in 0 .. MaxBreaks /\ faults' \in 0 .. MaxFaults /\ visits' \in 0 .. MaxVisits
<1>0. /\ breaks \in 0 .. MaxBreaks /\ faults \in 0 .. MaxFaults /\ visits \in 0 .. MaxVisits
      /\ MaxBreaks \in Nat /\ MaxFaults \in Nat /\ MaxVisits \in Nat
  BY StreamAssumption, Zenon DEF StreamInv, StreamTypeOK
<1>1. /\ breaks' = breaks \/ (breaks < MaxBreaks /\ breaks' = breaks + 1)
      /\ faults' = faults \/ (faults < MaxFaults /\ faults' = faults + 1)
      /\ visits' = visits \/ (visits < MaxVisits /\ visits' = visits + 1)
  <2> USE DEF spentVars
  <2>1. CASE Follow \/ AppendEvent \/ Connect \/ PollSseStep \/ FrameArrives \/ StreamCloses
             \/ ApplyNext \/ CatchUpPage \/ CatchUpEnds \/ FallbackTimer \/ PollPage \/ PollRound
             \/ PollAgain \/ HistoryArrives \/ BootAsks
    BY <2>1 DEF Follow, AppendEvent, Connect, PollSseStep, FrameArrives, StreamCloses,
       ApplyNext, CatchUpPage, CatchUpEnds, FallbackTimer, PollPage, PollRound, PollAgain,
       HistoryArrives, BootAsks
  <2>2. CASE BootSubscribes \/ StreamFault
    BY <2>2 DEF BootSubscribes, StreamFault, ConnectionBreaks, CatchUpFails, PollFails,
       HistoryFails, Revisit
  <2> QED
    BY <2>1, <2>2 DEF StreamNext, StreamStep
<1> QED
  BY <1>0, <1>1

LEMMA StreamTyped ==
  ASSUME StreamInv, StreamNext
  PROVE  StreamTypeOK'
<1>0. StreamTypeOK
  BY DEF StreamInv
<1>1. /\ total' \in 2 .. MaxEvents /\ ending' \in {"completed", "failed"}
  <2>1. total \in 2 .. MaxEvents /\ ending \in {"completed", "failed"}
    BY <1>0, Zenon DEF StreamTypeOK
  <2> QED
    BY <2>1, RunMoves
<1>2. log' \in 0 .. total'
  <2>1. log \in Nat /\ total \in Nat /\ log <= total
    BY <1>0, Bounds
  <2>2. total' = total /\ (log' = log \/ (log' = log + 1 /\ log # total))
    BY RunMoves DEF Ended
  <2> QED
    BY <2>1, <2>2
<1>3. saved' \in 0 .. log' /\ view' \in 0 .. log' /\ received' \in 0 .. log' /\ pushed' \in 0 .. log'
  <2>1. log \in Nat /\ (log' = log \/ log' = log + 1)
    BY <1>0, Bounds, RunMoves
  <2>2. /\ view' \in Nat /\ view' <= log' /\ saved' \in Nat /\ saved' <= log'
        /\ received' \in Nat /\ received' <= log /\ pushed' \in Nat /\ pushed' <= log
    BY CursorMoves, ConnTyped
  <2> QED
    BY <2>1, <2>2
<1>4. copies' \in Nat
  <2>1. copies' = 0 \/ copies' = 1
    BY ListStep, Zenon DEF Listed
  <2> QED
    BY <2>1
<1>5. /\ known' \in BOOLEAN /\ told' \in BOOLEAN /\ claimed' \in BOOLEAN /\ refresh' \in BOOLEAN
      /\ missed' \in BOOLEAN
  BY ListStep, PlacesTyped
<1>6. {saved, view, received, pushed}' \subseteq 0 .. log'
  BY <1>3, Zenon
<1>7. {known, told, claimed, refresh, missed}' \subseteq BOOLEAN
  BY <1>5, Zenon
<1> QED
  BY <1>1, <1>2, <1>4, <1>6, <1>7, QueueTyped, LinkTyped, PollTyped, PlacesTyped, SpentTyped, Zenon
     DEF StreamTypeOK, Polls

-----------------------------------------------------------------------------
(* The theorems.                                                            *)

LEMMA StreamStarts ==
  ASSUME StreamInit
  PROVE  StreamInv
<1>0. /\ total \in 2 .. MaxEvents /\ ending \in {"completed", "failed"} /\ log = 1
      /\ saved = 0 /\ view = 0 /\ received = 0 /\ pushed = 0 /\ queue = << >>
      /\ link = Idle0 /\ poll = Quiet /\ copies = 0
      /\ breaks = 0 /\ faults = 0 /\ visits = 0
  BY Zenon DEF StreamInit
<1>1. StreamTypeOK
  <2>1. log \in 0 .. total /\ 0 \in 0 .. log
    BY <1>0, StreamAssumption
  <2>2. {saved, view, received, pushed} \subseteq 0 .. log
    BY <1>0, <2>1
  <2>3. 0 \in Events /\ 0 \in 0 .. MaxStreak
    BY StreamAssumption DEF Events
  <2>4. /\ link \in [event : Events, after : Events]
        /\ poll \in [at : {"off", "fetch", "wait", "gaveup"}, after : Events,
                     streak : 0 .. MaxStreak]
    BY <1>0, <2>3 DEF Idle0, Quiet
  <2>5. {known, told, claimed, refresh, missed} \subseteq BOOLEAN
        /\ opened \in BOOLEAN /\ timer \in BOOLEAN
    BY Zenon DEF StreamInit
  <2>6. queue \in Seq(1 .. log)
    BY <1>0
  <2>7. breaks \in 0 .. MaxBreaks /\ faults \in 0 .. MaxFaults /\ visits \in 0 .. MaxVisits
        /\ copies \in Nat
    BY <1>0, StreamAssumption
  <2>8. /\ following \in {"none", "active", "left"} /\ booting \in {"", "ask", "history"}
        /\ conn \in {"none", "connecting", "open"}
    BY Zenon DEF StreamInit
  <2> QED
    BY <1>0, <2>1, <2>2, <2>4, <2>5, <2>6, <2>7, <2>8, Zenon DEF StreamTypeOK
<1>2. Listed /\ EndShown /\ OneReader /\ Untouched /\ LetGo /\ (booting # "" => ~known)
  BY DEF StreamInit, Listed, EndShown, OneReader, Untouched, LetGo, Quiet, Idle0
<1>3. EndSeen
  BY <1>0 DEF EndSeen
<1> QED
  BY <1>1, <1>2, <1>3 DEF StreamInv

LEMMA StreamSteps ==
  ASSUME StreamInv, [StreamNext]_streamVars
  PROVE  StreamInv'
<1>1. CASE StreamNext
  BY <1>1, StreamTyped, ListStep, ReadersStep, SeenStep, LetGoStep, Zenon DEF StreamInv
<1>2. CASE UNCHANGED streamVars
  <2>1. /\ UNCHANGED <<total, ending, log, copies, known, told, claimed, refresh>>
        /\ UNCHANGED <<conn, received, pushed, opened, timer, view, saved, queue, link>>
        /\ UNCHANGED <<breaks, faults, visits, following, booting, poll, missed>>
    BY <1>2 DEF streamVars, runVars, listVars, connVars, readVars, spentVars
  <2> QED
    BY ZenonT(60), <2>1 DEF StreamInv, StreamTypeOK, Listed, EndShown, EndSeen, LetGo, OneReader,
       Untouched, Answered, Ended
<1> QED
  BY <1>1, <1>2

(* The page's list, its cursors and its readers stay consistent through     *)
(* broken connections, failed reads, replayed frames and reloads.           *)
THEOREM StreamInvariance == StreamSpec => []StreamInv
<1>1. StreamInit => StreamInv
  BY StreamStarts
<1>2. StreamInv /\ [StreamNext]_streamVars => StreamInv'
  BY StreamSteps
<1> QED
  BY <1>1, <1>2, PTL DEF StreamSpec

(* Every variable keeps its type: no cursor passes the end of the journal.  *)
THEOREM StreamTypeCorrect == StreamSpec => []StreamTypeOK
<1>1. StreamInv => StreamTypeOK
  BY DEF StreamInv
<1> QED
  BY <1>1, StreamInvariance, PTL

(* The chat page shows a Run's answer at most once, frees the composer only *)
(* when the Run has ended, and a page whose catch-ups succeeded does not    *)
(* let go of a Run without having shown how it ended.                       *)
THEOREM StreamSound == StreamSpec => []StreamSafe
<1>1. StreamInv => StreamSafe
  <2> SUFFICES ASSUME StreamInv PROVE StreamSafe
    OBVIOUS
  <2>1. AnswerOnce
    <3>1. copies = 0 \/ copies = 1
      BY Zenon DEF StreamInv, Listed
    <3> QED
      BY <3>1 DEF AnswerOnce
  <2>2. ReleasedAtEnd
    BY DEF StreamInv, EndShown, ReleasedAtEnd
  <2>3. ReleasedIsShown
    BY DEF StreamInv, LetGo, EndShown, Listed, Answered, ReleasedIsShown
  <2> QED
    BY <2>1, <2>2, <2>3 DEF StreamSafe
<1> QED
  BY <1>1, StreamInvariance, PTL

=============================================================================
