---------------------------- MODULE AgentStrategy ----------------------------
(***************************************************************************)
(* The strategy of a chat Run (createAgentStrategy in                       *)
(* packages/kernel/src/agent.ts): recall, then at most MaxSteps model       *)
(* steps, each of which fails the Run, runs tools through the broker, is    *)
(* sent back once for repair, or yields the answer.                         *)
(*                                                                          *)
(* One Run.  The engine may request a cancel, abort the strategy's signal   *)
(* and, after its grace, settle the Run under it.  The gateway answers what *)
(* it likes, when it likes, or never; the step's deadline and the Run's     *)
(* wall are clocks that may pass at any time, before or after their timers  *)
(* fire.  What the model writes is abstracted to how the step is classified *)
(* and which references an answer cites; what a tool returns to the         *)
(* references in it and to whether the framed feedback fits a message.      *)
(***************************************************************************)
EXTENDS Naturals, Sequences, FiniteSets

CONSTANTS
  Refs,             \* references a tool may deliver or an answer cite
  Memories,         \* memory snippets recall may expose, cited alike
  MaxSteps,         \* AGENT_MAX_STEPS
  MaxCalls,         \* bound: tool calls of one step
  ToolConcurrency,  \* AGENT_TOOL_CONCURRENCY
  MaxRecordFaults   \* bound: failed writes of the execution record

ASSUME AgentAssumption ==
  /\ MaxSteps \in Nat \ {0}
  /\ MaxCalls \in Nat \ {0}
  /\ ToolConcurrency \in Nat \ {0}
  /\ MaxRecordFaults \in Nat
  /\ Refs \intersect Memories = {}

VARIABLES
  stage,        \* where the strategy is
  step,         \* the model step
  tries,        \* gateway calls of the step
  repairUsed,
  response,     \* the delivered response under judgement
  calls,        \* the step's tool calls: [state, refs, fits]
  phaseError,   \* the halt a tool worker saw first
  owed,         \* tool calls in the conversation without their reply
  citable,      \* grants and exposures of this Run
  shown,        \* ghost: references whose content the model was sent
  rowsOf,       \* model_calls by step: the outcomes recorded
  eventsOf,     \* model.step events by step
  outcome,      \* how the strategy ended
  citesOut,     \* the citations of the accepted answer
  status,       \* the Run in the store
  aborted,      \* the engine's signal
  wallPast, wallFired, stepPast,  \* the clocks and the wall's signal
  recordFaults,
  rawLost       \* ghost: the raw response could not be recorded

modelVars == <<step, tries, repairUsed, response>>
toolVars == <<calls, phaseError, owed>>
auditVars == <<rowsOf, eventsOf>>
evidenceVars == <<citable, shown>>
endVars == <<outcome, citesOut>>
outsideVars == <<status, aborted, wallPast, wallFired, stepPast>>
recordVars == <<recordFaults, rawLost>>
agentVars == <<stage, modelVars, toolVars, auditVars, evidenceVars, endVars,
               outsideVars, recordVars>>

Steps == 1 .. MaxSteps
Citable == Refs \union Memories
Kinds == {"tools", "answer", "invalid", "long"}
Silence == [kind |-> "none", cut |-> FALSE, cites |-> {}, lost |-> FALSE]
CallState == {"queued", "running", "ok", "failed"}

(* The values the variables take.                                           *)
AgentTypeOK ==
  /\ stage \in {"prepare", "recall", "lessons", "top", "calling", "waiting", "judging",
                "tools", "voice", "ended"}
  /\ step \in 0 .. MaxSteps
  /\ tries \in 0 .. 2
  /\ repairUsed \in BOOLEAN
  /\ response \in [kind : Kinds \union {"none"}, cut : BOOLEAN, cites : SUBSET Citable,
                   lost : BOOLEAN]
  /\ calls \in Seq([state : CallState, refs : SUBSET Refs, fits : BOOLEAN])
  /\ phaseError \in {"", "cancelled", "failed"}
  /\ owed \in 0 .. MaxCalls
  /\ citable \subseteq Citable
  /\ shown \subseteq Citable
  /\ rowsOf \in [Steps -> Seq({"completed", "failed", "timeout", "cancelled"})]
  /\ eventsOf \in [Steps -> Seq({"started", "completed", "failed"})]
  /\ outcome \in {"", "answer", "cancelled", "failed", "invalid"}
  /\ citesOut \subseteq Citable
  /\ status \in {"running", "cancel_requested", "terminal"}
  /\ {aborted, wallPast, wallFired, stepPast, rawLost} \subseteq BOOLEAN
  /\ recordFaults \in 0 .. MaxRecordFaults

AgentInit ==
  /\ stage = "prepare"
  /\ step = 0
  /\ tries = 0
  /\ repairUsed = FALSE
  /\ response = Silence
  /\ calls = << >>
  /\ phaseError = ""
  /\ owed = 0
  /\ citable = {}
  /\ shown = {}
  /\ rowsOf = [s \in Steps |-> << >>]
  /\ eventsOf = [s \in Steps |-> << >>]
  /\ outcome = ""
  /\ citesOut = {}
  /\ status = "running"
  /\ aborted = FALSE
  /\ wallPast = FALSE
  /\ wallFired = FALSE
  /\ stepPast = FALSE
  /\ recordFaults = 0
  /\ rawLost = FALSE

-----------------------------------------------------------------------------
(* Outside the strategy.                                                    *)

CancelCommits ==
  /\ status = "running"
  /\ status' = "cancel_requested"
  /\ UNCHANGED <<aborted, wallPast, wallFired, stepPast>>

(* The engine aborts after a cancel, and at its own stop.                   *)
SignalAborts ==
  /\ ~ aborted
  /\ aborted' = TRUE
  /\ UNCHANGED <<status, wallPast, wallFired, stepPast>>

(* An aborted strategy that outstays the grace loses its Run.               *)
RunSettledUnder ==
  /\ aborted
  /\ status # "terminal"
  /\ status' = "terminal"
  /\ UNCHANGED <<aborted, wallPast, wallFired, stepPast>>

(* A step's deadline never lies beyond the wall.                            *)
StepDeadlinePasses ==
  /\ stage \in {"calling", "waiting"}
  /\ ~ stepPast
  /\ stepPast' = TRUE
  /\ UNCHANGED <<status, aborted, wallPast, wallFired>>

WallPasses ==
  /\ ~ wallPast
  /\ wallPast' = TRUE
  /\ stepPast' = TRUE
  /\ UNCHANGED <<status, aborted, wallFired>>

(* expireWall, by the timer.  The timer is cleared once an answer stands.   *)
WallTimer ==
  /\ wallPast
  /\ ~ wallFired
  /\ stage # "voice"
  /\ wallFired' = TRUE
  /\ UNCHANGED <<status, aborted, wallPast, stepPast>>

inStrategyVars == <<stage, modelVars, toolVars, auditVars, evidenceVars, endVars, recordVars>>

StepTimerRuns == StepDeadlinePasses /\ UNCHANGED inStrategyVars

OutsideStep ==
  /\ stage # "ended"
  /\ \/ CancelCommits
     \/ SignalAborts
     \/ RunSettledUnder
     \/ StepDeadlinePasses
     \/ WallPasses
     \/ WallTimer
  /\ UNCHANGED inStrategyVars

-----------------------------------------------------------------------------
(* How the strategy ends, and the checks it makes on its way.               *)

End(how) ==
  /\ stage' = "ended"
  /\ outcome' = how
  /\ UNCHANGED citesOut

(* throwIfHalted: cancellation before the wall.                             *)
Halted == aborted \/ wallPast \/ wallFired
HaltedAs == IF aborted THEN "cancelled" ELSE "failed"

(* classifyLateSuccess: what a settled call has become by the time it is    *)
(* looked at.                                                               *)
LateAs ==
  IF aborted \/ status # "running" THEN "cancelled"
  ELSE IF wallFired \/ wallPast \/ stepPast THEN "timeout" ELSE "ontime"

(* recordModelCall always lands; appendModelStepEvent is refused by a Run   *)
(* that is terminal.                                                        *)
AppendRow(how) == rowsOf' = [rowsOf EXCEPT ![step] = Append(@, how)]
AppendStepEvent(type) ==
  eventsOf' = IF status = "terminal" THEN eventsOf
              ELSE [eventsOf EXCEPT ![step] = Append(@, type)]

-----------------------------------------------------------------------------
(* Before the first step.                                                   *)

(* Synchronous preparation, then the recheck before anything is called.     *)
Prepare ==
  /\ stage = "prepare"
  /\ IF Halted
       THEN End(HaltedAs)
       ELSE stage' = "recall" /\ UNCHANGED endVars
  /\ UNCHANGED <<modelVars, toolVars, auditVars, evidenceVars, outsideVars, recordVars>>

(* Recall exposes a prefix of what it found, each snippet before it joins   *)
(* the prompt; it fails open, and a halt during it ends the strategy.       *)
RecallReturns ==
  /\ stage = "recall"
  /\ \E found \in SUBSET Memories :
       /\ citable' = citable \union found
       /\ shown' = IF Halted THEN shown ELSE shown \union found
  /\ IF Halted
       THEN End(HaltedAs)
       ELSE stage' = "lessons" /\ UNCHANGED endVars
  /\ UNCHANGED <<modelVars, toolVars, auditVars, outsideVars, recordVars>>

LessonsReturn ==
  /\ stage = "lessons"
  /\ IF Halted
       THEN End(HaltedAs)
       ELSE stage' = "top" /\ UNCHANGED endVars
  /\ UNCHANGED <<modelVars, toolVars, auditVars, evidenceVars, outsideVars, recordVars>>

-----------------------------------------------------------------------------
(* A model step.                                                            *)

StopAtTop ==
  /\ stage = "top"
  /\ \/ /\ step = MaxSteps
        /\ End("invalid")
     \/ /\ step < MaxSteps
        /\ Halted \/ status # "running"
        /\ End(IF Halted THEN HaltedAs ELSE "cancelled")
  /\ UNCHANGED <<modelVars, toolVars, auditVars, evidenceVars, outsideVars, recordVars>>

(* The request is recorded before the step's started event and the call.    *)
(* A record that cannot be written fails the Run before either.             *)
BeginStep ==
  /\ stage = "top"
  /\ step < MaxSteps
  /\ ~ Halted
  /\ status = "running"
  /\ step' = step + 1
  /\ tries' = 1
  /\ stepPast' = FALSE
  /\ response' = Silence
  /\ \/ /\ stage' = "calling"
        /\ eventsOf' = [eventsOf EXCEPT ![step + 1] = Append(@, "started")]
        /\ UNCHANGED <<endVars, recordFaults>>
     \/ /\ recordFaults < MaxRecordFaults
        /\ recordFaults' = recordFaults + 1
        /\ End("failed")
        /\ UNCHANGED eventsOf
  /\ UNCHANGED <<repairUsed, toolVars, rowsOf, evidenceVars, rawLost,
                 status, aborted, wallPast, wallFired>>

(* A settled call that is not a response: one row, and one failed event     *)
(* unless it was cancelled.                                                 *)
AuditFailure(how) ==
  /\ AppendRow(how)
  /\ IF how = "cancelled" THEN UNCHANGED eventsOf ELSE AppendStepEvent("failed")

(* The private record of the outcome is tried first; its failure is raised  *)
(* after the audit.                                                         *)
RecordFails ==
  /\ recordFaults < MaxRecordFaults
  /\ recordFaults' = recordFaults + 1
  /\ UNCHANGED rawLost

StepFails(how) ==
  /\ AuditFailure(how)
  /\ \/ RecordFails /\ End("failed")
     \/ UNCHANGED recordVars /\ End(IF how = "cancelled" THEN "cancelled" ELSE "failed")
  /\ UNCHANGED <<modelVars, toolVars, evidenceVars, outsideVars>>

(* Mutant: a step has no timer of its own.                                  *)
CallCutByWallOnly ==
  /\ stage \in {"calling", "waiting"}
  /\ \/ aborted /\ StepFails("cancelled")
     \/ wallFired /\ StepFails("timeout")

(* The signal, the wall's signal or the step's timer ends the call first.   *)
CallCutShort ==
  /\ stage \in {"calling", "waiting"}
  /\ \/ aborted /\ StepFails("cancelled")
     \/ wallFired /\ StepFails("timeout")
     \/ stage = "calling" /\ stepPast /\ StepFails("timeout")

(* A connection-level failure before any delta is retried once, when the    *)
(* deadlines leave time for the wait.                                       *)
CallRefusedOnce ==
  /\ stage = "calling"
  /\ tries = 1
  /\ ~ Halted /\ ~ stepPast
  /\ stage' = "waiting"
  /\ UNCHANGED <<modelVars, toolVars, auditVars, evidenceVars, endVars, outsideVars, recordVars>>

RetryCall ==
  /\ stage = "waiting"
  /\ ~ aborted
  /\ IF wallFired \/ wallPast \/ stepPast
       THEN StepFails("timeout")
       ELSE /\ stage' = "calling"
            /\ tries' = tries + 1
            /\ UNCHANGED <<step, repairUsed, response, toolVars, auditVars, evidenceVars,
                           endVars, outsideVars, recordVars>>

(* Any other failure of the gateway, its own timeout and a response that    *)
(* breaks a bound included.                                                 *)
CallFails ==
  /\ stage = "calling"
  /\ CASE aborted -> StepFails("cancelled")
       [] ~ aborted /\ (wallFired \/ wallPast) -> StepFails("timeout")
       [] OTHER -> StepFails("failed") \/ StepFails("timeout")

(* The raw response could not be recorded: the error leaves at once.        *)
RawRecordFails ==
  /\ stage = "calling"
  /\ recordFaults < MaxRecordFaults
  /\ ~ Halted
  /\ recordFaults' = recordFaults + 1
  /\ rawLost' = TRUE
  /\ End("failed")
  /\ UNCHANGED <<modelVars, toolVars, auditVars, evidenceVars, outsideVars>>

(* Arguments of answer.submit the gateway could not read: audited, then     *)
(* the one repair.                                                          *)
AnswerUnreadable ==
  /\ stage = "calling"
  /\ ~ Halted
  /\ AuditFailure("failed")
  /\ \/ RecordFails /\ End("failed") /\ UNCHANGED repairUsed
     \/ /\ UNCHANGED recordVars
        /\ IF repairUsed
             THEN End("invalid") /\ UNCHANGED repairUsed
             ELSE stage' = "top" /\ repairUsed' = TRUE /\ UNCHANGED endVars
  /\ UNCHANGED <<step, tries, response, toolVars, evidenceVars, outsideVars>>

(* A response: late ones are discarded, the others recorded and judged.     *)
(* A response record that cannot be written fails the Run after the audit.  *)
Deliver ==
  /\ stage = "calling"
  /\ IF LateAs # "ontime"
       THEN StepFails(LateAs)
       ELSE /\ stage' = "judging"
            /\ \E kind \in Kinds, cut \in BOOLEAN, lost \in BOOLEAN, cites \in SUBSET Citable :
                 /\ lost => recordFaults < MaxRecordFaults
                 /\ kind # "answer" => cites = {}
                 /\ response' = [kind |-> kind, cut |-> cut, cites |-> cites, lost |-> lost]
                 /\ recordFaults' = recordFaults + (IF lost THEN 1 ELSE 0)
            /\ UNCHANGED <<step, tries, repairUsed, toolVars, auditVars, evidenceVars, endVars,
                           outsideVars, rawLost>>

(* finalizeDeliveredStep: the row, and the event unless the Run is          *)
(* terminal, which reads as a cancellation.                                 *)
Finalize(how) == AppendRow(how) /\ AppendStepEvent(how)
Finalized == status # "terminal"

(* The judgement of a response that is neither tools nor a usable answer.   *)
Reject ==
  /\ stage = "judging"
  /\ response.kind \in {"invalid", "long"} \/ (response.kind = "tools" /\ response.cut)
  /\ Finalize("failed")
  /\ IF ~ Finalized
       THEN End("cancelled") /\ UNCHANGED repairUsed
       ELSE IF response.lost \/ response.kind = "long" \/ repairUsed
              THEN /\ End(IF response.lost \/ response.kind = "long" THEN "failed" ELSE "invalid")
                   /\ UNCHANGED repairUsed
              ELSE /\ stage' = "top"
                   /\ repairUsed' = TRUE
                   /\ UNCHANGED endVars
  /\ UNCHANGED <<step, tries, response, toolVars, evidenceVars, outsideVars, recordVars>>

(* Citations that do not resolve to a grant are dropped; the rest stands.   *)
AcceptAnswer ==
  /\ stage = "judging"
  /\ response.kind = "answer"
  /\ Finalize("completed")
  /\ IF ~ Finalized
       THEN End("cancelled")
       ELSE IF response.lost
              THEN End("failed")
              ELSE /\ stage' = "voice"
                   /\ citesOut' = response.cites \intersect citable
                   /\ UNCHANGED outcome
  /\ UNCHANGED <<modelVars, toolVars, evidenceVars, outsideVars, recordVars>>

(* The voice is auxiliary: only a cancellation seen by a rendered voice     *)
(* takes the answer back.                                                   *)
VoiceReturns ==
  /\ stage = "voice"
  /\ \/ End("answer")
     \/ aborted /\ End("cancelled")
  /\ UNCHANGED <<modelVars, toolVars, auditVars, evidenceVars, outsideVars, recordVars>>

-----------------------------------------------------------------------------
(* Ordinary tools: executeOrdinaryTools.                                    *)

BeginTools ==
  /\ stage = "judging"
  /\ response.kind = "tools" /\ ~ response.cut
  /\ Finalize("completed")
  /\ IF ~ Finalized \/ response.lost \/ Halted
       THEN /\ End(IF ~ Finalized THEN "cancelled" ELSE IF response.lost THEN "failed" ELSE HaltedAs)
            /\ UNCHANGED toolVars
       ELSE /\ stage' = "tools"
            /\ \E n \in 1 .. MaxCalls :
                 /\ calls' = [c \in 1 .. n |-> [state |-> "queued", refs |-> {}, fits |-> TRUE]]
                 /\ owed' = n
            /\ phaseError' = ""
            /\ UNCHANGED endVars
  /\ UNCHANGED <<modelVars, evidenceVars, outsideVars, recordVars>>

InState(s) == {c \in DOMAIN calls : calls[c].state = s}
SawHalt == phaseError' = IF phaseError = "" THEN HaltedAs ELSE phaseError

(* A free worker takes the next call in order, unless the phase is halted.  *)
StartTool(c) ==
  /\ stage = "tools"
  /\ c \in InState("queued")
  /\ \A d \in InState("queued") : c <= d
  /\ Cardinality(InState("running")) < ToolConcurrency
  /\ phaseError = ""
  /\ ~ Halted
  /\ calls' = [calls EXCEPT ![c].state = "running"]
  /\ UNCHANGED <<stage, modelVars, phaseError, owed, auditVars, evidenceVars, endVars,
                 outsideVars, recordVars>>

(* The broker answers: a halt wins over what it delivers.                   *)
ToolReturns(c) ==
  /\ stage = "tools"
  /\ calls[c].state = "running"
  /\ IF Halted
       THEN /\ SawHalt
            /\ calls' = [calls EXCEPT ![c].state = "failed"]
       ELSE /\ UNCHANGED phaseError
            /\ \/ calls' = [calls EXCEPT ![c].state = "failed"]
               \/ \E refs \in SUBSET Refs, fits \in BOOLEAN :
                    calls' = [calls EXCEPT ![c] = [state |-> "ok", refs |-> refs, fits |-> fits]]
  /\ UNCHANGED <<stage, modelVars, owed, auditVars, evidenceVars, endVars, outsideVars, recordVars>>

(* The broker's own record failed: the phase fails with it.                 *)
ToolRecordFails(c) ==
  /\ stage = "tools"
  /\ calls[c].state = "running"
  /\ recordFaults < MaxRecordFaults
  /\ recordFaults' = recordFaults + 1
  /\ phaseError' = IF phaseError = "" THEN "failed" ELSE phaseError
  /\ calls' = [calls EXCEPT ![c].state = "failed"]
  /\ UNCHANGED <<stage, modelVars, owed, auditVars, evidenceVars, endVars, outsideVars, rawLost>>

(* Mutant: a worker that sees a halt leaves the others behind.              *)
WorkersDoneAtOnce == Halted \/ phaseError # "" \/ InState("queued") \union InState("running") = {}

(* Every worker has returned: none runs, and none will start another call.  *)
WorkersDone ==
  /\ InState("running") = {}
  /\ InState("queued") = {} \/ phaseError # "" \/ Halted

(* Mutant: a payload too large for a message still grants its references.   *)
DeliveredWithOmitted == UNION {calls[c].refs : c \in InState("ok")}

(* References in feedback that fits; an oversized payload teaches nothing.  *)
Delivered == UNION {calls[c].refs : c \in {d \in InState("ok") : calls[d].fits}}

EndTools ==
  /\ stage = "tools"
  /\ WorkersDone
  /\ IF Halted \/ phaseError # ""
       THEN /\ End(IF Halted THEN HaltedAs ELSE phaseError)
            /\ UNCHANGED <<owed, citable, shown>>
       ELSE /\ stage' = "top"
            /\ owed' = 0
            /\ citable' = citable \union Delivered
            /\ shown' = shown \union
                 UNION {calls[c].refs : c \in {d \in InState("ok") : calls[d].fits}}
            /\ UNCHANGED endVars
  /\ UNCHANGED <<modelVars, calls, phaseError, auditVars, outsideVars, recordVars>>

StrategyStep ==
  \/ RecallReturns
  \/ LessonsReturn
  \/ StopAtTop
  \/ BeginStep
  \/ CallCutShort
  \/ RetryCall
  \/ Reject
  \/ AcceptAnswer
  \/ VoiceReturns
  \/ BeginTools
  \/ \E c \in DOMAIN calls : StartTool(c) \/ ToolReturns(c)
  \/ EndTools

GatewayStep ==
  \/ CallRefusedOnce
  \/ CallFails
  \/ RawRecordFails
  \/ AnswerUnreadable
  \/ Deliver
  \/ \E c \in DOMAIN calls : ToolRecordFails(c)

AgentNext == Prepare \/ StrategyStep \/ GatewayStep \/ OutsideStep

AgentSpec == AgentInit /\ [][AgentNext]_agentVars

(* The strategy's own steps are taken and time passes.  Recall, the broker  *)
(* and the voice return by their own timeouts; the gateway need not.        *)
AgentFairness ==
  /\ WF_agentVars(StrategyStep)
  /\ WF_agentVars(StepTimerRuns)

-----------------------------------------------------------------------------
Opened(s) == eventsOf[s] # << >>
LastOf(q) == q[Len(q)]

(* A step's row and its closing event say the same, and there is one of     *)
(* each: no step is recorded both completed and failed.                     *)
AuditIsSingle ==
  \A s \in Steps :
    /\ Len(rowsOf[s]) <= 1
    /\ Len(eventsOf[s]) <= 2
    /\ Len(eventsOf[s]) = 2 =>
         /\ Len(rowsOf[s]) = 1
         /\ (eventsOf[s][2] = "completed") = (rowsOf[s][1] = "completed")

(* When the strategy has ended, every step it opened was closed in the      *)
(* audit, unless its raw response could not be recorded; only a cancelled   *)
(* call, or a Run already terminal, is closed without an event.             *)
EndIsAudited ==
  stage = "ended" =>
    \A s \in Steps :
      Opened(s) /\ ~ (rawLost /\ s = step) =>
        /\ Len(rowsOf[s]) = 1
        /\ Len(eventsOf[s]) = 1 => rowsOf[s][1] = "cancelled" \/ status = "terminal"

(* An answer cites only what this Run may cite, and the model was sent the  *)
(* content of all it may cite.  It stands on a step recorded as completed.  *)
AnswerIsGrounded ==
  outcome = "answer" =>
    /\ citesOut \subseteq citable
    /\ citesOut \subseteq shown
    /\ LastOf(eventsOf[step]) = "completed"

(* No tool call outlives the strategy, and no model step is called while a  *)
(* tool call of the conversation lacks its reply.                           *)
ToolsAreSettled ==
  /\ stage = "ended" => InState("running") = {}
  /\ stage = "calling" => owed = 0

(* The strategy reports a cancellation only when there was one.             *)
EndIsHonest ==
  outcome = "cancelled" => aborted \/ status # "running"

AgentSafe ==
  /\ AuditIsSingle
  /\ EndIsAudited
  /\ AnswerIsGrounded
  /\ ToolsAreSettled
  /\ EndIsHonest

(* A strategy that was begun and must end, whatever the gateway does.       *)
StrategyUnderWay == stage \notin {"prepare", "ended"}
=============================================================================
