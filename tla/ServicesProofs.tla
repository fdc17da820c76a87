--------------------------- MODULE ServicesProofs ---------------------------
(***************************************************************************)
(* Theorems about the agent strategy, the process supervisor and the MCP    *)
(* connector, for any values of their constants, and about MCServices, the  *)
(* services on the way of a Run put side by side: its invariants follow     *)
(* from those of its parts.                                                 *)
(***************************************************************************)
EXTENDS MCServices, AdmissionProofs, RunStreamProofs, SequenceTheorems,
        FiniteSetTheorems, TLAPS

-----------------------------------------------------------------------------
(* The agent strategy.                                                      *)

(* The audit of a step: nothing yet; its started event; its row with, unless *)
(* the call was cancelled or the Run is terminal, the closing event.        *)
StepBlank(s) == Len(rowsOf[s]) = 0 /\ Len(eventsOf[s]) = 0
StepOpen(s) == Len(rowsOf[s]) = 0 /\ Len(eventsOf[s]) = 1
StepClosed(s) ==
  /\ Len(rowsOf[s]) = 1
  /\ \/ /\ Len(eventsOf[s]) = 1
        /\ rowsOf[s][1] = "cancelled" \/ status = "terminal"
     \/ /\ Len(eventsOf[s]) = 2
        /\ eventsOf[s][2] = "completed"
        /\ rowsOf[s][1] = "completed"
     \/ /\ Len(eventsOf[s]) = 2
        /\ eventsOf[s][2] # "completed"
        /\ rowsOf[s][1] # "completed"
StepCompleted(s) == Len(eventsOf[s]) = 2 /\ eventsOf[s][2] = "completed"

Early == {"prepare", "recall", "lessons"}
InCall == {"calling", "waiting", "judging"}

(* The steps behind are closed, those ahead blank, and the present one is   *)
(* open exactly while its call is out or its response is judged.            *)
AuditInv ==
  /\ stage \in Early => step = 0
  /\ stage \in InCall \union {"tools", "voice"} => step # 0
  /\ \A s \in Steps : s > step => StepBlank(s)
  /\ \A s \in Steps : s < step => StepClosed(s)
  /\ stage \in InCall => StepOpen(step)
  /\ stage \in {"top", "tools", "voice"} /\ step # 0 => StepClosed(step)
  /\ stage = "ended" /\ step # 0 =>
       StepBlank(step) \/ StepClosed(step) \/ (rawLost /\ StepOpen(step))
  /\ stage = "voice" \/ outcome = "answer" => step # 0 /\ StepCompleted(step)

(* What may be cited has been sent, and an answer that stands cites that.   *)
EvidenceInv ==
  /\ stage # "ended" \/ outcome = "answer" => citable \subseteq shown
  /\ stage = "voice" \/ outcome = "answer" => citesOut \subseteq citable

(* Replies are owed, and tools run, only in the tool phase.                 *)
ToolInv ==
  /\ stage \notin {"tools", "ended"} => owed = 0
  /\ stage # "tools" => \A c \in DOMAIN calls : calls[c].state # "running"
  /\ phaseError = "cancelled" => aborted

EndInv ==
  /\ stage # "ended" => outcome = ""
  /\ stage = "waiting" => tries = 1
  /\ outcome = "cancelled" => aborted \/ status # "running"

AgentInv == AgentTypeOK /\ AuditInv /\ EvidenceInv /\ ToolInv /\ EndInv

LEMMA AgentInvInit == AgentInit => AgentInv
<1>. SUFFICES ASSUME AgentInit PROVE AgentInv
  OBVIOUS
<1>1. AgentTypeOK
  <2>1. response \in [kind : Kinds \union {"none"}, cut : BOOLEAN, cites : SUBSET Citable,
                      lost : BOOLEAN]
    <3>1. Silence.kind = "none" /\ Silence = [kind |-> "none", cut |-> FALSE, cites |-> {}, lost |-> FALSE]
      BY DEF Silence
    <3>. QED
      BY <3>1 DEF AgentInit
  <2>2. /\ calls \in Seq([state : CallState, refs : SUBSET Refs, fits : BOOLEAN])
        /\ rowsOf \in [Steps -> Seq({"completed", "failed", "timeout", "cancelled"})]
        /\ eventsOf \in [Steps -> Seq({"started", "completed", "failed"})]
    BY EmptySeq DEF AgentInit
  <2>3. step \in 0 .. MaxSteps /\ tries \in 0 .. 2 /\ owed \in 0 .. MaxCalls
        /\ recordFaults \in 0 .. MaxRecordFaults
    <3>1. step = 0 /\ tries = 0 /\ owed = 0 /\ recordFaults = 0
      BY DEF AgentInit
    <3>2. MaxSteps \in Nat /\ MaxCalls \in Nat /\ MaxRecordFaults \in Nat
      BY AgentAssumption
    <3>. QED
      BY <3>1, <3>2
  <2>. QED
    BY <2>1, <2>2, <2>3 DEF AgentInit, AgentTypeOK
<1>2. AuditInv
  <2>1. \A s \in Steps : StepBlank(s)
    BY EmptySeq DEF AgentInit, StepBlank
  <2>2. \A s \in Steps : ~ (s < 0)
    BY AgentAssumption DEF Steps
  <2>. QED
    BY <2>1, <2>2 DEF AgentInit, AuditInv, Early, InCall
<1>3. EvidenceInv /\ EndInv
  BY DEF AgentInit, EvidenceInv, EndInv
<1>4. ToolInv
  <2>1. DOMAIN calls = 1 .. Len(calls) /\ Len(calls) = 0
    BY EmptySeq, LenProperties DEF AgentInit
  <2>. QED
    <3>1. owed = 0 /\ phaseError = ""
      BY DEF AgentInit
    <3>2. DOMAIN calls = {}
      BY <2>1
    <3>. QED
      BY <3>1, <3>2, Zenon DEF ToolInv
<1>. QED
  BY <1>1, <1>2, <1>3, <1>4 DEF AgentInv

(* A step that leaves the audit alone keeps AuditInv, if the stage moves as *)
(* the strategy does.                                                       *)
LEMMA AuditKept ==
  ASSUME AgentTypeOK, AuditInv,
         UNCHANGED <<rowsOf, eventsOf, step>>,
         status = "terminal" => status' = "terminal",
         rawLost => rawLost',
         stage' \in Early => stage \in Early,
         stage' \in InCall => stage \in InCall,
         stage' \in {"tools", "voice"} => stage' = stage,
         stage' = "top" => stage \in {"top", "tools"} \union Early,
         stage' = "ended" =>
           stage \in {"top", "tools", "voice", "ended"} \union Early \/ rawLost',
         outcome' = "answer" => outcome = "answer" \/ stage = "voice"
  PROVE  AuditInv'
<1>1. \A s \in Steps :
        /\ StepBlank(s) => StepBlank(s)'
        /\ StepOpen(s) => StepOpen(s)'
        /\ StepClosed(s) => StepClosed(s)'
        /\ StepCompleted(s) => StepCompleted(s)'
  <2>1. rowsOf' = rowsOf /\ eventsOf' = eventsOf
    OBVIOUS
  <2>2. ASSUME NEW s \in Steps, StepClosed(s) PROVE StepClosed(s)'
    BY <2>1, <2>2, Zenon DEF StepClosed
  <2>. QED
    BY <2>1, <2>2, Zenon DEF StepBlank, StepOpen, StepCompleted
<1>2. step \in 0 .. MaxSteps /\ (step # 0 => step \in Steps)
  <2>1. step \in 0 .. MaxSteps
    BY Zenon DEF AgentTypeOK
  <2>. QED
    BY <2>1, AgentAssumption DEF Steps
<1>3. stage \in {"prepare", "recall", "lessons", "top", "calling", "waiting", "judging",
                "tools", "voice", "ended"}
  BY DEF AgentTypeOK
<1>4. (\A s \in Steps : s > step => StepBlank(s))'
  BY <1>1 DEF AuditInv, Steps
<1>5. (\A s \in Steps : s < step => StepClosed(s))'
  BY <1>1 DEF AuditInv, Steps
<1>. QED
  BY <1>1, <1>2, <1>3, <1>4, <1>5 DEF AuditInv, Early, InCall

(* The types, by the tuples the actions leave unchanged.                    *)
RowKinds == {"completed", "failed", "timeout", "cancelled"}
EventKinds == {"started", "completed", "failed"}
Stages == {"prepare", "recall", "lessons", "top", "calling", "waiting", "judging",
           "tools", "voice", "ended"}
Response == [kind : Kinds \union {"none"}, cut : BOOLEAN, cites : SUBSET Citable,
             lost : BOOLEAN]
ToolCall == [state : CallState, refs : SUBSET Refs, fits : BOOLEAN]

ModelTypes ==
  step \in 0 .. MaxSteps /\ tries \in 0 .. 2 /\ repairUsed \in BOOLEAN /\ response \in Response
ToolTypes ==
  /\ calls \in Seq(ToolCall)
  /\ phaseError \in {"", "cancelled", "failed"}
  /\ owed \in 0 .. MaxCalls
AuditTypes == rowsOf \in [Steps -> Seq(RowKinds)] /\ eventsOf \in [Steps -> Seq(EventKinds)]
EvidenceTypes == citable \subseteq Citable /\ shown \subseteq Citable
EndTypes ==
  /\ stage \in Stages
  /\ outcome \in {"", "answer", "cancelled", "failed", "invalid"}
  /\ citesOut \subseteq Citable
OutsideTypes ==
  /\ status \in {"running", "cancel_requested", "terminal"}
  /\ {aborted, wallPast, wallFired, stepPast} \subseteq BOOLEAN
RecordTypes == recordFaults \in 0 .. MaxRecordFaults /\ rawLost \in BOOLEAN

LEMMA AgentTypeParts ==
  AgentTypeOK <=>
    /\ ModelTypes /\ ToolTypes /\ AuditTypes /\ EvidenceTypes
    /\ EndTypes /\ OutsideTypes /\ RecordTypes
<1>1. {aborted, wallPast, wallFired, stepPast, rawLost} \subseteq BOOLEAN <=>
        {aborted, wallPast, wallFired, stepPast} \subseteq BOOLEAN /\ rawLost \in BOOLEAN
  BY Zenon
<1>. QED
  BY <1>1, Zenon
  DEF AgentTypeOK, ModelTypes, ToolTypes, AuditTypes, EvidenceTypes, EndTypes, OutsideTypes,
      RecordTypes, RowKinds, EventKinds, Stages, Response, ToolCall

LEMMA AgentTypePartsThen ==
  ASSUME ModelTypes', ToolTypes', AuditTypes', EvidenceTypes', EndTypes', OutsideTypes',
         RecordTypes'
  PROVE  AgentTypeOK'
BY AgentTypeParts, PTL

LEMMA AgentTypesKept ==
  ASSUME AgentTypeOK
  PROVE  /\ UNCHANGED modelVars => ModelTypes'
         /\ UNCHANGED toolVars => ToolTypes'
         /\ UNCHANGED auditVars => AuditTypes'
         /\ UNCHANGED evidenceVars => EvidenceTypes'
         /\ UNCHANGED outsideVars => OutsideTypes'
         /\ UNCHANGED recordVars => RecordTypes'
<1>1. /\ ModelTypes /\ ToolTypes /\ AuditTypes /\ EvidenceTypes
      /\ OutsideTypes /\ RecordTypes
  BY AgentTypeParts
<1>2. UNCHANGED modelVars => ModelTypes'
  BY <1>1, Zenon DEF modelVars, ModelTypes
<1>3. UNCHANGED toolVars => ToolTypes'
  BY <1>1, Zenon DEF toolVars, ToolTypes
<1>4. UNCHANGED auditVars => AuditTypes'
  BY <1>1, Zenon DEF auditVars, AuditTypes
<1>5. UNCHANGED evidenceVars => EvidenceTypes'
  BY <1>1, Zenon DEF evidenceVars, EvidenceTypes
<1>6. UNCHANGED outsideVars => OutsideTypes'
  BY <1>1, Zenon DEF outsideVars, OutsideTypes
<1>7. UNCHANGED recordVars => RecordTypes'
  BY <1>1, Zenon DEF recordVars, RecordTypes
<1>. QED
  BY <1>2, <1>3, <1>4, <1>5, <1>6, <1>7

(* A row, and an event that a Run not yet terminal accepts, at the end of   *)
(* the step's audit.                                                        *)
LEMMA RowAppended ==
  ASSUME AuditTypes, step \in Steps, NEW how \in RowKinds, AppendRow(how)
  PROVE  /\ rowsOf' \in [Steps -> Seq(RowKinds)]
         /\ Len(rowsOf'[step]) = Len(rowsOf[step]) + 1
         /\ rowsOf'[step][Len(rowsOf[step]) + 1] = how
         /\ \A s \in Steps : s # step => rowsOf'[s] = rowsOf[s]
<1>1. rowsOf \in [Steps -> Seq(RowKinds)] /\ rowsOf[step] \in Seq(RowKinds)
  BY DEF AuditTypes
<1>2. rowsOf' = [rowsOf EXCEPT ![step] = Append(rowsOf[step], how)]
  BY DEF AppendRow
<1>3. /\ Append(rowsOf[step], how) \in Seq(RowKinds)
      /\ Len(Append(rowsOf[step], how)) = Len(rowsOf[step]) + 1
      /\ Append(rowsOf[step], how)[Len(rowsOf[step]) + 1] = how
  BY <1>1, AppendProperties
<1>4. rowsOf'[step] = Append(rowsOf[step], how)
  BY <1>1, <1>2, Zenon
<1>5. \A s \in Steps : s # step => rowsOf'[s] = rowsOf[s]
  BY <1>1, <1>2, Zenon
<1>6. rowsOf' \in [Steps -> Seq(RowKinds)]
  BY <1>1, <1>2, <1>3, Zenon
<1>. QED
  BY <1>3, <1>4, <1>5, <1>6

LEMMA EventAppended ==
  ASSUME AuditTypes, NEW s \in Steps, NEW type \in EventKinds,
         eventsOf' = [eventsOf EXCEPT ![s] = Append(@, type)]
  PROVE  /\ eventsOf' \in [Steps -> Seq(EventKinds)]
         /\ Len(eventsOf'[s]) = Len(eventsOf[s]) + 1
         /\ eventsOf'[s][Len(eventsOf[s]) + 1] = type
         /\ \A t \in Steps : t # s => eventsOf'[t] = eventsOf[t]
<1>1. eventsOf \in [Steps -> Seq(EventKinds)] /\ eventsOf[s] \in Seq(EventKinds)
  BY DEF AuditTypes
<1>2. eventsOf' = [eventsOf EXCEPT ![s] = Append(eventsOf[s], type)]
  OBVIOUS
<1>3. /\ Append(eventsOf[s], type) \in Seq(EventKinds)
      /\ Len(Append(eventsOf[s], type)) = Len(eventsOf[s]) + 1
      /\ Append(eventsOf[s], type)[Len(eventsOf[s]) + 1] = type
  BY <1>1, AppendProperties
<1>4. eventsOf'[s] = Append(eventsOf[s], type)
  BY <1>1, <1>2, Zenon
<1>5. \A t \in Steps : t # s => eventsOf'[t] = eventsOf[t]
  BY <1>1, <1>2, Zenon
<1>6. eventsOf' \in [Steps -> Seq(EventKinds)]
  BY <1>1, <1>2, <1>3, Zenon
<1>. QED
  BY <1>3, <1>4, <1>5, <1>6

(* How a step is closed in the audit.                                       *)
AuditedAs(how) ==
  /\ AppendRow(how)
  /\ \/ how = "cancelled" /\ UNCHANGED eventsOf
     \/ how # "completed" /\ AppendStepEvent("failed")
     \/ how = "completed" /\ AppendStepEvent("completed")

LEMMA AuditCloses ==
  ASSUME AgentTypeOK, AuditInv, stage \in InCall,
         NEW how \in RowKinds, AuditedAs(how),
         UNCHANGED <<step, status>>,
         stage' \in {"top", "tools", "voice", "ended"},
         stage' = "voice" => how = "completed" /\ status # "terminal",
         outcome' # "answer"
  PROVE  AuditTypes' /\ AuditInv'
<1>1. AuditTypes /\ step \in 0 .. MaxSteps
  BY AgentTypeParts DEF ModelTypes
<1>2. step \in Steps /\ step # 0
  BY <1>1, AgentAssumption DEF AuditInv, InCall, Steps
<1>3. Len(rowsOf[step]) = 0 /\ Len(eventsOf[step]) = 1
  BY DEF AuditInv, StepOpen
<1>4. /\ rowsOf' \in [Steps -> Seq(RowKinds)]
      /\ Len(rowsOf'[step]) = 1
      /\ rowsOf'[step][1] = how
      /\ \A s \in Steps : s # step => rowsOf'[s] = rowsOf[s]
  BY <1>1, <1>2, <1>3, RowAppended DEF AuditedAs
<1>5. /\ eventsOf' \in [Steps -> Seq(EventKinds)]
      /\ \A s \in Steps : s # step => eventsOf'[s] = eventsOf[s]
      /\ \/ /\ Len(eventsOf'[step]) = 1
            /\ how = "cancelled" \/ status = "terminal"
         \/ /\ Len(eventsOf'[step]) = 2
            /\ how = "completed" <=> eventsOf'[step][2] = "completed"
      /\ how = "completed" /\ status # "terminal" =>
           Len(eventsOf'[step]) = 2 /\ eventsOf'[step][2] = "completed"
  <2>1. CASE UNCHANGED eventsOf /\ (how = "cancelled" \/ status = "terminal")
    BY <1>1, <1>2, <1>3, <2>1 DEF AuditTypes
  <2>2. CASE /\ how # "completed"
             /\ eventsOf' = [eventsOf EXCEPT ![step] = Append(@, "failed")]
    <3>1. "failed" \in EventKinds
      BY DEF EventKinds
    <3>2. /\ eventsOf' \in [Steps -> Seq(EventKinds)]
          /\ Len(eventsOf'[step]) = Len(eventsOf[step]) + 1
          /\ eventsOf'[step][Len(eventsOf[step]) + 1] = "failed"
          /\ \A t \in Steps : t # step => eventsOf'[t] = eventsOf[t]
      BY <1>1, <1>2, <2>2, <3>1, EventAppended, Zenon
    <3>. QED
      BY <1>3, <2>2, <3>2
  <2>3. CASE /\ how = "completed"
             /\ eventsOf' = [eventsOf EXCEPT ![step] = Append(@, "completed")]
    <3>1. "completed" \in EventKinds
      BY DEF EventKinds
    <3>2. /\ eventsOf' \in [Steps -> Seq(EventKinds)]
          /\ Len(eventsOf'[step]) = Len(eventsOf[step]) + 1
          /\ eventsOf'[step][Len(eventsOf[step]) + 1] = "completed"
          /\ \A t \in Steps : t # step => eventsOf'[t] = eventsOf[t]
      BY <1>1, <1>2, <2>3, <3>1, EventAppended, Zenon
    <3>. QED
      BY <1>3, <2>3, <3>2
  <2>. QED
    BY <2>1, <2>2, <2>3, Zenon DEF AuditedAs, AppendStepEvent
<1>6. StepClosed(step)'
  <2>1. step' = step /\ status' = status
    OBVIOUS
  <2>. QED
    BY <1>4, <1>5, <2>1 DEF StepClosed
<1>7. how = "completed" /\ status # "terminal" => StepCompleted(step)'
  BY <1>5 DEF StepCompleted
<1>8. ASSUME NEW s \in Steps, s # step
      PROVE  (StepBlank(s) => StepBlank(s)') /\ (StepClosed(s) => StepClosed(s)')
  <2>1. rowsOf'[s] = rowsOf[s] /\ eventsOf'[s] = eventsOf[s] /\ status' = status
    BY <1>4, <1>5, <1>8
  <2>. QED
    BY <2>1, Zenon DEF StepBlank, StepClosed
<1>9. (\A s \in Steps : s > step => StepBlank(s))'
  <2>1. ASSUME NEW s \in Steps, s > step PROVE StepBlank(s)'
    BY <1>8, <2>1, <1>1 DEF AuditInv, Steps
  <2>. QED
    BY <2>1
<1>10. (\A s \in Steps : s < step => StepClosed(s))'
  <2>1. ASSUME NEW s \in Steps, s < step PROVE StepClosed(s)'
    BY <1>8, <2>1, <1>1 DEF AuditInv, Steps
  <2>. QED
    BY <2>1
<1>11. AuditTypes'
  BY <1>4, <1>5 DEF AuditTypes
<1>. QED
  BY <1>2, <1>6, <1>7, <1>9, <1>10, <1>11 DEF AuditInv, Early, InCall

(* An end of the strategy that is not an answer.                            *)
LEMMA EndKeeps ==
  ASSUME AgentInv, NEW how \in {"cancelled", "failed", "invalid"}, End(how),
         how = "cancelled" => aborted \/ status # "running",
         stage = "tools" => \A c \in DOMAIN calls : calls[c].state # "running",
         UNCHANGED <<calls, phaseError, owed, status, aborted>>
  PROVE  EndTypes' /\ EvidenceInv' /\ ToolInv' /\ EndInv'
<1>1. stage' = "ended" /\ outcome' = how /\ citesOut' = citesOut
  BY DEF End
<1>2. EndTypes'
  BY <1>1, AgentTypeParts DEF AgentInv, EndTypes, Stages
<1>3. EvidenceInv'
  BY <1>1 DEF EvidenceInv
<1>4. ToolInv'
  BY <1>1 DEF AgentInv, ToolInv
<1>5. EndInv'
  BY <1>1 DEF EndInv
<1>. QED
  BY <1>2, <1>3, <1>4, <1>5

(* The same for a move between stages that leaves the rest alone.           *)
LEMMA MoveKeeps ==
  ASSUME AgentInv, stage # "ended", stage' \in Stages \ {"ended", "voice", "waiting"},
         UNCHANGED <<outcome, citesOut, calls, phaseError, owed, citable, shown>>,
         aborted => aborted',
         status # "running" => status' # "running",
         stage = "tools" => stage' = "tools"
  PROVE  EndTypes' /\ EvidenceTypes' /\ EvidenceInv' /\ ToolInv' /\ EndInv'
<1>1. outcome = "" /\ outcome' = ""
  BY DEF AgentInv, EndInv
<1>2. EndTypes' /\ EvidenceTypes'
  BY AgentTypeParts DEF AgentInv, EndTypes, EvidenceTypes, Stages
<1>3. EvidenceInv'
  BY <1>1 DEF AgentInv, EvidenceInv
<1>4. ToolInv'
  BY DEF AgentInv, ToolInv
<1>5. EndInv'
  BY <1>1 DEF EndInv
<1>. QED
  BY <1>2, <1>3, <1>4, <1>5

LEMMA HaltedKind ==
  ASSUME AgentInv
  PROVE  /\ HaltedAs \in {"cancelled", "failed", "invalid"}
         /\ HaltedAs \in {"", "cancelled", "failed"}
         /\ HaltedAs = "cancelled" => aborted \/ status # "running"
         /\ HaltedAs = "cancelled" => aborted
BY DEF HaltedAs

(* A call that ends without a response under judgement.                     *)
LEMMA StepFailsKeeps ==
  ASSUME AgentInv, stage \in InCall, NEW how \in {"failed", "timeout", "cancelled"},
         how = "cancelled" => aborted \/ status # "running",
         StepFails(how)
  PROVE  AgentInv'
<1>1. /\ AuditFailure(how)
      /\ UNCHANGED modelVars /\ UNCHANGED toolVars
      /\ UNCHANGED evidenceVars /\ UNCHANGED outsideVars
  BY DEF StepFails
<1>2. PICK end \in {"cancelled", "failed"} :
        End(end) /\ (end = "cancelled" => how = "cancelled")
  BY DEF StepFails
<1>3. RecordTypes'
  <2>1. RecordTypes
    BY AgentTypeParts DEF AgentInv
  <2>2. CASE RecordFails
    BY <2>1, <2>2, AgentAssumption DEF RecordFails, RecordTypes
  <2>3. CASE UNCHANGED recordVars
    BY <2>3, AgentTypesKept DEF AgentInv
  <2>. QED
    BY <2>2, <2>3 DEF StepFails
<1>4. AuditedAs(how)
  BY <1>1 DEF AuditFailure, AuditedAs
<1>5. stage' = "ended" /\ outcome' = end
  BY <1>2 DEF End
<1>6. step' = step /\ status' = status
  BY <1>1 DEF modelVars, outsideVars
<1>7. AuditTypes' /\ AuditInv'
  <2>1. how \in RowKinds
    BY DEF RowKinds
  <2>. QED
    BY <1>4, <1>5, <1>6, <2>1, AuditCloses DEF AgentInv
<1>8. EndTypes' /\ EvidenceInv' /\ ToolInv' /\ EndInv'
  BY <1>1, <1>2, EndKeeps DEF toolVars, outsideVars, InCall
<1>. QED
  BY <1>1, <1>3, <1>7, <1>8, AgentTypesKept, AgentTypePartsThen DEF AgentInv

-----------------------------------------------------------------------------
(* Every action of the strategy keeps the invariant.                        *)

LEMMA OutsideKeeps ==
  ASSUME AgentInv, OutsideStep
  PROVE  AgentInv'
<1>1. /\ UNCHANGED stage /\ UNCHANGED modelVars /\ UNCHANGED toolVars
      /\ UNCHANGED auditVars /\ UNCHANGED evidenceVars /\ UNCHANGED endVars
      /\ UNCHANGED recordVars
  BY DEF OutsideStep, inStrategyVars
<1>2. OutsideTypes
  BY AgentTypeParts DEF AgentInv
<1>3. /\ OutsideTypes'
      /\ status # "running" => status' # "running"
      /\ status = "terminal" => status' = "terminal"
      /\ aborted => aborted'
  <2>1. CASE CancelCommits
    BY <1>2, <2>1, Zenon DEF CancelCommits, OutsideTypes
  <2>2. CASE SignalAborts
    BY <1>2, <2>2, Zenon DEF SignalAborts, OutsideTypes
  <2>3. CASE RunSettledUnder
    BY <1>2, <2>3, Zenon DEF RunSettledUnder, OutsideTypes
  <2>4. CASE StepDeadlinePasses
    BY <1>2, <2>4, Zenon DEF StepDeadlinePasses, OutsideTypes
  <2>5. CASE WallPasses
    BY <1>2, <2>5, Zenon DEF WallPasses, OutsideTypes
  <2>6. CASE WallTimer
    BY <1>2, <2>6, Zenon DEF WallTimer, OutsideTypes
  <2>. QED
    BY <2>1, <2>2, <2>3, <2>4, <2>5, <2>6 DEF OutsideStep
<1>4. EndTypes'
  <2>1. EndTypes
    BY AgentTypeParts DEF AgentInv
  <2>. QED
    BY <1>1, <2>1, Zenon DEF EndTypes, endVars
<1>5. AuditInv'
  BY <1>1, <1>3, AuditKept
  DEF AgentInv, modelVars, auditVars, endVars, recordVars, Early, InCall
<1>6. EvidenceInv'
  BY <1>1 DEF AgentInv, EvidenceInv, evidenceVars, endVars
<1>7. ToolInv'
  BY <1>1, <1>3 DEF AgentInv, ToolInv, toolVars
<1>8. EndInv'
  BY <1>1, <1>3 DEF AgentInv, EndInv, modelVars, endVars
<1>. QED
  BY <1>1, <1>3, <1>4, <1>5, <1>6, <1>7, <1>8, AgentTypesKept, AgentTypePartsThen DEF AgentInv

(* A step before or between model steps that ends the strategy as it was    *)
(* halted, or goes on.                                                      *)
LEMMA EndsQuietly ==
  ASSUME AgentInv, stage \in Early \union {"top"},
         NEW how \in {"cancelled", "failed", "invalid"}, End(how),
         how = "cancelled" => aborted \/ status # "running",
         UNCHANGED modelVars, UNCHANGED toolVars, UNCHANGED auditVars,
         EvidenceTypes', UNCHANGED outsideVars, UNCHANGED recordVars
  PROVE  AgentInv'
<1>1. stage' = "ended" /\ outcome' = how
  BY DEF End
<1>2. AuditInv'
  BY <1>1, AuditKept
  DEF AgentInv, modelVars, auditVars, outsideVars, recordVars, Early, InCall
<1>3. EndTypes' /\ EvidenceInv' /\ ToolInv' /\ EndInv'
  BY EndKeeps DEF toolVars, outsideVars, Early
<1>. QED
  BY <1>2, <1>3, AgentTypesKept, AgentTypePartsThen DEF AgentInv

LEMMA PrepareKeeps ==
  ASSUME AgentInv, Prepare
  PROVE  AgentInv'
<1>1. /\ stage = "prepare"
      /\ UNCHANGED modelVars /\ UNCHANGED toolVars /\ UNCHANGED auditVars
      /\ UNCHANGED evidenceVars /\ UNCHANGED outsideVars /\ UNCHANGED recordVars
  BY DEF Prepare
<1>2. CASE Halted
  BY <1>1, <1>2, EndsQuietly, HaltedKind, AgentTypesKept DEF Prepare, Early, AgentInv
<1>3. CASE ~ Halted
  <2>1. stage' = "recall" /\ outcome' = outcome /\ citesOut' = citesOut
    BY <1>3 DEF Prepare, endVars
  <2>2. outcome = ""
    BY <1>1 DEF AgentInv, EndInv
  <2>3. AuditInv'
    BY <1>1, <2>1, <2>2, AuditKept
    DEF AgentInv, modelVars, auditVars, outsideVars, recordVars, Early, InCall
  <2>4. EndTypes' /\ EvidenceTypes' /\ EvidenceInv' /\ ToolInv' /\ EndInv'
    BY <1>1, <2>1, MoveKeeps DEF toolVars, outsideVars, evidenceVars, Stages
  <2>. QED
    BY <1>1, <2>3, <2>4, AgentTypesKept, AgentTypePartsThen DEF AgentInv
<1>. QED
  BY <1>2, <1>3

LEMMA LessonsKeep ==
  ASSUME AgentInv, LessonsReturn
  PROVE  AgentInv'
<1>1. /\ stage = "lessons"
      /\ UNCHANGED modelVars /\ UNCHANGED toolVars /\ UNCHANGED auditVars
      /\ UNCHANGED evidenceVars /\ UNCHANGED outsideVars /\ UNCHANGED recordVars
  BY DEF LessonsReturn
<1>2. CASE Halted
  BY <1>1, <1>2, EndsQuietly, HaltedKind, AgentTypesKept DEF LessonsReturn, Early, AgentInv
<1>3. CASE ~ Halted
  <2>1. stage' = "top" /\ outcome' = outcome /\ citesOut' = citesOut
    BY <1>3 DEF LessonsReturn, endVars
  <2>2. outcome = ""
    BY <1>1 DEF AgentInv, EndInv
  <2>3. AuditInv'
    BY <1>1, <2>1, <2>2, AuditKept
    DEF AgentInv, modelVars, auditVars, outsideVars, recordVars, Early, InCall
  <2>4. EndTypes' /\ EvidenceTypes' /\ EvidenceInv' /\ ToolInv' /\ EndInv'
    BY <1>1, <2>1, MoveKeeps DEF toolVars, outsideVars, evidenceVars, Stages
  <2>. QED
    BY <1>1, <2>3, <2>4, AgentTypesKept, AgentTypePartsThen DEF AgentInv
<1>. QED
  BY <1>2, <1>3

LEMMA RecallKeeps ==
  ASSUME AgentInv, RecallReturns
  PROVE  AgentInv'
<1>1. /\ stage = "recall"
      /\ UNCHANGED modelVars /\ UNCHANGED toolVars /\ UNCHANGED auditVars
      /\ UNCHANGED outsideVars /\ UNCHANGED recordVars
  BY DEF RecallReturns
<1>2. PICK found \in SUBSET Memories :
        /\ citable' = citable \union found
        /\ shown' = IF Halted THEN shown ELSE shown \union found
  BY DEF RecallReturns
<1>3. EvidenceTypes'
  <2>1. EvidenceTypes
    BY AgentTypeParts DEF AgentInv
  <2>. QED
    BY <1>2, <2>1 DEF EvidenceTypes, Citable
<1>4. CASE Halted
  BY <1>1, <1>3, <1>4, EndsQuietly, HaltedKind DEF RecallReturns, Early
<1>5. CASE ~ Halted
  <2>1. stage' = "lessons" /\ outcome' = outcome /\ citesOut' = citesOut
    BY <1>5 DEF RecallReturns, endVars
  <2>2. outcome = ""
    BY <1>1 DEF AgentInv, EndInv
  <2>3. AuditInv'
    BY <1>1, <2>1, <2>2, AuditKept
    DEF AgentInv, modelVars, auditVars, outsideVars, recordVars, Early, InCall
  <2>4. EndTypes'
    <3>1. EndTypes
      BY AgentTypeParts DEF AgentInv
    <3>. QED
      BY <2>1, <3>1 DEF EndTypes, Stages
  <2>5. EvidenceInv'
    BY <1>1, <1>2, <1>5, <2>1, <2>2 DEF AgentInv, EvidenceInv
  <2>6. ToolInv'
    BY <1>1, <2>1 DEF AgentInv, ToolInv, toolVars, outsideVars
  <2>7. EndInv'
    BY <2>1, <2>2 DEF EndInv
  <2>. QED
    BY <1>1, <1>3, <2>3, <2>4, <2>5, <2>6, <2>7, AgentTypesKept, AgentTypePartsThen DEF AgentInv
<1>. QED
  BY <1>4, <1>5

LEMMA StopAtTopKeeps ==
  ASSUME AgentInv, StopAtTop
  PROVE  AgentInv'
<1>1. /\ stage = "top"
      /\ UNCHANGED modelVars /\ UNCHANGED toolVars /\ UNCHANGED auditVars
      /\ UNCHANGED evidenceVars /\ UNCHANGED outsideVars /\ UNCHANGED recordVars
  BY DEF StopAtTop
<1>2. CASE End("invalid")
  BY <1>1, <1>2, EndsQuietly, AgentTypesKept DEF AgentInv
<1>3. CASE /\ Halted \/ status # "running"
           /\ End(IF Halted THEN HaltedAs ELSE "cancelled")
  <2>. DEFINE how == IF Halted THEN HaltedAs ELSE "cancelled"
  <2>1. how \in {"cancelled", "failed", "invalid"}
        /\ (how = "cancelled" => aborted \/ status # "running") /\ End(how)
    BY <1>3, HaltedKind
  <2>. HIDE DEF how
  <2>. QED
    BY <1>1, <2>1, EndsQuietly, AgentTypesKept DEF AgentInv
<1>. QED
  BY <1>2, <1>3 DEF StopAtTop

LEMMA BeginStepKeeps ==
  ASSUME AgentInv, BeginStep
  PROVE  AgentInv'
<1>1. /\ stage = "top" /\ step < MaxSteps /\ status = "running"
      /\ step' = step + 1 /\ tries' = 1 /\ stepPast' = FALSE /\ response' = Silence
      /\ repairUsed' = repairUsed /\ rowsOf' = rowsOf /\ rawLost' = rawLost
      /\ UNCHANGED toolVars /\ UNCHANGED evidenceVars
      /\ status' = status /\ aborted' = aborted
      /\ wallPast' = wallPast /\ wallFired' = wallFired
  BY DEF BeginStep
<1>2. /\ ModelTypes /\ AuditTypes /\ EndTypes /\ OutsideTypes /\ RecordTypes
  BY AgentTypeParts DEF AgentInv
<1>3. outcome = ""
  BY <1>1 DEF AgentInv, EndInv
<1>4. step \in 0 .. MaxSteps /\ step' \in Steps /\ step' \in 0 .. MaxSteps /\ step' # 0
  BY <1>1, <1>2, AgentAssumption DEF ModelTypes, Steps
<1>5. ModelTypes'
  <2>1. Silence \in Response
    BY DEF Silence, Response
  <2>. QED
    BY <1>1, <1>2, <1>4, <2>1 DEF ModelTypes
<1>6. OutsideTypes'
  BY <1>1, <1>2, Zenon DEF OutsideTypes
<1>7. \A s \in Steps : s < step' => StepClosed(s)
  <2>1. \A s \in Steps : s < step' => s < step \/ s = step
    BY <1>1, <1>4 DEF Steps
  <2>2. \A s \in Steps : s = step => step # 0
    BY <1>4 DEF Steps
  <2>. QED
    BY <1>1, <2>1, <2>2 DEF AgentInv, AuditInv
<1>8. \A s \in Steps : s > step' \/ s = step' => StepBlank(s)
  BY <1>1, <1>4 DEF AgentInv, AuditInv, Steps
<1>9. CASE /\ stage' = "calling"
           /\ eventsOf' = [eventsOf EXCEPT ![step + 1] = Append(@, "started")]
           /\ UNCHANGED <<endVars, recordFaults>>
  <2>1. /\ eventsOf' \in [Steps -> Seq(EventKinds)]
        /\ Len(eventsOf'[step']) = Len(eventsOf[step']) + 1
        /\ \A t \in Steps : t # step' => eventsOf'[t] = eventsOf[t]
    <3>1. eventsOf' = [eventsOf EXCEPT ![step'] = Append(@, "started")]
      BY <1>1, <1>9
    <3>2. "started" \in EventKinds
      BY DEF EventKinds
    <3>. QED
      BY <1>2, <1>4, <3>1, <3>2, EventAppended, Zenon
  <2>2. StepOpen(step)'
    BY <1>1, <1>4, <1>8, <2>1 DEF StepBlank, StepOpen
  <2>3. (\A s \in Steps : s > step => StepBlank(s))'
    <3>1. ASSUME NEW s \in Steps, s > step' PROVE StepBlank(s)'
      <4>1. s # step' /\ StepBlank(s)
        BY <1>4, <1>8, <3>1 DEF Steps
      <4>. QED
        BY <1>1, <2>1, <4>1 DEF StepBlank
    <3>. QED
      BY <3>1
  <2>4. (\A s \in Steps : s < step => StepClosed(s))'
    <3>1. ASSUME NEW s \in Steps, s < step' PROVE StepClosed(s)'
      <4>1. s # step' /\ StepClosed(s)
        BY <1>4, <1>7, <3>1 DEF Steps
      <4>2. rowsOf'[s] = rowsOf[s] /\ eventsOf'[s] = eventsOf[s] /\ status' = status
        BY <1>1, <2>1, <4>1
      <4>. QED
        BY <4>1, <4>2, Zenon DEF StepClosed
    <3>. QED
      BY <3>1
  <2>5. outcome' = outcome /\ citesOut' = citesOut /\ recordFaults' = recordFaults
    BY <1>9 DEF endVars
  <2>6. AuditInv'
    BY <1>3, <1>4, <1>9, <2>2, <2>3, <2>4, <2>5 DEF AuditInv, Early, InCall
  <2>7. AuditTypes' /\ RecordTypes'
    BY <1>1, <1>2, <2>1, <2>5 DEF AuditTypes, RecordTypes
  <2>8. EndTypes' /\ EvidenceTypes' /\ EvidenceInv' /\ ToolInv' /\ EndInv'
    BY <1>1, <1>9, <2>5, MoveKeeps DEF toolVars, evidenceVars, Stages
  <2>. QED
    BY <1>1, <1>5, <1>6, <2>6, <2>7, <2>8, AgentTypesKept, AgentTypePartsThen DEF AgentInv
<1>10. CASE /\ recordFaults < MaxRecordFaults
            /\ recordFaults' = recordFaults + 1
            /\ End("failed")
            /\ UNCHANGED eventsOf
  <2>1. stage' = "ended" /\ outcome' = "failed"
    BY <1>10 DEF End
  <2>2. (\A s \in Steps : (s > step \/ s = step) => StepBlank(s))'
    BY <1>1, <1>8, <1>10 DEF StepBlank, Steps
  <2>3. (\A s \in Steps : s < step => StepClosed(s))'
    <3>1. ASSUME NEW s \in Steps, s < step' PROVE StepClosed(s)'
      <4>1. StepClosed(s)
        BY <1>7, <3>1
      <4>2. rowsOf'[s] = rowsOf[s] /\ eventsOf'[s] = eventsOf[s] /\ status' = status
        BY <1>1, <1>10
      <4>. QED
        BY <4>1, <4>2, Zenon DEF StepClosed
    <3>. QED
      BY <3>1
  <2>4. StepBlank(step)'
    BY <1>4, <2>2
  <2>5. AuditInv'
    BY <1>4, <2>1, <2>2, <2>3, <2>4 DEF AuditInv, Early, InCall
  <2>6. AuditTypes' /\ RecordTypes'
    BY <1>1, <1>2, <1>10, AgentAssumption DEF AuditTypes, RecordTypes
  <2>7. EndTypes' /\ EvidenceInv' /\ ToolInv' /\ EndInv'
    BY <1>1, <1>10, EndKeeps DEF toolVars
  <2>. QED
    BY <1>1, <1>5, <1>6, <2>5, <2>6, <2>7, AgentTypesKept, AgentTypePartsThen DEF AgentInv
<1>. QED
  BY <1>9, <1>10 DEF BeginStep

LEMMA CallCutShortKeeps ==
  ASSUME AgentInv, CallCutShort
  PROVE  AgentInv'
<1>1. stage \in InCall
  BY DEF CallCutShort, InCall
<1>2. CASE aborted /\ StepFails("cancelled")
  BY <1>1, <1>2, StepFailsKeeps
<1>3. CASE StepFails("timeout")
  BY <1>1, <1>3, StepFailsKeeps
<1>. QED
  BY <1>2, <1>3 DEF CallCutShort

LEMMA CallRefusedOnceKeeps ==
  ASSUME AgentInv, CallRefusedOnce
  PROVE  AgentInv'
<1>1. /\ stage = "calling" /\ tries = 1 /\ stage' = "waiting"
      /\ UNCHANGED modelVars /\ UNCHANGED toolVars /\ UNCHANGED auditVars
      /\ UNCHANGED evidenceVars /\ UNCHANGED endVars /\ UNCHANGED outsideVars
      /\ UNCHANGED recordVars
  BY DEF CallRefusedOnce
<1>2. AuditInv'
  BY <1>1, AuditKept
  DEF AgentInv, modelVars, auditVars, outsideVars, recordVars, endVars, Early, InCall
<1>3. EndTypes'
  <2>1. EndTypes
    BY AgentTypeParts DEF AgentInv
  <2>. QED
    BY <1>1, <2>1 DEF EndTypes, Stages, endVars
<1>4. EvidenceInv' /\ EndInv'
  BY <1>1 DEF AgentInv, EvidenceInv, EndInv, evidenceVars, endVars, modelVars
<1>5. ToolInv'
  BY <1>1 DEF AgentInv, ToolInv, toolVars, outsideVars
<1>. QED
  BY <1>1, <1>2, <1>3, <1>4, <1>5, AgentTypesKept, AgentTypePartsThen DEF AgentInv

LEMMA RetryCallKeeps ==
  ASSUME AgentInv, RetryCall
  PROVE  AgentInv'
<1>1. stage = "waiting" /\ stage \in InCall /\ tries = 1
  BY DEF RetryCall, InCall, AgentInv, EndInv
<1>2. CASE StepFails("timeout")
  BY <1>1, <1>2, StepFailsKeeps
<1>3. CASE /\ stage' = "calling"
           /\ tries' = tries + 1
           /\ UNCHANGED <<step, repairUsed, response, toolVars, auditVars, evidenceVars,
                          endVars, outsideVars, recordVars>>
  <2>1. /\ stage' = "calling" /\ tries' = 2
        /\ step' = step /\ repairUsed' = repairUsed /\ response' = response
        /\ UNCHANGED toolVars /\ UNCHANGED auditVars
        /\ UNCHANGED evidenceVars /\ UNCHANGED endVars /\ UNCHANGED outsideVars
        /\ UNCHANGED recordVars
    BY <1>1, <1>3
  <2>2. AuditInv'
    BY <1>1, <2>1, AuditKept
    DEF AgentInv, auditVars, outsideVars, recordVars, endVars, Early, InCall
  <2>3. ModelTypes'
    <3>1. ModelTypes
      BY AgentTypeParts DEF AgentInv
    <3>. QED
      BY <2>1, <3>1 DEF ModelTypes
  <2>4. EndTypes' /\ EvidenceTypes' /\ EvidenceInv' /\ ToolInv' /\ EndInv'
    BY <1>1, <2>1, MoveKeeps DEF toolVars, evidenceVars, endVars, outsideVars, Stages
  <2>. QED
    BY <2>1, <2>2, <2>3, <2>4, AgentTypesKept, AgentTypePartsThen DEF AgentInv
<1>. QED
  BY <1>2, <1>3 DEF RetryCall

LEMMA CallFailsKeeps ==
  ASSUME AgentInv, CallFails
  PROVE  AgentInv'
<1>1. stage \in InCall
  BY DEF CallFails, InCall
<1>2. CASE aborted
  <2>1. StepFails("cancelled")
    BY <1>2 DEF CallFails
  <2>. QED
    BY <1>1, <1>2, <2>1, StepFailsKeeps
<1>3. CASE ~ aborted
  <2>1. StepFails("failed") \/ StepFails("timeout")
    BY <1>3 DEF CallFails
  <2>. QED
    BY <1>1, <2>1, StepFailsKeeps
<1>. QED
  BY <1>2, <1>3

LEMMA RawRecordFailsKeeps ==
  ASSUME AgentInv, RawRecordFails
  PROVE  AgentInv'
<1>1. /\ stage = "calling" /\ recordFaults < MaxRecordFaults
      /\ recordFaults' = recordFaults + 1 /\ rawLost' = TRUE /\ End("failed")
      /\ UNCHANGED modelVars /\ UNCHANGED toolVars /\ UNCHANGED auditVars
      /\ UNCHANGED evidenceVars /\ UNCHANGED outsideVars
  BY DEF RawRecordFails
<1>2. stage' = "ended" /\ outcome' = "failed"
  BY <1>1 DEF End
<1>3. AuditInv'
  BY <1>1, <1>2, AuditKept DEF AgentInv, modelVars, auditVars, outsideVars, Early, InCall
<1>4. RecordTypes'
  <2>1. RecordTypes
    BY AgentTypeParts DEF AgentInv
  <2>. QED
    BY <1>1, <2>1, AgentAssumption DEF RecordTypes
<1>5. EndTypes' /\ EvidenceInv' /\ ToolInv' /\ EndInv'
  BY <1>1, EndKeeps DEF toolVars, outsideVars
<1>. QED
  BY <1>1, <1>3, <1>4, <1>5, AgentTypesKept, AgentTypePartsThen DEF AgentInv

(* A judged or unreadable response that closes its step, and with it the    *)
(* strategy or only this round.                                             *)
LEMMA ClosesAndEnds ==
  ASSUME AgentInv, stage \in InCall, NEW row \in RowKinds, AuditedAs(row),
         NEW how \in {"cancelled", "failed", "invalid"}, End(how),
         how = "cancelled" => aborted \/ status # "running",
         ModelTypes', step' = step, UNCHANGED toolVars, UNCHANGED evidenceVars,
         UNCHANGED outsideVars, RecordTypes'
  PROVE  AgentInv'
<1>1. stage' = "ended" /\ outcome' = how
  BY DEF End
<1>2. AuditTypes' /\ AuditInv'
  BY <1>1, AuditCloses DEF AgentInv, outsideVars
<1>3. EndTypes' /\ EvidenceInv' /\ ToolInv' /\ EndInv'
  BY EndKeeps DEF toolVars, outsideVars, InCall
<1>. QED
  BY <1>2, <1>3, AgentTypesKept, AgentTypePartsThen DEF AgentInv

LEMMA ClosesAndRepairs ==
  ASSUME AgentInv, stage \in InCall, NEW row \in RowKinds, AuditedAs(row),
         stage' = "top", UNCHANGED endVars,
         ModelTypes', step' = step, UNCHANGED toolVars, UNCHANGED evidenceVars,
         UNCHANGED outsideVars, RecordTypes'
  PROVE  AgentInv'
<1>1. outcome = "" /\ outcome' = ""
  BY DEF AgentInv, EndInv, InCall, endVars
<1>2. AuditTypes' /\ AuditInv'
  BY <1>1, AuditCloses DEF AgentInv, outsideVars
<1>3. EndTypes' /\ EvidenceTypes' /\ EvidenceInv' /\ ToolInv' /\ EndInv'
  BY MoveKeeps DEF toolVars, evidenceVars, endVars, outsideVars, Stages, InCall
<1>. QED
  BY <1>2, <1>3, AgentTypesKept, AgentTypePartsThen DEF AgentInv

LEMMA AnswerUnreadableKeeps ==
  ASSUME AgentInv, AnswerUnreadable
  PROVE  AgentInv'
<1>1. /\ stage = "calling" /\ AuditFailure("failed")
      /\ step' = step /\ tries' = tries /\ response' = response
      /\ UNCHANGED toolVars /\ UNCHANGED evidenceVars /\ UNCHANGED outsideVars
  BY DEF AnswerUnreadable
<1>2. stage \in InCall /\ "failed" \in RowKinds /\ AuditedAs("failed")
  BY <1>1 DEF InCall, RowKinds, AuditFailure, AuditedAs
<1>3. ModelTypes /\ RecordTypes
  BY AgentTypeParts DEF AgentInv
<1>4. CASE RecordFails /\ End("failed") /\ UNCHANGED repairUsed
  <2>1. ModelTypes' /\ RecordTypes'
    BY <1>1, <1>3, <1>4, AgentAssumption DEF ModelTypes, RecordTypes, RecordFails
  <2>. QED
    BY <1>1, <1>2, <1>4, <2>1, ClosesAndEnds
<1>5. CASE UNCHANGED recordVars /\ End("invalid") /\ UNCHANGED repairUsed
  <2>1. ModelTypes' /\ RecordTypes'
    BY <1>1, <1>3, <1>5 DEF ModelTypes, RecordTypes, recordVars
  <2>. QED
    BY <1>1, <1>2, <1>5, <2>1, ClosesAndEnds
<1>6. CASE /\ UNCHANGED recordVars
           /\ stage' = "top" /\ repairUsed' = TRUE /\ UNCHANGED endVars
  <2>1. ModelTypes' /\ RecordTypes'
    BY <1>1, <1>3, <1>6 DEF ModelTypes, RecordTypes, recordVars
  <2>. QED
    BY <1>1, <1>2, <1>6, <2>1, ClosesAndRepairs
<1>. QED
  BY <1>4, <1>5, <1>6 DEF AnswerUnreadable

LEMMA DeliverKeeps ==
  ASSUME AgentInv, Deliver
  PROVE  AgentInv'
<1>1. stage = "calling" /\ stage \in InCall
  BY DEF Deliver, InCall
<1>2. CASE LateAs # "ontime"
  <2>1. StepFails(LateAs)
    BY <1>2 DEF Deliver
  <2>2. /\ LateAs \in {"failed", "timeout", "cancelled"}
        /\ LateAs = "cancelled" => aborted \/ status # "running"
    BY <1>2 DEF LateAs
  <2>. QED
    BY <1>1, <2>1, <2>2, StepFailsKeeps
<1>3. CASE LateAs = "ontime"
  <2>1. /\ stage' = "judging"
        /\ step' = step /\ tries' = tries /\ repairUsed' = repairUsed
        /\ UNCHANGED toolVars /\ UNCHANGED auditVars /\ UNCHANGED evidenceVars
        /\ UNCHANGED endVars /\ UNCHANGED outsideVars /\ rawLost' = rawLost
    BY <1>3 DEF Deliver
  <2>2. PICK kind \in Kinds, cut \in BOOLEAN, lost \in BOOLEAN, cites \in SUBSET Citable :
          /\ lost => recordFaults < MaxRecordFaults
          /\ response' = [kind |-> kind, cut |-> cut, cites |-> cites, lost |-> lost]
          /\ recordFaults' = recordFaults + (IF lost THEN 1 ELSE 0)
    BY <1>3 DEF Deliver
  <2>3. ModelTypes /\ RecordTypes
    BY AgentTypeParts DEF AgentInv
  <2>4. ModelTypes'
    <3>1. response' \in Response
      BY <2>2 DEF Response
    <3>. QED
      BY <2>1, <2>3, <3>1, Zenon DEF ModelTypes
  <2>5. RecordTypes'
    BY <2>1, <2>2, <2>3, AgentAssumption DEF RecordTypes
  <2>6. AuditInv'
    BY <1>1, <2>1, AuditKept
    DEF AgentInv, auditVars, outsideVars, endVars, Early, InCall
  <2>7. EndTypes' /\ EvidenceTypes' /\ EvidenceInv' /\ ToolInv' /\ EndInv'
    BY <1>1, <2>1, MoveKeeps DEF toolVars, evidenceVars, endVars, outsideVars, Stages
  <2>. QED
    BY <2>1, <2>4, <2>5, <2>6, <2>7, AgentTypesKept, AgentTypePartsThen DEF AgentInv
<1>. QED
  BY <1>2, <1>3

LEMMA RejectKeeps ==
  ASSUME AgentInv, Reject
  PROVE  AgentInv'
<1>1. /\ stage = "judging" /\ Finalize("failed")
      /\ step' = step /\ tries' = tries /\ response' = response
      /\ UNCHANGED toolVars /\ UNCHANGED evidenceVars /\ UNCHANGED outsideVars
      /\ UNCHANGED recordVars
  BY DEF Reject
<1>2. stage \in InCall /\ "failed" \in RowKinds /\ AuditedAs("failed")
  BY <1>1 DEF InCall, RowKinds, Finalize, AuditedAs
<1>3. ModelTypes /\ RecordTypes'
  BY <1>1, AgentTypeParts, AgentTypesKept DEF AgentInv
<1>4. CASE /\ ~ Finalized /\ End("cancelled") /\ UNCHANGED repairUsed
  <2>1. ModelTypes' /\ status # "running"
    BY <1>1, <1>3, <1>4 DEF ModelTypes, Finalized
  <2>. QED
    BY <1>1, <1>2, <1>3, <1>4, <2>1, ClosesAndEnds
<1>5. CASE /\ End(IF response.lost \/ response.kind = "long" THEN "failed" ELSE "invalid")
           /\ UNCHANGED repairUsed
  <2>1. ModelTypes'
    BY <1>1, <1>3, <1>5 DEF ModelTypes
  <2>. QED
    BY <1>1, <1>2, <1>3, <1>5, <2>1, ClosesAndEnds
<1>6. CASE stage' = "top" /\ repairUsed' = TRUE /\ UNCHANGED endVars
  <2>1. ModelTypes'
    BY <1>1, <1>3, <1>6 DEF ModelTypes
  <2>. QED
    BY <1>1, <1>2, <1>3, <1>6, <2>1, ClosesAndRepairs
<1>. QED
  BY <1>4, <1>5, <1>6 DEF Reject

LEMMA AcceptAnswerKeeps ==
  ASSUME AgentInv, AcceptAnswer
  PROVE  AgentInv'
<1>1. /\ stage = "judging" /\ Finalize("completed")
      /\ UNCHANGED modelVars
      /\ UNCHANGED toolVars /\ UNCHANGED evidenceVars /\ UNCHANGED outsideVars
      /\ UNCHANGED recordVars
  BY DEF AcceptAnswer
<1>2. stage \in InCall /\ "completed" \in RowKinds /\ AuditedAs("completed")
  BY <1>1 DEF InCall, RowKinds, Finalize, AuditedAs
<1>3. ModelTypes' /\ RecordTypes' /\ step' = step
  BY <1>1, AgentTypesKept DEF AgentInv, modelVars
<1>4. CASE ~ Finalized /\ End("cancelled")
  <2>1. status # "running"
    BY <1>4 DEF Finalized
  <2>. QED
    BY <1>1, <1>2, <1>3, <1>4, <2>1, ClosesAndEnds
<1>5. CASE End("failed")
  BY <1>1, <1>2, <1>3, <1>5, ClosesAndEnds
<1>6. CASE /\ Finalized
           /\ stage' = "voice"
           /\ citesOut' = response.cites \intersect citable
           /\ UNCHANGED outcome
  <2>1. outcome = "" /\ outcome' = ""
    BY <1>1, <1>6 DEF AgentInv, EndInv
  <2>2. AuditTypes' /\ AuditInv'
    BY <1>1, <1>2, <1>3, <1>6, <2>1, AuditCloses DEF AgentInv, outsideVars, Finalized
  <2>3. EndTypes'
    <3>1. EndTypes /\ EvidenceTypes
      BY AgentTypeParts DEF AgentInv
    <3>. QED
      BY <1>6, <2>1, <3>1 DEF EndTypes, EvidenceTypes, Stages
  <2>4. EvidenceInv'
    BY <1>1, <1>6, <2>1 DEF AgentInv, EvidenceInv, evidenceVars
  <2>5. ToolInv'
    BY <1>1, <1>6 DEF AgentInv, ToolInv, toolVars, outsideVars
  <2>6. EndInv'
    BY <1>6, <2>1 DEF EndInv
  <2>. QED
    BY <1>1, <1>3, <2>2, <2>3, <2>4, <2>5, <2>6, AgentTypesKept, AgentTypePartsThen DEF AgentInv
<1>. QED
  BY <1>4, <1>5, <1>6 DEF AcceptAnswer

LEMMA VoiceReturnsKeeps ==
  ASSUME AgentInv, VoiceReturns
  PROVE  AgentInv'
<1>1. /\ stage = "voice"
      /\ UNCHANGED modelVars /\ UNCHANGED toolVars /\ UNCHANGED auditVars
      /\ UNCHANGED evidenceVars /\ UNCHANGED outsideVars /\ UNCHANGED recordVars
  BY DEF VoiceReturns
<1>2. PICK how \in {"answer", "cancelled"} :
        End(how) /\ (how = "cancelled" => aborted)
  BY DEF VoiceReturns
<1>3. stage' = "ended" /\ outcome' = how /\ citesOut' = citesOut
  BY <1>2 DEF End
<1>4. AuditInv'
  BY <1>1, <1>3, AuditKept
  DEF AgentInv, modelVars, auditVars, outsideVars, recordVars, Early, InCall
<1>5. EndTypes'
  <2>1. EndTypes
    BY AgentTypeParts DEF AgentInv
  <2>. QED
    BY <1>3, <2>1 DEF EndTypes, Stages
<1>6. EvidenceInv'
  BY <1>1, <1>3 DEF AgentInv, EvidenceInv, evidenceVars
<1>7. ToolInv'
  BY <1>1, <1>3 DEF AgentInv, ToolInv, toolVars, outsideVars
<1>8. EndInv'
  BY <1>1, <1>2, <1>3 DEF EndInv, outsideVars
<1>. QED
  BY <1>1, <1>4, <1>5, <1>6, <1>7, <1>8, AgentTypesKept, AgentTypePartsThen DEF AgentInv

LEMMA BeginToolsKeeps ==
  ASSUME AgentInv, BeginTools
  PROVE  AgentInv'
<1>1. /\ stage = "judging" /\ Finalize("completed")
      /\ UNCHANGED modelVars /\ UNCHANGED evidenceVars /\ UNCHANGED outsideVars
      /\ UNCHANGED recordVars
  BY DEF BeginTools
<1>2. stage \in InCall /\ "completed" \in RowKinds /\ AuditedAs("completed")
  BY <1>1 DEF InCall, RowKinds, Finalize, AuditedAs
<1>3. ModelTypes' /\ RecordTypes' /\ step' = step
  BY <1>1, AgentTypesKept DEF AgentInv, modelVars
<1>4. CASE ~ Finalized \/ response.lost \/ Halted
  <2>. DEFINE how == IF ~ Finalized THEN "cancelled"
                     ELSE IF response.lost THEN "failed" ELSE HaltedAs
  <2>1. UNCHANGED toolVars /\ End(how)
    BY <1>4 DEF BeginTools
  <2>2. /\ how \in {"cancelled", "failed", "invalid"}
        /\ how = "cancelled" => aborted \/ status # "running"
    BY HaltedKind DEF Finalized
  <2>. HIDE DEF how
  <2>. QED
    BY <1>1, <1>2, <1>3, <2>1, <2>2, ClosesAndEnds
<1>5. CASE ~ (~ Finalized \/ response.lost \/ Halted)
  <2>1. stage' = "tools" /\ phaseError' = "" /\ outcome' = outcome /\ citesOut' = citesOut
    BY <1>5 DEF BeginTools, endVars
  <2>2. PICK n \in 1 .. MaxCalls :
          /\ calls' = [c \in 1 .. n |-> [state |-> "queued", refs |-> {}, fits |-> TRUE]]
          /\ owed' = n
    BY <1>5 DEF BeginTools
  <2>3. outcome = "" /\ outcome' = ""
    BY <1>1, <2>1 DEF AgentInv, EndInv
  <2>4. AuditTypes' /\ AuditInv'
    BY <1>1, <1>2, <1>3, <2>1, <2>3, AuditCloses DEF AgentInv, outsideVars
  <2>5. ToolTypes'
    <3>1. [state |-> "queued", refs |-> {}, fits |-> TRUE] \in ToolCall
      BY DEF ToolCall, CallState
    <3>2. calls' \in [1 .. n -> ToolCall] /\ n \in Nat /\ n \in 0 .. MaxCalls
      BY <2>2, <3>1, AgentAssumption
    <3>3. calls' \in Seq(ToolCall)
      BY <3>2, SeqDef, Zenon
    <3>. QED
      BY <2>1, <2>2, <3>2, <3>3 DEF ToolTypes
  <2>6. EndTypes'
    <3>1. EndTypes
      BY AgentTypeParts DEF AgentInv
    <3>. QED
      BY <2>1, <3>1 DEF EndTypes, Stages
  <2>7. EvidenceInv'
    BY <1>1, <2>1, <2>3 DEF AgentInv, EvidenceInv, evidenceVars
  <2>8. ToolInv' /\ EndInv'
    BY <2>1, <2>3 DEF ToolInv, EndInv
  <2>. QED
    BY <1>1, <1>3, <2>4, <2>5, <2>6, <2>7, <2>8, AgentTypesKept, AgentTypePartsThen DEF AgentInv
<1>. QED
  BY <1>4, <1>5

(* A step of the tool phase that changes calls, and what a worker saw.      *)
LEMMA ToolMoveKeeps ==
  ASSUME AgentInv, stage = "tools", UNCHANGED <<stage, owed>>, calls' \in Seq(ToolCall),
         phaseError' \in {"", "cancelled", "failed"}, phaseError' = "cancelled" => aborted,
         UNCHANGED modelVars, UNCHANGED auditVars, UNCHANGED evidenceVars,
         UNCHANGED endVars, UNCHANGED outsideVars, RecordTypes', rawLost' = rawLost
  PROVE  AgentInv'
<1>1. ToolTypes'
  <2>1. ToolTypes
    BY AgentTypeParts DEF AgentInv
  <2>. QED
    BY <2>1 DEF ToolTypes
<1>2. EndTypes'
  <2>1. EndTypes
    BY AgentTypeParts DEF AgentInv
  <2>. QED
    BY <2>1 DEF EndTypes, endVars
<1>3. AuditInv'
  BY AuditKept DEF AgentInv, modelVars, auditVars, outsideVars, endVars, Early, InCall
<1>4. EvidenceInv' /\ EndInv'
  BY DEF AgentInv, EvidenceInv, EndInv, evidenceVars, endVars, modelVars
<1>5. ToolInv'
  BY DEF ToolInv, outsideVars
<1>. QED
  BY <1>1, <1>2, <1>3, <1>4, <1>5, AgentTypesKept, AgentTypePartsThen DEF AgentInv

LEMMA CallSet ==
  ASSUME AgentInv, NEW c \in DOMAIN calls, NEW e \in ToolCall
  PROVE  [calls EXCEPT ![c] = e] \in Seq(ToolCall)
<1>1. calls \in Seq(ToolCall)
  BY AgentTypeParts DEF AgentInv, ToolTypes
<1>2. c \in 1 .. Len(calls)
  BY <1>1, LenProperties
<1>. QED
  BY <1>1, <1>2, ExceptSeq

LEMMA CallMoved ==
  ASSUME AgentInv, NEW c \in DOMAIN calls, NEW at \in CallState
  PROVE  [calls EXCEPT ![c].state = at] \in Seq(ToolCall)
<1>1. calls \in Seq(ToolCall)
  BY AgentTypeParts DEF AgentInv, ToolTypes
<1>2. calls[c] \in ToolCall
  BY <1>1, LenProperties, ElementOfSeq
<1>3. [calls[c] EXCEPT !.state = at] \in ToolCall
  BY <1>2 DEF ToolCall
<1>4. [calls EXCEPT ![c].state = at] = [calls EXCEPT ![c] = [calls[c] EXCEPT !.state = at]]
  BY Zenon
<1>. QED
  BY <1>3, <1>4, CallSet

LEMMA StartToolKeeps ==
  ASSUME AgentInv, NEW c \in DOMAIN calls, StartTool(c)
  PROVE  AgentInv'
<1>1. /\ stage = "tools" /\ calls' = [calls EXCEPT ![c].state = "running"]
      /\ stage' = stage /\ owed' = owed /\ phaseError' = phaseError
      /\ UNCHANGED modelVars /\ UNCHANGED auditVars /\ UNCHANGED evidenceVars
      /\ UNCHANGED endVars /\ UNCHANGED outsideVars /\ UNCHANGED recordVars
  BY DEF StartTool
<1>2. calls' \in Seq(ToolCall)
  <2>1. "running" \in CallState
    BY DEF CallState
  <2>. QED
    BY <1>1, <2>1, CallMoved
<1>3. /\ phaseError' \in {"", "cancelled", "failed"} /\ (phaseError' = "cancelled" => aborted)
      /\ RecordTypes' /\ rawLost' = rawLost
  BY <1>1, AgentTypeParts, AgentTypesKept DEF AgentInv, ToolTypes, ToolInv, recordVars
<1>. QED
  BY <1>1, <1>2, <1>3, ToolMoveKeeps

LEMMA ToolReturnsKeeps ==
  ASSUME AgentInv, NEW c \in DOMAIN calls, ToolReturns(c)
  PROVE  AgentInv'
<1>1. /\ stage = "tools" /\ stage' = stage /\ owed' = owed
      /\ UNCHANGED modelVars /\ UNCHANGED auditVars /\ UNCHANGED evidenceVars
      /\ UNCHANGED endVars /\ UNCHANGED outsideVars /\ UNCHANGED recordVars
  BY DEF ToolReturns
<1>2. /\ phaseError \in {"", "cancelled", "failed"} /\ (phaseError = "cancelled" => aborted)
      /\ RecordTypes' /\ rawLost' = rawLost
  BY <1>1, AgentTypeParts, AgentTypesKept DEF AgentInv, ToolTypes, ToolInv, recordVars
<1>3. phaseError' \in {"", "cancelled", "failed"} /\ (phaseError' = "cancelled" => aborted)
  <2>1. CASE SawHalt
    BY <1>2, <2>1, HaltedKind DEF SawHalt
  <2>2. CASE UNCHANGED phaseError
    BY <1>2, <2>2
  <2>. QED
    BY <2>1, <2>2 DEF ToolReturns
<1>4. calls' \in Seq(ToolCall)
  <2>1. CASE calls' = [calls EXCEPT ![c].state = "failed"]
    <3>1. "failed" \in CallState
      BY DEF CallState
    <3>. QED
      BY <2>1, <3>1, CallMoved
  <2>2. ASSUME NEW refs \in SUBSET Refs, NEW fits \in BOOLEAN,
               calls' = [calls EXCEPT ![c] = [state |-> "ok", refs |-> refs, fits |-> fits]]
        PROVE  calls' \in Seq(ToolCall)
    <3>1. [state |-> "ok", refs |-> refs, fits |-> fits] \in ToolCall
      BY DEF ToolCall, CallState
    <3>. QED
      BY <2>2, <3>1, CallSet
  <2>. QED
    BY <2>1, <2>2 DEF ToolReturns
<1>. QED
  BY <1>1, <1>2, <1>3, <1>4, ToolMoveKeeps

LEMMA ToolRecordFailsKeeps ==
  ASSUME AgentInv, NEW c \in DOMAIN calls, ToolRecordFails(c)
  PROVE  AgentInv'
<1>1. /\ stage = "tools" /\ stage' = stage /\ owed' = owed
      /\ recordFaults < MaxRecordFaults /\ recordFaults' = recordFaults + 1
      /\ phaseError' = IF phaseError = "" THEN "failed" ELSE phaseError
      /\ calls' = [calls EXCEPT ![c].state = "failed"]
      /\ UNCHANGED modelVars /\ UNCHANGED auditVars /\ UNCHANGED evidenceVars
      /\ UNCHANGED endVars /\ UNCHANGED outsideVars /\ rawLost' = rawLost
  BY DEF ToolRecordFails
<1>2. phaseError' \in {"", "cancelled", "failed"} /\ (phaseError' = "cancelled" => aborted)
  BY <1>1, AgentTypeParts DEF AgentInv, ToolTypes, ToolInv
<1>3. RecordTypes'
  <2>1. RecordTypes
    BY AgentTypeParts DEF AgentInv
  <2>. QED
    <3>1. recordFaults + 1 \in 0 .. MaxRecordFaults
      <4>1. recordFaults \in 0 .. MaxRecordFaults /\ recordFaults < MaxRecordFaults
        BY <1>1, <2>1 DEF RecordTypes
      <4>2. MaxRecordFaults \in Nat
        BY AgentAssumption
      <4>. QED
        BY <4>1, <4>2
    <3>. QED
      BY <1>1, <2>1, <3>1, Zenon DEF RecordTypes
<1>4. calls' \in Seq(ToolCall)
  <2>1. "failed" \in CallState
    BY DEF CallState
  <2>. QED
    BY <1>1, <2>1, CallMoved
<1>. QED
  BY <1>1, <1>2, <1>3, <1>4, ToolMoveKeeps

LEMMA EndToolsKeeps ==
  ASSUME AgentInv, EndTools
  PROVE  AgentInv'
<1>1. /\ stage = "tools" /\ WorkersDone /\ calls' = calls /\ phaseError' = phaseError
      /\ UNCHANGED modelVars /\ UNCHANGED auditVars
      /\ UNCHANGED outsideVars /\ UNCHANGED recordVars
  BY DEF EndTools
<1>2. \A c \in DOMAIN calls : calls[c].state # "running"
  BY <1>1 DEF WorkersDone, InState
<1>3. ToolTypes /\ EvidenceTypes /\ EndTypes
  BY AgentTypeParts DEF AgentInv
<1>4. CASE Halted \/ phaseError # ""
  <2>. DEFINE how == IF Halted THEN HaltedAs ELSE phaseError
  <2>1. End(how) /\ owed' = owed /\ citable' = citable /\ shown' = shown
    BY <1>4 DEF EndTools
  <2>2. /\ how \in {"cancelled", "failed", "invalid"}
        /\ how = "cancelled" => aborted \/ status # "running"
    BY <1>3, <1>4, HaltedKind DEF ToolTypes, AgentInv, ToolInv
  <2>. HIDE DEF how
  <2>3. stage' = "ended" /\ outcome' = how
    BY <2>1 DEF End
  <2>4. AuditInv'
    BY <1>1, <2>2, <2>3, AuditKept
    DEF AgentInv, modelVars, auditVars, outsideVars, recordVars, Early, InCall
  <2>5. EndTypes' /\ EvidenceInv' /\ ToolInv' /\ EndInv'
    BY <1>1, <1>2, <2>1, <2>2, EndKeeps DEF outsideVars
  <2>6. UNCHANGED toolVars /\ UNCHANGED evidenceVars
    BY <1>1, <2>1 DEF toolVars, evidenceVars
  <2>. QED
    BY <1>1, <2>4, <2>5, <2>6, AgentTypesKept, AgentTypePartsThen DEF AgentInv
<1>5. CASE ~ (Halted \/ phaseError # "")
  <2>1. /\ stage' = "top" /\ owed' = 0
        /\ citable' = citable \union Delivered /\ shown' = shown \union Delivered
        /\ outcome' = outcome /\ citesOut' = citesOut
    BY <1>5 DEF EndTools, Delivered, endVars
  <2>2. Delivered \subseteq Refs
    <3>1. calls \in Seq(ToolCall)
      BY <1>3 DEF ToolTypes
    <3>2. \A c \in DOMAIN calls : calls[c] \in ToolCall
      BY <3>1, LenProperties, ElementOfSeq
    <3>3. \A c \in DOMAIN calls : calls[c].refs \subseteq Refs
      BY <3>2 DEF ToolCall
    <3>. QED
      BY <3>3 DEF Delivered, InState
  <2>3. outcome = "" /\ outcome' = ""
    BY <1>1, <2>1 DEF AgentInv, EndInv
  <2>4. AuditInv'
    BY <1>1, <2>1, <2>3, AuditKept
    DEF AgentInv, modelVars, auditVars, outsideVars, recordVars, Early, InCall
  <2>5. ToolTypes'
    <3>1. 0 \in 0 .. MaxCalls
      BY AgentAssumption
    <3>. QED
      BY <1>1, <1>3, <2>1, <3>1, Zenon DEF ToolTypes
  <2>6. EvidenceTypes'
    BY <1>3, <2>1, <2>2 DEF EvidenceTypes, Citable
  <2>7. EndTypes'
    BY <1>3, <2>1 DEF EndTypes, Stages
  <2>8. EvidenceInv'
    BY <1>1, <2>1, <2>3 DEF AgentInv, EvidenceInv
  <2>9. ToolInv'
    BY <1>1, <1>2, <2>1 DEF AgentInv, ToolInv, outsideVars
  <2>10. EndInv'
    BY <2>1, <2>3 DEF EndInv
  <2>. QED
    BY <1>1, <2>4, <2>5, <2>6, <2>7, <2>8, <2>9, <2>10, AgentTypesKept, AgentTypePartsThen
    DEF AgentInv
<1>. QED
  BY <1>4, <1>5

LEMMA AgentInvStutter == AgentInv /\ UNCHANGED agentVars => AgentInv'
<1>. SUFFICES ASSUME AgentInv, UNCHANGED agentVars PROVE AgentInv'
  OBVIOUS
<1>1. /\ UNCHANGED stage /\ UNCHANGED modelVars /\ UNCHANGED toolVars
      /\ UNCHANGED auditVars /\ UNCHANGED evidenceVars /\ UNCHANGED endVars
      /\ UNCHANGED outsideVars /\ UNCHANGED recordVars
  BY DEF agentVars
<1>2. EndTypes'
  <2>1. EndTypes
    BY AgentTypeParts DEF AgentInv
  <2>. QED
    BY <1>1, <2>1 DEF EndTypes, endVars
<1>3. AuditInv'
  BY <1>1, AuditKept
  DEF AgentInv, modelVars, auditVars, outsideVars, endVars, recordVars, Early, InCall
<1>4. EvidenceInv' /\ ToolInv' /\ EndInv'
  BY <1>1 DEF AgentInv, EvidenceInv, ToolInv, EndInv, evidenceVars, endVars, modelVars,
              outsideVars, toolVars
<1>. QED
  BY <1>1, <1>2, <1>3, <1>4, AgentTypesKept, AgentTypePartsThen DEF AgentInv

(* The inductive invariant of the agent strategy.                           *)
THEOREM AgentInvariance == AgentSpec => []AgentInv
<1>1. AgentInv /\ [AgentNext]_agentVars => AgentInv'
  <2>. SUFFICES ASSUME AgentInv, AgentNext PROVE AgentInv'
    BY AgentInvStutter
  <2>1. CASE StrategyStep
    BY <2>1, RecallKeeps, LessonsKeep, StopAtTopKeeps, BeginStepKeeps, CallCutShortKeeps,
       RetryCallKeeps, RejectKeeps, AcceptAnswerKeeps, VoiceReturnsKeeps, BeginToolsKeeps,
       StartToolKeeps, ToolReturnsKeeps, EndToolsKeeps, Zenon DEF StrategyStep
  <2>2. CASE GatewayStep
    BY <2>2, CallRefusedOnceKeeps, CallFailsKeeps, RawRecordFailsKeeps, AnswerUnreadableKeeps,
       DeliverKeeps, ToolRecordFailsKeeps, Zenon DEF GatewayStep
  <2>. QED
    BY <2>1, <2>2, PrepareKeeps, OutsideKeeps DEF AgentNext
<1>. QED
  BY <1>1, AgentInvInit, PTL DEF AgentSpec

(* The strategy's variables have their types.                               *)
THEOREM AgentTypeCorrect == AgentSpec => []AgentTypeOK
<1>1. AgentInv => AgentTypeOK
  BY DEF AgentInv
<1>. QED
  BY <1>1, AgentInvariance, PTL

(* Every step is audited once and truthfully, an answer rests on evidence   *)
(* the model was sent, tools end before the strategy, and a cancellation is *)
(* reported only when there was one.                                        *)
THEOREM AgentSound == AgentSpec => []AgentSafe
<1>1. AgentInv => AgentSafe
  <2>. SUFFICES ASSUME AgentInv PROVE AgentSafe
    OBVIOUS
  <2>. USE DEF AgentInv
  <2>1. AuditTypes /\ step \in 0 .. MaxSteps /\ stage \in Stages
    BY AgentTypeParts DEF ModelTypes, EndTypes
  <2>2. ASSUME NEW s \in Steps
        PROVE  \/ StepBlank(s) \/ StepClosed(s)
               \/ /\ StepOpen(s) /\ s = step
                  /\ stage \in InCall \/ (stage = "ended" /\ rawLost)
    <3>1. s > step \/ s < step \/ (s = step /\ step # 0)
      BY <2>1 DEF Steps
    <3>2. step # 0 => stage \in InCall \union {"top", "tools", "voice", "ended"}
      BY <2>1 DEF Stages, AuditInv, Early, InCall
    <3>. QED
      BY <3>1, <3>2 DEF AuditInv
  <2>3. AuditIsSingle
    <3>1. ASSUME NEW s \in Steps
          PROVE  /\ Len(rowsOf[s]) <= 1
                 /\ Len(eventsOf[s]) <= 2
                 /\ Len(eventsOf[s]) = 2 =>
                      /\ Len(rowsOf[s]) = 1
                      /\ (eventsOf[s][2] = "completed") = (rowsOf[s][1] = "completed")
      <4>1. /\ Len(rowsOf[s]) <= 1
            /\ Len(eventsOf[s]) <= 2
            /\ Len(eventsOf[s]) = 2 => Len(rowsOf[s]) = 1
        <5>1. CASE StepBlank(s) \/ StepOpen(s)
          <6>1. Len(rowsOf[s]) = 0 /\ (Len(eventsOf[s]) = 0 \/ Len(eventsOf[s]) = 1)
            BY <5>1 DEF StepBlank, StepOpen
          <6>. QED
            BY <6>1
        <5>2. CASE StepClosed(s)
          <6>1. Len(rowsOf[s]) = 1 /\ (Len(eventsOf[s]) = 1 \/ Len(eventsOf[s]) = 2)
            BY <5>2 DEF StepClosed
          <6>2. 1 <= 1 /\ 1 <= 2 /\ 2 <= 2
            OBVIOUS
          <6>. QED
            BY <6>1, <6>2, Zenon
        <5>. QED
          BY <2>2, <5>1, <5>2
      <4>2. Len(eventsOf[s]) = 2 =>
              (eventsOf[s][2] = "completed" <=> rowsOf[s][1] = "completed")
        BY <2>2 DEF StepBlank, StepOpen, StepClosed
      <4>. QED
        <5>1. Len(eventsOf[s]) = 2 =>
                (eventsOf[s][2] = "completed") = (rowsOf[s][1] = "completed")
          BY <4>2, Zenon
        <5>. QED
          BY <4>1, <5>1, Zenon
    <3>. QED
      BY <3>1 DEF AuditIsSingle
  <2>4. EndIsAudited
    <3>1. ASSUME stage = "ended", NEW s \in Steps, Opened(s), ~ (rawLost /\ s = step)
          PROVE  /\ Len(rowsOf[s]) = 1
                 /\ Len(eventsOf[s]) = 1 => rowsOf[s][1] = "cancelled" \/ status = "terminal"
      <4>1. Len(eventsOf[s]) # 0
        BY <2>1, <3>1, EmptySeq DEF Opened, AuditTypes
      <4>2. StepClosed(s)
        BY <2>2, <3>1, <4>1 DEF StepBlank, InCall
      <4>. QED
        BY <4>2 DEF StepClosed
    <3>. QED
      BY <3>1 DEF EndIsAudited
  <2>5. AnswerIsGrounded
    <3>1. outcome = "answer" => citesOut \subseteq citable /\ citesOut \subseteq shown
      BY DEF EvidenceInv
    <3>2. outcome = "answer" => LastOf(eventsOf[step]) = "completed"
      BY DEF AuditInv, StepCompleted, LastOf
    <3>. QED
      BY <3>1, <3>2 DEF AnswerIsGrounded
  <2>6. ToolsAreSettled
    BY DEF ToolsAreSettled, ToolInv, InState
  <2>7. EndIsHonest
    BY DEF EndIsHonest, EndInv
  <2>. QED
    BY <2>3, <2>4, <2>5, <2>6, <2>7 DEF AgentSafe
<1>. QED
  BY <1>1, AgentInvariance, PTL

-----------------------------------------------------------------------------
(* The supervisor.                                                          *)

FileType ==
  [stop : BOOLEAN, restart : BOOLEAN, crashes : 0 .. MaxCrashRestarts + 1,
   reason : {"other", "newer", "drain"}]
SupType ==
  [pc : Pcs, kid : Kids \union {NoKid}, heard : SUBSET Messages, stopping : BOOLEAN,
   then : Nexts]
KidStates ==
  {"none", "starting", "ready", "failing", "draining", "stuck", "dying", "dead"}
KidType == [at : KidStates, parent : BOOLEAN]

Serving == {"starting", "ready", "draining", "stuck"}
WithChild == {"kill", "startup", "commit", "supervise", "drain", "exit"}

(* Where the loop has a child.                                              *)
LoopInv ==
  /\ sup.pc \in WithChild => sup.kid # NoKid
  /\ sup.pc \in {"down", "account"} => sup.kid = NoKid

(* A reason to hold is written on the way to the top of the loop, and ends  *)
(* a child from there only; a drain hold only together with a stop.         *)
HoldReasonInv ==
  file.reason # "other" =>
    /\ sup.pc \in {"down", "top", "out", "kill"}
    /\ sup.pc = "kill" =>
         sup.then = "top" /\ (file.stop \/ file.reason = "newer")

(* Every spawn but the latest, while that one is not accounted for, has its *)
(* crash on file, and what may still be accounted for leaves room for it.   *)
BudgetInv ==
  /\ Unsettled => fresh <= file.crashes + 1
  /\ ~ Unsettled => fresh <= file.crashes
  /\ fresh <= MaxCrashRestarts
  /\ file.crashes <= MaxCrashRestarts
  /\ sup.pc \in {"startup", "commit", "supervise", "drain", "exit", "account"} =>
       file.crashes < MaxCrashRestarts
  /\ sup.pc = "kill" /\ sup.then \in {"spawn", "account"} =>
       file.crashes < MaxCrashRestarts

(* Processes are spawned in order, and not fewer than are counted.          *)
SpawnInv ==
  \A k \in Kids : kids[k].at = "none" => fresh < k /\ (Unsettled => 1 < k)

(* A serving child of this supervisor is its current one.                   *)
ChildInv ==
  \A k \in Kids : kids[k].parent /\ kids[k].at \in Serving => k = sup.kid

SupervisorInv ==
  /\ SupervisorTypeOK /\ StopIsKept /\ LoopInv /\ HoldReasonInv
  /\ BudgetInv /\ SpawnInv /\ ChildInv

LEMMA SupervisorTypes ==
  SupervisorTypeOK <=>
    /\ file \in FileType /\ lock \in BOOLEAN /\ sup \in SupType
    /\ handler \in Kids \union {NoKid} /\ kids \in [Kids -> KidType]
    /\ mail \subseteq Messages /\ stopStands \in BOOLEAN
    /\ fresh \in 0 .. MaxSpawns /\ slack \in [Mishaps -> Nat]
<1>1. ASSUME SupervisorTypeOK
      PROVE  /\ file \in FileType /\ lock \in BOOLEAN /\ sup \in SupType
             /\ handler \in Kids \union {NoKid} /\ kids \in [Kids -> KidType]
             /\ mail \subseteq Messages /\ stopStands \in BOOLEAN
             /\ fresh \in 0 .. MaxSpawns /\ slack \in [Mishaps -> Nat]
  BY <1>1, Zenon DEF SupervisorTypeOK, FileType, SupType, KidType, KidStates
<1>2. ASSUME /\ file \in FileType /\ lock \in BOOLEAN /\ sup \in SupType
             /\ handler \in Kids \union {NoKid} /\ kids \in [Kids -> KidType]
             /\ mail \subseteq Messages /\ stopStands \in BOOLEAN
             /\ fresh \in 0 .. MaxSpawns /\ slack \in [Mishaps -> Nat]
      PROVE  SupervisorTypeOK
  BY <1>2, Zenon DEF SupervisorTypeOK, FileType, SupType, KidType, KidStates
<1>. QED
  BY <1>1, <1>2, Zenon

LEMMA SupervisorTypesThen ==
  ASSUME file' \in FileType, lock' \in BOOLEAN, sup' \in SupType,
         handler' \in Kids \union {NoKid}, kids' \in [Kids -> KidType],
         mail' \subseteq Messages, stopStands' \in BOOLEAN,
         fresh' \in 0 .. MaxSpawns, slack' \in [Mishaps -> Nat]
  PROVE  SupervisorTypeOK'
BY Zenon DEF SupervisorTypeOK, FileType, SupType, KidType, KidStates

LEMMA SupervisorInvInit == SupervisorInit => SupervisorInv
<1>. SUFFICES ASSUME SupervisorInit PROVE SupervisorInv
  OBVIOUS
<1>1. /\ file = [stop |-> FALSE, restart |-> FALSE, crashes |-> 0, reason |-> "other"]
      /\ lock = FALSE /\ sup = Down /\ handler = NoKid /\ mail = {}
      /\ kids = [k \in Kids |-> [at |-> "none", parent |-> FALSE]]
      /\ stopStands = FALSE /\ fresh = 0 /\ slack \in SupervisorLoads
  BY DEF SupervisorInit
<1>2. MaxCrashRestarts \in Nat /\ MaxSpawns \in Nat /\ slack \in [Mishaps -> Nat]
  BY <1>1, SupervisorAssumption
<1>3. Down \in SupType /\ Down.pc = "down" /\ Down.kid = NoKid
  BY DEF Down, SupType, Pcs, Nexts, Messages
<1>4. SupervisorTypeOK
  <2>1. file \in FileType
    BY <1>1, <1>2 DEF FileType
  <2>2. kids \in [Kids -> KidType]
    BY <1>1 DEF KidType, KidStates
  <2>3. fresh \in 0 .. MaxSpawns
    BY <1>1, <1>2
  <2>. QED
    BY <1>1, <1>2, <1>3, <2>1, <2>2, <2>3, SupervisorTypes
<1>5. StopIsKept /\ LoopInv /\ HoldReasonInv
  BY <1>1, <1>3 DEF StopIsKept, LoopInv, HoldReasonInv, WithChild
<1>6. ~ Unsettled
  BY <1>1, <1>3 DEF Unsettled
<1>7. BudgetInv
  BY <1>1, <1>2, <1>3, <1>6 DEF BudgetInv
<1>8. SpawnInv
  BY <1>1, <1>6 DEF SpawnInv, Kids
<1>9. ChildInv
  BY <1>1 DEF ChildInv
<1>. QED
  BY <1>4, <1>5, <1>7, <1>8, <1>9 DEF SupervisorInv

LEMMA DecisionCases ==
  ASSUME NEW f \in FileType
  PROVE  /\ Decision(f) = "spawn" =>
              ~ f.stop /\ f.reason = "other" /\ f.crashes < MaxCrashRestarts
         /\ Decision(f) = "drain" <=> ~ f.stop /\ f.reason = "drain"
<1>1. /\ f.stop \in BOOLEAN /\ f.reason \in {"other", "newer", "drain"}
      /\ f.crashes \in 0 .. MaxCrashRestarts + 1
  BY DEF FileType
<1>2. CASE f.stop
  BY <1>2 DEF Decision
<1>3. CASE ~ f.stop /\ f.reason = "newer"
  BY <1>3 DEF Decision
<1>4. CASE ~ f.stop /\ f.reason = "drain"
  BY <1>4 DEF Decision
<1>5. CASE ~ f.stop /\ f.reason = "other" /\ f.crashes >= MaxCrashRestarts
  BY <1>5 DEF Decision
<1>6. CASE ~ f.stop /\ f.reason = "other" /\ ~ (f.crashes >= MaxCrashRestarts)
  <2>1. Decision(f) = "spawn"
    BY <1>6 DEF Decision
  <2>2. f.crashes < MaxCrashRestarts
    BY <1>1, <1>6, SupervisorAssumption
  <2>. QED
    BY <1>6, <2>1, <2>2
<1>. QED
  BY <1>1, <1>2, <1>3, <1>4, <1>5, <1>6

(* What one process's move does to the table.                               *)
LEMMA PutEffect ==
  ASSUME kids \in [Kids -> KidType], NEW k \in Kids, NEW at \in KidStates, Put(k, at)
  PROVE  /\ kids' \in [Kids -> KidType]
         /\ kids'[k].at = at /\ kids'[k].parent = kids[k].parent
         /\ \A j \in Kids : j # k => kids'[j] = kids[j]
<1>1. kids' = [kids EXCEPT ![k] = [kids[k] EXCEPT !.at = at]]
  BY Zenon DEF Put
<1>2. kids[k] \in KidType
  OBVIOUS
<1>3. /\ [kids[k] EXCEPT !.at = at] \in KidType
      /\ [kids[k] EXCEPT !.at = at].at = at
      /\ [kids[k] EXCEPT !.at = at].parent = kids[k].parent
  BY <1>2 DEF KidType
<1>4. kids'[k] = [kids[k] EXCEPT !.at = at]
  BY <1>1, Zenon
<1>. QED
  BY <1>1, <1>3, <1>4, Zenon

(* A table in which no process appears, disappears or starts to serve.      *)
SameProcesses ==
  /\ kids' \in [Kids -> KidType]
  /\ \A k \in Kids :
       /\ kids'[k].at = "none" <=> kids[k].at = "none"
       /\ kids'[k].parent /\ kids'[k].at \in Serving =>
            kids[k].parent /\ kids[k].at \in Serving

LEMMA PutSame ==
  ASSUME kids \in [Kids -> KidType], NEW k \in Kids, NEW at \in KidStates, Put(k, at),
         at = "none" <=> kids[k].at = "none",
         at \in Serving => kids[k].at \in Serving
  PROVE  SameProcesses
<1>1. /\ kids' \in [Kids -> KidType]
      /\ kids'[k].at = at /\ kids'[k].parent = kids[k].parent
      /\ \A j \in Kids : j # k => kids'[j] = kids[j]
  BY PutEffect
<1>2. ASSUME NEW j \in Kids
      PROVE  /\ kids'[j].at = "none" <=> kids[j].at = "none"
             /\ kids'[j].parent /\ kids'[j].at \in Serving =>
                  kids[j].parent /\ kids[j].at \in Serving
  BY <1>1, <1>2
<1>. QED
  BY <1>1, <1>2 DEF SameProcesses

LEMMA TerminatedKind ==
  ASSUME NEW at \in KidStates
  PROVE  /\ Terminated(at) \in KidStates /\ AskedToStop(at) \in KidStates
         /\ Terminated(at) = "none" <=> at = "none"
         /\ AskedToStop(at) = "none" <=> at = "none"
         /\ Terminated(at) \in Serving => at \in Serving
         /\ AskedToStop(at) \in Serving => at \in Serving
BY DEF Terminated, AskedToStop, KidStates, Serving

(* The types of the invariant, field by field.                              *)
LEMMA SupervisorFields ==
  ASSUME SupervisorInv
  PROVE  /\ file \in FileType /\ lock \in BOOLEAN /\ sup \in SupType
         /\ handler \in Kids \union {NoKid} /\ kids \in [Kids -> KidType]
         /\ mail \subseteq Messages /\ stopStands \in BOOLEAN
         /\ fresh \in 0 .. MaxSpawns /\ slack \in [Mishaps -> Nat]
         /\ file.stop \in BOOLEAN /\ file.crashes \in Nat
         /\ file.reason \in {"other", "newer", "drain"}
         /\ sup.kid \in Kids \union {NoKid} /\ sup.stopping \in BOOLEAN
         /\ sup.then \in Nexts /\ sup.pc \in Pcs
         /\ MaxCrashRestarts \in Nat \ {0} /\ MaxSpawns \in Nat \ {0} /\ fresh \in Nat
<1>1. /\ file \in FileType /\ lock \in BOOLEAN /\ sup \in SupType
      /\ handler \in Kids \union {NoKid} /\ kids \in [Kids -> KidType]
      /\ mail \subseteq Messages /\ stopStands \in BOOLEAN
      /\ fresh \in 0 .. MaxSpawns /\ slack \in [Mishaps -> Nat]
  BY SupervisorTypes DEF SupervisorInv
<1>2. MaxCrashRestarts \in Nat \ {0} /\ MaxSpawns \in Nat \ {0}
  BY SupervisorAssumption
<1>3. /\ file.stop \in BOOLEAN /\ file.crashes \in 0 .. MaxCrashRestarts + 1
      /\ file.reason \in {"other", "newer", "drain"}
  BY <1>1 DEF FileType
<1>4. /\ sup.kid \in Kids \union {NoKid} /\ sup.stopping \in BOOLEAN
      /\ sup.then \in Nexts /\ sup.pc \in Pcs
  BY <1>1 DEF SupType
<1>5. file.crashes \in Nat /\ fresh \in Nat
  BY <1>1, <1>2, <1>3
<1>. QED
  BY <1>1, <1>2, <1>3, <1>4, <1>5, Zenon

LEMMA SpendKeeps ==
  ASSUME SupervisorInv, NEW what \in Mishaps, Spend(what)
  PROVE  slack' \in [Mishaps -> Nat]
<1>1. /\ slack \in [Mishaps -> Nat] /\ slack[what] > 0
      /\ slack' = [slack EXCEPT ![what] = slack[what] - 1]
  BY SupervisorFields DEF Spend
<1>2. slack[what] - 1 \in Nat
  BY <1>1
<1>. QED
  BY <1>1, <1>2

LEMMA LessOneFacts ==
  ASSUME SupervisorInv
  PROVE  /\ LessOne \in 0 .. MaxSpawns /\ LessOne <= fresh
         /\ LessOne <= file.crashes /\ LessOne <= MaxCrashRestarts
<1>1. /\ fresh \in Nat /\ fresh \in 0 .. MaxSpawns /\ file.crashes \in Nat
      /\ MaxCrashRestarts \in Nat /\ MaxSpawns \in Nat
  BY SupervisorFields
<1>2. /\ Unsettled => fresh <= file.crashes + 1
      /\ ~ Unsettled => fresh <= file.crashes
      /\ fresh <= MaxCrashRestarts
  BY DEF SupervisorInv, BudgetInv
<1>3. CASE Unsettled /\ fresh > 0
  <2>1. LessOne = fresh - 1
    BY <1>3 DEF LessOne
  <2>. QED
    BY <1>1, <1>2, <1>3, <2>1
<1>4. CASE ~ (Unsettled /\ fresh > 0)
  <2>1. LessOne = fresh
    BY <1>4 DEF LessOne
  <2>. QED
    BY <1>1, <1>2, <1>4, <2>1
<1>. QED
  BY <1>3, <1>4

LEMMA SpawnKept ==
  ASSUME SupervisorInv, SameProcesses, fresh' \in Nat, fresh' <= fresh, Unsettled' => Unsettled
  PROVE  SpawnInv'
<1>1. fresh \in Nat
  BY SupervisorFields
<1>2. ASSUME NEW k \in Kids, kids'[k].at = "none"
      PROVE  fresh' < k /\ (Unsettled' => 1 < k)
  <2>1. kids[k].at = "none"
    BY <1>2 DEF SameProcesses
  <2>2. fresh < k /\ (Unsettled => 1 < k) /\ k \in Int
    BY <2>1 DEF SupervisorInv, SpawnInv, Kids
  <2>. QED
    BY <1>1, <2>2
<1>. QED
  BY <1>2 DEF SpawnInv

LEMMA ChildKept ==
  ASSUME SupervisorInv, SameProcesses, sup'.kid = sup.kid
  PROVE  ChildInv'
BY DEF SupervisorInv, ChildInv, SameProcesses

LEMMA SameKids ==
  ASSUME SupervisorInv, UNCHANGED kids
  PROVE  SameProcesses
BY SupervisorFields DEF SameProcesses

(* The loop stays where it is.                                              *)
LEMMA LoopKept ==
  ASSUME SupervisorInv, SupervisorTypeOK', SameProcesses,
         UNCHANGED <<file, fresh, stopStands>>,
         sup'.pc = sup.pc, sup'.kid = sup.kid, sup'.then = sup.then
  PROVE  SupervisorInv'
<1>1. Unsettled' = Unsettled
  BY DEF Unsettled
<1>2. fresh' \in Nat /\ fresh' <= fresh
  BY SupervisorFields
<1>3. StopIsKept'
  BY DEF SupervisorInv, StopIsKept
<1>4. LoopInv' /\ HoldReasonInv'
  BY DEF SupervisorInv, LoopInv, HoldReasonInv
<1>5. BudgetInv'
  BY <1>1 DEF SupervisorInv, BudgetInv
<1>. QED
  BY <1>1, <1>2, <1>3, <1>4, <1>5, SpawnKept, ChildKept DEF SupervisorInv

(* The loop goes on with its child, on a file whose crashes did not move.   *)
LEMMA LoopMoves ==
  ASSUME SupervisorInv, SupervisorTypeOK', SameProcesses,
         UNCHANGED <<fresh, stopStands>>,
         file'.stop = file.stop, file'.crashes = file.crashes,
         sup'.kid = sup.kid, sup.kid # NoKid,
         sup'.pc \notin {"down", "account"},
         file'.reason # "other" =>
           /\ sup'.pc \in {"top", "out", "kill"}
           /\ sup'.pc = "kill" =>
                sup'.then = "top" /\ (file'.stop \/ file'.reason = "newer"),
         sup'.pc \in {"startup", "commit", "supervise", "drain", "exit"} =>
           file.crashes < MaxCrashRestarts,
         sup'.pc = "kill" /\ sup'.then \in {"spawn", "account"} =>
           file.crashes < MaxCrashRestarts
  PROVE  SupervisorInv'
<1>1. Unsettled /\ Unsettled'
  BY DEF Unsettled
<1>2. fresh' \in Nat /\ fresh' <= fresh
  BY SupervisorFields
<1>3. StopIsKept'
  BY DEF SupervisorInv, StopIsKept
<1>4. LoopInv'
  BY DEF LoopInv, WithChild
<1>5. HoldReasonInv'
  BY DEF HoldReasonInv
<1>6. BudgetInv'
  BY <1>1 DEF SupervisorInv, BudgetInv
<1>. QED
  BY <1>1, <1>2, <1>3, <1>4, <1>5, <1>6, SpawnKept, ChildKept DEF SupervisorInv

(* sendShutdown and terminateOwnChild begin.                                *)
LEMMA TerminateKeeps ==
  ASSUME SupervisorInv, sup.kid # NoKid, NEW then \in Nexts, Terminate(sup.kid, then),
         file' \in FileType, file'.stop = file.stop, file'.crashes = file.crashes,
         file'.reason # "other" => then = "top" /\ (file'.stop \/ file'.reason = "newer"),
         then \in {"spawn", "account"} => file.crashes < MaxCrashRestarts,
         slack' \in [Mishaps -> Nat],
         UNCHANGED <<lock, handler, mail, stopStands, fresh>>
  PROVE  SupervisorInv'
<1>1. /\ sup \in SupType /\ sup.kid \in Kids /\ kids \in [Kids -> KidType]
      /\ kids[sup.kid].at \in KidStates
  BY SupervisorFields DEF KidType
<1>2. /\ Put(sup.kid, Terminated(kids[sup.kid].at))
      /\ sup' = [sup EXCEPT !.pc = "kill", !.then = then]
  BY DEF Terminate
<1>3. SameProcesses
  BY <1>1, <1>2, PutSame, TerminatedKind
<1>4. sup' \in SupType /\ sup'.pc = "kill" /\ sup'.kid = sup.kid /\ sup'.then = then
  BY <1>1, <1>2 DEF SupType, Pcs
<1>5. SupervisorTypeOK'
  BY <1>3, <1>4, SupervisorFields, SupervisorTypesThen DEF SameProcesses
<1>. QED
  BY <1>3, <1>4, <1>5, LoopMoves

(* A new server process, when none of the old ones serves.                  *)
LEMMA SpawnKeeps ==
  ASSUME SupervisorInv, NEW processes \in [Kids -> KidType], NEW before \in Nat,
         Spawn(processes, before),
         \A j \in Kids : processes[j].at = "none" <=> kids[j].at = "none",
         \A j \in Kids : ~ (processes[j].parent /\ processes[j].at \in Serving),
         before <= fresh, before <= file.crashes, before + 1 <= MaxCrashRestarts,
         file.reason = "other", file.crashes < MaxCrashRestarts,
         UNCHANGED <<file, lock, handler, stopStands, slack>>
  PROVE  SupervisorInv'
<1>1. PICK k \in Kids :
        /\ kids[k].at = "none"
        /\ \A j \in Kids : kids[j].at = "none" => k <= j
        /\ kids' = [processes EXCEPT ![k] = [at |-> "starting", parent |-> TRUE]]
        /\ sup' = [sup EXCEPT !.pc = "startup", !.kid = k, !.heard = {}]
        /\ mail' = {}
        /\ fresh' = before + 1
  BY DEF Spawn
<1>2. /\ sup \in SupType /\ fresh \in Nat /\ file.crashes \in Nat
      /\ MaxCrashRestarts \in Nat /\ MaxSpawns \in Nat /\ k \in 1 .. MaxSpawns /\ k \in Nat
      /\ file \in FileType /\ lock \in BOOLEAN /\ handler \in Kids \union {NoKid}
      /\ stopStands \in BOOLEAN /\ slack \in [Mishaps -> Nat]
  BY SupervisorFields DEF Kids
<1>3. fresh < k
  BY <1>1 DEF SupervisorInv, SpawnInv
<1>4. fresh' \in 0 .. MaxSpawns /\ fresh' <= k /\ fresh' <= file.crashes + 1
      /\ fresh' <= MaxCrashRestarts /\ k # NoKid
  BY <1>1, <1>2, <1>3 DEF NoKid
<1>5. sup' \in SupType /\ sup'.pc = "startup" /\ sup'.kid = k
  BY <1>1, <1>2 DEF SupType, Pcs
<1>6. /\ kids' \in [Kids -> KidType]
      /\ kids'[k].at = "starting"
      /\ \A j \in Kids : j # k => kids'[j] = processes[j]
  <2>1. [at |-> "starting", parent |-> TRUE] \in KidType
    BY DEF KidType, KidStates
  <2>. QED
    BY <1>1, <2>1
<1>7. SupervisorTypeOK'
  BY <1>1, <1>2, <1>4, <1>5, <1>6, SupervisorTypesThen
<1>8. Unsettled'
  BY <1>4, <1>5 DEF Unsettled
<1>9. StopIsKept' /\ LoopInv' /\ HoldReasonInv'
  BY <1>4, <1>5 DEF SupervisorInv, StopIsKept, LoopInv, HoldReasonInv, WithChild
<1>10. BudgetInv'
  BY <1>2, <1>4, <1>5, <1>8 DEF BudgetInv
<1>11. SpawnInv'
  <2>1. ASSUME NEW j \in Kids, kids'[j].at = "none"
        PROVE  fresh' < j /\ 1 < j
    <3>1. j # k /\ kids[j].at = "none"
      BY <1>6, <2>1
    <3>2. k <= j /\ j \in Nat
      BY <1>1, <3>1 DEF Kids
    <3>. QED
      BY <1>2, <1>4, <3>1, <3>2
  <2>. QED
    BY <2>1 DEF SpawnInv
<1>12. ChildInv'
  BY <1>5, <1>6 DEF ChildInv
<1>. QED
  BY <1>7, <1>9, <1>10, <1>11, <1>12 DEF SupervisorInv

(* The loop is left without a child: no process serves for it.              *)
LEMMA ChildlessKeeps ==
  ASSUME SupervisorInv, SupervisorTypeOK', SameProcesses,
         \A k \in Kids : ~ (kids'[k].parent /\ kids'[k].at \in Serving),
         sup'.kid = NoKid, sup'.pc \in {"down", "top", "out", "account"},
         file'.stop = stopStands',
         file'.reason # "other" => sup'.pc # "account",
         file'.crashes <= MaxCrashRestarts, fresh' <= fresh,
         sup'.pc = "account" =>
           Unsettled /\ fresh' <= file'.crashes + 1 /\ file'.crashes < MaxCrashRestarts,
         sup'.pc # "account" => fresh' <= file'.crashes
  PROVE  SupervisorInv'
<1>1. fresh \in Nat /\ MaxCrashRestarts \in Nat /\ fresh <= MaxCrashRestarts
  BY SupervisorFields DEF SupervisorInv, BudgetInv
<1>2. fresh' \in Nat
  BY SupervisorAssumption DEF SupervisorTypeOK
<1>3. Unsettled' <=> sup'.pc = "account"
  BY DEF Unsettled
<1>4. StopIsKept' /\ LoopInv' /\ HoldReasonInv'
  BY DEF StopIsKept, LoopInv, HoldReasonInv, WithChild
<1>5. fresh' <= MaxCrashRestarts
  BY <1>1, <1>2
<1>6. BudgetInv'
  BY <1>3, <1>5 DEF BudgetInv
<1>7. SpawnInv'
  BY <1>2, <1>3, SpawnKept
<1>8. ChildInv'
  BY DEF ChildInv
<1>. QED
  BY <1>4, <1>6, <1>7, <1>8 DEF SupervisorInv

LEMMA NoChildNoServer ==
  ASSUME SupervisorInv, sup.kid = NoKid
  PROVE  \A k \in Kids : ~ (kids[k].parent /\ kids[k].at \in Serving)
<1>1. \A k \in Kids : k # NoKid
  BY DEF Kids, NoKid
<1>. QED
  BY <1>1 DEF SupervisorInv, ChildInv

-----------------------------------------------------------------------------
(* Every action of the supervisor keeps the invariant.                      *)

LEMMA StartKeeps ==
  ASSUME SupervisorInv, Start
  PROVE  SupervisorInv'
<1>1. /\ sup.pc = "down" /\ Spend("starts") /\ lock' = TRUE /\ sup' = [Down EXCEPT !.pc = "top"]
      /\ UNCHANGED <<file, handler, kids, mail, stopStands, fresh>>
  BY DEF Start, Alive
<1>2. sup' \in SupType /\ sup'.pc = "top" /\ sup'.kid = NoKid
  BY <1>1 DEF SupType, Down, Pcs, Nexts
<1>3. slack' \in [Mishaps -> Nat]
  BY <1>1, SpendKeeps DEF Mishaps
<1>4. SupervisorTypeOK'
  BY <1>1, <1>2, <1>3, SupervisorFields, SupervisorTypesThen
<1>5. sup.kid = NoKid /\ ~ Unsettled
  BY <1>1 DEF SupervisorInv, LoopInv, Unsettled
<1>6. SameProcesses
  BY <1>1, SameKids
<1>7. /\ file'.stop = stopStands' /\ file'.crashes <= MaxCrashRestarts
      /\ fresh' <= fresh /\ fresh' <= file'.crashes
  BY <1>1, <1>5, SupervisorFields DEF SupervisorInv, StopIsKept, BudgetInv
<1>8. \A k \in Kids : ~ (kids'[k].parent /\ kids'[k].at \in Serving)
  BY <1>1, <1>5, NoChildNoServer
<1>. QED
  BY <1>2, <1>4, <1>6, <1>7, <1>8, ChildlessKeeps

(* The process ends, after a stop it wrote or at any time.                  *)
LEMMA LeaveKeeps ==
  ASSUME SupervisorInv, Leave, file' \in FileType, file'.stop = stopStands',
         file'.crashes = file.crashes, lock' \in BOOLEAN, stopStands' \in BOOLEAN,
         slack' \in [Mishaps -> Nat]
  PROVE  SupervisorInv'
<1>1. /\ sup' = Down /\ handler' = NoKid /\ mail' = {} /\ fresh' = LessOne
      /\ kids' = [k \in Kids |-> [kids[k] EXCEPT !.parent = FALSE]]
  BY DEF Leave
<1>2. Down \in SupType /\ Down.pc = "down" /\ Down.kid = NoKid
  BY DEF Down, SupType, Pcs, Nexts, Messages
<1>3. kids \in [Kids -> KidType]
  BY SupervisorFields
<1>4. ASSUME NEW k \in Kids
      PROVE  /\ kids'[k] \in KidType /\ kids'[k].at = kids[k].at
             /\ kids'[k].parent = FALSE
  BY <1>1, <1>3 DEF KidType
<1>5. SameProcesses
  <2>1. kids' \in [Kids -> KidType]
    BY <1>1, <1>4
  <2>. QED
    BY <1>4, <2>1 DEF SameProcesses
<1>6. SupervisorTypeOK'
  BY <1>1, <1>2, <1>5, LessOneFacts, SupervisorTypesThen DEF SameProcesses
<1>7. file'.crashes <= MaxCrashRestarts
  BY DEF SupervisorInv, BudgetInv
<1>. QED
  BY <1>1, <1>2, <1>4, <1>5, <1>6, <1>7, LessOneFacts, ChildlessKeeps

LEMMA SupervisorDiesKeeps ==
  ASSUME SupervisorInv, SupervisorDies
  PROVE  SupervisorInv'
<1>1. Leave /\ Spend("ends") /\ UNCHANGED <<file, lock, stopStands>>
  BY DEF SupervisorDies
<1>2. slack' \in [Mishaps -> Nat]
  BY <1>1, SpendKeeps DEF Mishaps
<1>. QED
  BY <1>1, <1>2, SupervisorFields, LeaveKeeps DEF SupervisorInv, StopIsKept

LEMMA SignalDoneKeeps ==
  ASSUME SupervisorInv, SignalDone
  PROVE  SupervisorInv'
<1>1. /\ sup' = Down /\ handler' = NoKid /\ mail' = {} /\ lock' = FALSE /\ fresh' = LessOne
      /\ kids' = [k \in Kids |->
                    [at |-> IF k = handler /\ ~Gone(k) THEN "dying" ELSE kids[k].at,
                     parent |-> FALSE]]
      /\ UNCHANGED <<file, stopStands, slack>>
  BY DEF SignalDone
<1>2. Down \in SupType /\ Down.pc = "down" /\ Down.kid = NoKid
  BY DEF Down, SupType, Pcs, Nexts, Messages
<1>3. kids \in [Kids -> KidType]
  BY SupervisorFields
<1>4. ASSUME NEW k \in Kids
      PROVE  /\ kids'[k] \in KidType /\ (kids'[k].at = "none" <=> kids[k].at = "none")
             /\ kids'[k].parent = FALSE
  <2>1. kids[k].at \in KidStates
    BY <1>3 DEF KidType
  <2>2. kids'[k] = [at |-> IF k = handler /\ ~Gone(k) THEN "dying" ELSE kids[k].at,
                    parent |-> FALSE]
    BY <1>1
  <2>. QED
    BY <2>1, <2>2 DEF KidType, KidStates, Gone
<1>5. SameProcesses
  <2>1. kids' \in [Kids -> KidType]
    <3>1. /\ DOMAIN kids' = Kids
          /\ kids' = [k \in Kids |-> kids'[k]]
      BY <1>1, Zenon
    <3>. QED
      BY <1>4, <3>1, Zenon
  <2>. QED
    BY <1>4, <2>1 DEF SameProcesses
<1>6. SupervisorTypeOK'
  BY <1>1, <1>2, <1>5, LessOneFacts, SupervisorFields, SupervisorTypesThen DEF SameProcesses
<1>7. file'.crashes <= MaxCrashRestarts /\ file'.stop = stopStands'
  BY <1>1 DEF SupervisorInv, BudgetInv, StopIsKept
<1>. QED
  BY <1>1, <1>2, <1>4, <1>5, <1>6, <1>7, LessOneFacts, ChildlessKeeps

LEMMA TopKeeps ==
  ASSUME SupervisorInv, Top
  PROVE  SupervisorInv'
<1>1. sup.pc = "top" /\ UNCHANGED <<file, lock, handler, stopStands, slack>>
  BY DEF Top, TopSparing
<1>2. CASE sup.stopping /\ sup' = [sup EXCEPT !.pc = "out"] /\ UNCHANGED <<kids, mail, fresh>>
  <2>1. sup' \in SupType /\ sup'.pc = "out" /\ sup'.kid = sup.kid
    BY <1>2, SupervisorFields DEF SupType, Pcs
  <2>2. SupervisorTypeOK' /\ SameProcesses
    BY <1>1, <1>2, <2>1, SupervisorFields, SupervisorTypesThen, SameKids
  <2>3. CASE sup.kid = NoKid
    <3>1. /\ file'.stop = stopStands' /\ file'.crashes <= MaxCrashRestarts
          /\ fresh' <= fresh /\ fresh' <= file'.crashes
      BY <1>1, <1>2, <2>3, SupervisorFields
      DEF SupervisorInv, StopIsKept, BudgetInv, Unsettled
    <3>2. \A k \in Kids : ~ (kids'[k].parent /\ kids'[k].at \in Serving)
      BY <1>2, <2>3, NoChildNoServer
    <3>. QED
      BY <2>1, <2>2, <2>3, <3>1, <3>2, ChildlessKeeps
  <2>4. CASE sup.kid # NoKid
    BY <1>1, <1>2, <2>1, <2>2, <2>4, LoopMoves
  <2>. QED
    BY <2>3, <2>4
<1>3. CASE /\ Decision(file) \notin {"spawn"} \union {"drain"}
           /\ sup.kid # NoKid
           /\ Terminate(sup.kid, "top")
           /\ UNCHANGED <<mail, fresh>>
  <2>1. file.reason # "other" => file.stop \/ file.reason = "newer"
    BY <1>3, DecisionCases, SupervisorFields
  <2>2. "top" \in Nexts
    BY DEF Nexts
  <2>. QED
    BY <1>1, <1>3, <2>1, <2>2, TerminateKeeps, SupervisorFields
<1>4. CASE Decision(file) = "spawn" /\ sup.kid = NoKid /\ Spawn(kids, fresh)
  <2>1. file.reason = "other" /\ file.crashes < MaxCrashRestarts
    BY <1>4, DecisionCases, SupervisorFields
  <2>2. fresh <= file.crashes
    BY <1>1, <1>4 DEF SupervisorInv, BudgetInv, Unsettled
  <2>3. fresh \in Nat /\ fresh <= fresh /\ fresh + 1 <= MaxCrashRestarts
    BY <2>1, <2>2, SupervisorFields
  <2>. QED
    BY <1>1, <1>4, <2>1, <2>2, <2>3, SpawnKeeps, SupervisorFields, NoChildNoServer
<1>5. CASE /\ Decision(file) = "spawn" /\ sup.kid # NoKid
           /\ Terminate(sup.kid, "spawn") /\ UNCHANGED <<mail, fresh>>
  <2>1. file.reason = "other" /\ file.crashes < MaxCrashRestarts
    BY <1>5, DecisionCases, SupervisorFields
  <2>2. "spawn" \in Nexts
    BY DEF Nexts
  <2>. QED
    BY <1>1, <1>5, <2>1, <2>2, TerminateKeeps, SupervisorFields
<1>. QED
  BY <1>2, <1>3, <1>4, <1>5 DEF Top, TopSparing

LEMMA KilledKeeps ==
  ASSUME SupervisorInv, Killed
  PROVE  SupervisorInv'
<1>. DEFINE left == [kids EXCEPT ![sup.kid].at = IF Gone(sup.kid) THEN @ ELSE "dying"]
<1>1. sup.pc = "kill" /\ UNCHANGED <<file, lock, handler, stopStands, slack>>
  BY DEF Killed
<1>2. sup.kid # NoKid /\ sup.kid \in Kids /\ Unsettled /\ sup \in SupType /\ sup.then \in Nexts
  BY <1>1, SupervisorFields DEF SupervisorInv, LoopInv, WithChild, Unsettled
<1>3. kids \in [Kids -> KidType] /\ kids[sup.kid] \in KidType
  BY <1>2, SupervisorFields
<1>4. /\ left \in [Kids -> KidType]
      /\ left[sup.kid].at \notin Serving
      /\ left[sup.kid].at = "none" <=> kids[sup.kid].at = "none"
      /\ \A j \in Kids : j # sup.kid => left[j] = kids[j]
  <2>. DEFINE at == IF Gone(sup.kid) THEN kids[sup.kid].at ELSE "dying"
  <2>1. at \in KidStates /\ at \notin Serving /\ (at = "none" <=> kids[sup.kid].at = "none")
    BY <1>3 DEF Gone, KidType, KidStates, Serving
  <2>2. left = [kids EXCEPT ![sup.kid] = [kids[sup.kid] EXCEPT !.at = at]]
    BY Zenon
  <2>. HIDE DEF at, left
  <2>3. /\ [kids[sup.kid] EXCEPT !.at = at] \in KidType
        /\ [kids[sup.kid] EXCEPT !.at = at].at = at
    BY <1>3, <2>1 DEF KidType
  <2>4. left[sup.kid] = [kids[sup.kid] EXCEPT !.at = at]
    BY <1>2, <1>3, <2>2, Zenon
  <2>5. left \in [Kids -> KidType]
    BY <1>2, <1>3, <2>2, <2>3, Zenon
  <2>6. \A j \in Kids : j # sup.kid => left[j] = kids[j]
    BY <1>2, <1>3, <2>2, Zenon
  <2>. QED
    BY <2>1, <2>3, <2>4, <2>5, <2>6
<1>5. \A j \in Kids : left[j].at = "none" <=> kids[j].at = "none"
  BY <1>4
<1>6. \A j \in Kids : ~ (left[j].parent /\ left[j].at \in Serving)
  BY <1>4 DEF SupervisorInv, ChildInv
<1>7. CASE sup.then = "spawn" /\ ~ sup.stopping
  <2>1. Spawn(left, LessOne)
    BY <1>7 DEF Killed
  <2>2. file.reason = "other" /\ file.crashes < MaxCrashRestarts
    BY <1>1, <1>7, SupervisorFields DEF SupervisorInv, HoldReasonInv, BudgetInv
  <2>3. /\ LessOne \in Nat /\ LessOne <= fresh /\ LessOne <= file.crashes
        /\ LessOne + 1 <= MaxCrashRestarts
    BY <2>2, LessOneFacts, SupervisorFields
  <2>. HIDE DEF left
  <2>. QED
    BY <1>1, <1>4, <1>5, <1>6, <2>1, <2>2, <2>3, SpawnKeeps
<1>8. CASE ~ (sup.then = "spawn" /\ ~ sup.stopping)
  <2>1. /\ kids' = left /\ mail' = {}
        /\ sup' = [sup EXCEPT !.pc = IF sup.stopping THEN "out" ELSE sup.then, !.kid = NoKid]
        /\ fresh' = IF sup.then = "account" /\ ~sup.stopping THEN fresh ELSE LessOne
    BY <1>8 DEF Killed
  <2>. HIDE DEF left
  <2>2. sup' \in SupType /\ sup'.kid = NoKid /\ sup'.pc \in {"top", "out", "account"}
        /\ (sup'.pc = "account" <=> sup.then = "account" /\ ~ sup.stopping)
    BY <1>2, <1>8, <2>1 DEF SupType, Nexts, Pcs
  <2>3. SameProcesses
    BY <1>4, <1>5, <1>6, <2>1 DEF SameProcesses
  <2>4. fresh' \in 0 .. MaxSpawns /\ fresh' <= fresh
    BY <2>1, LessOneFacts, SupervisorFields
  <2>5. SupervisorTypeOK'
    BY <1>1, <1>4, <2>1, <2>2, <2>4, SupervisorFields, SupervisorTypesThen
  <2>6. /\ file'.stop = stopStands' /\ file'.crashes <= MaxCrashRestarts
    BY <1>1 DEF SupervisorInv, StopIsKept, BudgetInv
  <2>7. sup'.pc # "account" => fresh' <= file'.crashes
    BY <1>1, <2>1, <2>2, LessOneFacts
  <2>8. sup'.pc = "account" =>
          /\ fresh' <= file'.crashes + 1 /\ file'.crashes < MaxCrashRestarts
          /\ file'.reason = "other"
    BY <1>1, <1>2, <2>1, <2>2, SupervisorFields DEF SupervisorInv, BudgetInv, HoldReasonInv
  <2>. QED
    BY <1>2, <1>6, <2>1, <2>2, <2>3, <2>4, <2>5, <2>6, <2>7, <2>8, ChildlessKeeps
<1>. QED
  BY <1>7, <1>8

(* A loop with a child that has not been told to end has no reason to hold. *)
LEMMA WatchingFacts ==
  ASSUME SupervisorInv, sup.pc \in {"startup", "commit", "supervise", "drain", "exit"}
  PROVE  /\ file.reason = "other" /\ file.crashes < MaxCrashRestarts
         /\ sup.kid # NoKid /\ sup.kid \in Kids
         /\ "top" \in Nexts /\ "out" \in Nexts /\ "account" \in Nexts
BY SupervisorFields DEF SupervisorInv, HoldReasonInv, BudgetInv, LoopInv, WithChild, Nexts

(* The loop's next wait, with the child as it is.                           *)
LEMMA WatchMoves ==
  ASSUME SupervisorInv, sup.pc \in {"startup", "commit", "supervise", "drain", "exit"},
         NEW pc \in {"commit", "supervise", "drain", "exit", "top"},
         sup' = [sup EXCEPT !.pc = pc], SameProcesses,
         file' \in FileType, file'.stop = file.stop, file'.crashes = file.crashes,
         file'.reason = "other" \/ pc = "top", slack' \in [Mishaps -> Nat],
         UNCHANGED <<lock, handler, mail, stopStands, fresh>>
  PROVE  SupervisorInv'
<1>1. sup' \in SupType /\ sup'.pc = pc /\ sup'.kid = sup.kid
  BY SupervisorFields DEF SupType, Pcs
<1>2. SupervisorTypeOK'
  BY <1>1, SupervisorFields, SupervisorTypesThen DEF SameProcesses
<1>. QED
  BY <1>1, <1>2, WatchingFacts, LoopMoves

LEMMA StartupPollKeeps ==
  ASSUME SupervisorInv, StartupPoll
  PROVE  SupervisorInv'
<1>1. sup.pc = "startup" /\ UNCHANGED <<file, lock, handler, mail, stopStands, fresh, slack>>
  BY DEF StartupPoll
<1>2. ASSUME NEW then \in {"top", "out", "account"}, Terminate(sup.kid, then)
      PROVE  SupervisorInv'
  BY <1>1, <1>2, WatchingFacts, SupervisorFields, TerminateKeeps
<1>3. CASE sup' = [sup EXCEPT !.pc = "commit"] /\ UNCHANGED kids
  BY <1>1, <1>3, WatchingFacts, WatchMoves, SupervisorFields, SameKids
<1>. QED
  BY <1>2, <1>3 DEF StartupPoll

LEMMA StartupTimesOutKeeps ==
  ASSUME SupervisorInv, StartupTimesOut
  PROVE  SupervisorInv'
<1>1. /\ sup.pc = "startup" /\ Spend("failures") /\ Terminate(sup.kid, "account")
      /\ UNCHANGED <<file, lock, handler, mail, stopStands, fresh>>
  BY DEF StartupTimesOut
<1>2. slack' \in [Mishaps -> Nat]
  BY <1>1, SpendKeeps DEF Mishaps
<1>. QED
  BY <1>1, <1>2, WatchingFacts, SupervisorFields, TerminateKeeps

LEMMA CommitReadyKeeps ==
  ASSUME SupervisorInv, CommitReady
  PROVE  SupervisorInv'
<1>1. sup.pc = "commit" /\ UNCHANGED <<lock, handler, mail, stopStands, fresh, slack>>
  BY DEF CommitReady
<1>2. CASE file' = ApplyReady(file)
  <2>1. /\ file' \in FileType /\ file'.stop = file.stop /\ file'.crashes = file.crashes
        /\ file'.reason = file.reason
    BY <1>2, SupervisorFields DEF ApplyReady, FileType
  <2>2. CASE Terminate(sup.kid, "top")
    BY <1>1, <2>1, <2>2, WatchingFacts, SupervisorFields, TerminateKeeps
  <2>3. CASE Terminate(sup.kid, "out")
    BY <1>1, <2>1, <2>3, WatchingFacts, SupervisorFields, TerminateKeeps
  <2>4. CASE sup' = [sup EXCEPT !.pc = "supervise"] /\ UNCHANGED kids
    BY <1>1, <2>1, <2>4, WatchingFacts, WatchMoves, SupervisorFields, SameKids
  <2>. QED
    BY <2>2, <2>3, <2>4 DEF CommitReady
<1>3. CASE Terminate(sup.kid, "out") /\ UNCHANGED file
  BY <1>1, <1>3, WatchingFacts, SupervisorFields, TerminateKeeps
<1>. QED
  BY <1>2, <1>3 DEF CommitReady

LEMMA SuperviseKeeps ==
  ASSUME SupervisorInv, Supervise
  PROVE  SupervisorInv'
<1>1. sup.pc = "supervise" /\ UNCHANGED <<file, lock, handler, mail, stopStands, fresh, slack>>
  BY DEF Supervise, SuperviseHeeding
<1>2. CASE Terminate(sup.kid, "top")
  BY <1>1, <1>2, WatchingFacts, SupervisorFields, TerminateKeeps
<1>3. CASE /\ Put(sup.kid, AskedToStop(kids[sup.kid].at))
           /\ sup' = [sup EXCEPT !.pc = "drain"]
  <2>1. sup.kid \in Kids /\ kids[sup.kid].at \in KidStates
    BY <1>1, WatchingFacts, SupervisorFields DEF KidType
  <2>2. SameProcesses
    BY <1>3, <2>1, PutSame, TerminatedKind, SupervisorFields
  <2>. QED
    BY <1>1, <1>3, <2>2, WatchingFacts, WatchMoves, SupervisorFields
<1>4. CASE sup' = [sup EXCEPT !.pc = "exit"] /\ UNCHANGED kids
  BY <1>1, <1>4, WatchingFacts, WatchMoves, SupervisorFields, SameKids
<1>. QED
  BY <1>2, <1>3, <1>4 DEF Supervise, SuperviseHeeding

LEMMA DrainConcludesKeeps ==
  ASSUME SupervisorInv, DrainConcludes
  PROVE  SupervisorInv'
<1>1. sup.pc = "drain" /\ UNCHANGED <<lock, handler, mail, stopStands, fresh>>
  BY DEF DrainConcludes
<1>2. CASE Terminate(sup.kid, "top") /\ UNCHANGED <<file, slack>>
  BY <1>1, <1>2, WatchingFacts, SupervisorFields, TerminateKeeps
<1>3. CASE /\ file' = ApplyDrainFailedHold(file) /\ UNCHANGED slack
           /\ sup' = [sup EXCEPT !.pc = "top"] /\ UNCHANGED kids
  <2>1. /\ file' \in FileType /\ file'.stop = file.stop /\ file'.crashes = file.crashes
    BY <1>3, SupervisorFields DEF ApplyDrainFailedHold, FileType
  <2>. QED
    BY <1>1, <1>3, <2>1, WatchMoves, SupervisorFields, SameKids
<1>4. CASE /\ Spend("writes") /\ UNCHANGED file
           /\ sup' = [sup EXCEPT !.pc = "top"] /\ UNCHANGED kids
  <2>1. slack' \in [Mishaps -> Nat]
    BY <1>4, SpendKeeps DEF Mishaps
  <2>. QED
    BY <1>1, <1>4, <2>1, WatchMoves, SupervisorFields, SameKids
<1>. QED
  BY <1>2, <1>3, <1>4 DEF DrainConcludes

LEMMA ExitSeenKeeps ==
  ASSUME SupervisorInv, ExitSeen
  PROVE  SupervisorInv'
<1>1. /\ sup.pc = "exit" /\ Gone(sup.kid)
      /\ sup' = [sup EXCEPT !.pc = "account", !.kid = NoKid]
      /\ UNCHANGED <<file, lock, handler, kids, mail, stopStands, fresh, slack>>
  BY DEF ExitSeen
<1>2. sup' \in SupType /\ sup'.pc = "account" /\ sup'.kid = NoKid
  BY <1>1, SupervisorFields DEF SupType, Pcs
<1>3. SupervisorTypeOK' /\ SameProcesses
  BY <1>1, <1>2, SupervisorFields, SupervisorTypesThen, SameKids
<1>4. Unsettled /\ file.reason = "other" /\ file.crashes < MaxCrashRestarts
  BY <1>1, WatchingFacts DEF Unsettled
<1>5. \A k \in Kids : ~ (kids'[k].parent /\ kids'[k].at \in Serving)
  BY <1>1 DEF SupervisorInv, ChildInv, Gone, Serving
<1>6. /\ file'.stop = stopStands' /\ file'.crashes <= MaxCrashRestarts
      /\ fresh' <= fresh /\ fresh' <= file'.crashes + 1
  BY <1>1, <1>4, SupervisorFields DEF SupervisorInv, StopIsKept, BudgetInv
<1>. QED
  BY <1>1, <1>2, <1>3, <1>4, <1>5, <1>6, ChildlessKeeps

LEMMA AccountCrashKeeps ==
  ASSUME SupervisorInv, AccountCrash
  PROVE  SupervisorInv'
<1>. DEFINE why == IF "newer" \in sup.heard THEN "newer" ELSE "other"
<1>1. /\ sup.pc = "account" /\ file' = ApplyCrash(file, why)
      /\ sup' = [sup EXCEPT !.pc = "top"]
      /\ UNCHANGED <<lock, handler, kids, mail, stopStands, fresh, slack>>
  BY DEF AccountCrash
<1>2. why \in {"newer", "other"}
  OBVIOUS
<1>. HIDE DEF why
<1>3. /\ sup.kid = NoKid /\ Unsettled /\ file.reason = "other"
      /\ file.crashes < MaxCrashRestarts /\ fresh <= file.crashes + 1
  BY <1>1, SupervisorFields
  DEF SupervisorInv, LoopInv, HoldReasonInv, BudgetInv, Unsettled
<1>4. /\ file' \in FileType /\ file'.stop = file.stop /\ file'.crashes = file.crashes + 1
  <2>. DEFINE kept == IF file.crashes + 1 >= MaxCrashRestarts THEN "other" ELSE why
  <2>1. file' = [file EXCEPT !.crashes = @ + 1, !.reason = kept]
    BY <1>1, <1>3, Zenon DEF ApplyCrash
  <2>3. kept \in {"newer", "other"}
    BY <1>2
  <2>. HIDE DEF kept
  <2>2. file.crashes + 1 \in 0 .. MaxCrashRestarts + 1
    BY <1>3, SupervisorFields
  <2>. QED
    BY <2>1, <2>2, <2>3, SupervisorFields DEF FileType
<1>5. sup' \in SupType /\ sup'.pc = "top" /\ sup'.kid = NoKid
  BY <1>1, <1>3, SupervisorFields DEF SupType, Pcs
<1>6. SupervisorTypeOK' /\ SameProcesses
  BY <1>1, <1>4, <1>5, SupervisorFields, SupervisorTypesThen, SameKids
<1>7. /\ file'.stop = stopStands' /\ file'.crashes <= MaxCrashRestarts
      /\ fresh' <= fresh /\ fresh' <= file'.crashes
  BY <1>1, <1>3, <1>4, SupervisorFields DEF SupervisorInv, StopIsKept
<1>8. \A k \in Kids : ~ (kids'[k].parent /\ kids'[k].at \in Serving)
  BY <1>1, <1>3, NoChildNoServer
<1>. QED
  BY <1>5, <1>6, <1>7, <1>8, ChildlessKeeps

LEMMA WriteFailsKeeps ==
  ASSUME SupervisorInv, WriteFails
  PROVE  SupervisorInv'
<1>1. /\ sup.pc \in {"commit", "account"} /\ Spend("writes")
      /\ sup' = [sup EXCEPT !.pc = IF @ = "account" /\ sup.stopping THEN "out" ELSE @]
      /\ fresh' = IF sup.pc = "account" /\ sup.stopping THEN LessOne ELSE fresh
      /\ UNCHANGED <<file, lock, handler, kids, mail, stopStands>>
  BY DEF WriteFails
<1>2. slack' \in [Mishaps -> Nat]
  BY <1>1, SpendKeeps DEF Mishaps
<1>3. SameProcesses
  BY <1>1, SameKids
<1>4. CASE sup.pc = "account" /\ sup.stopping
  <2>1. sup' \in SupType /\ sup'.pc = "out" /\ sup'.kid = sup.kid /\ sup.kid = NoKid
    BY <1>1, <1>4, SupervisorFields DEF SupType, Pcs, SupervisorInv, LoopInv
  <2>2. fresh' = LessOne
    BY <1>1, <1>4
  <2>3. SupervisorTypeOK'
    BY <1>1, <1>2, <2>1, <2>2, LessOneFacts, SupervisorFields, SupervisorTypesThen
  <2>4. file'.stop = stopStands' /\ file'.crashes <= MaxCrashRestarts
    BY <1>1 DEF SupervisorInv, StopIsKept, BudgetInv
  <2>5. \A k \in Kids : ~ (kids'[k].parent /\ kids'[k].at \in Serving)
    BY <1>1, <2>1, NoChildNoServer
  <2>. QED
    BY <1>1, <1>3, <2>1, <2>2, <2>3, <2>4, <2>5, LessOneFacts, ChildlessKeeps
<1>5. CASE ~ (sup.pc = "account" /\ sup.stopping)
  <2>1. /\ sup' \in SupType /\ sup'.pc = sup.pc /\ sup'.kid = sup.kid /\ sup'.then = sup.then
        /\ fresh' = fresh
    BY <1>1, <1>5, SupervisorFields DEF SupType
  <2>2. SupervisorTypeOK'
    BY <1>1, <1>2, <2>1, SupervisorFields, SupervisorTypesThen
  <2>. QED
    BY <1>1, <1>3, <2>1, <2>2, LoopKept
<1>. QED
  BY <1>4, <1>5

LEMMA HearKeeps ==
  ASSUME SupervisorInv, Hear
  PROVE  SupervisorInv'
<1>1. PICK m \in mail : mail' = mail \ {m} /\ sup' = [sup EXCEPT !.heard = @ \union {m}]
  BY DEF Hear
<1>2. UNCHANGED <<file, lock, handler, kids, stopStands, fresh, slack>>
  BY DEF Hear
<1>3. /\ sup' \in SupType /\ sup'.pc = sup.pc /\ sup'.kid = sup.kid /\ sup'.then = sup.then
  BY <1>1, SupervisorFields DEF SupType
<1>4. SupervisorTypeOK' /\ SameProcesses
  BY <1>1, <1>2, <1>3, SupervisorFields, SupervisorTypesThen, SameKids
<1>. QED
  BY <1>2, <1>3, <1>4, LoopKept

(* A command rewrites the file, and leaves the loop where it is.            *)
LEMMA CommandKeeps ==
  ASSUME SupervisorInv, SupervisorTypeOK', SameProcesses, UNCHANGED fresh,
         file'.reason = "other", file'.crashes = file.crashes, file'.stop = stopStands',
         sup'.pc = sup.pc, sup'.kid = sup.kid, sup'.then = sup.then
  PROVE  SupervisorInv'
<1>1. Unsettled' = Unsettled
  BY DEF Unsettled
<1>2. fresh' \in Nat /\ fresh' <= fresh
  BY SupervisorFields
<1>3. StopIsKept' /\ HoldReasonInv'
  BY DEF StopIsKept, HoldReasonInv
<1>4. LoopInv'
  BY DEF SupervisorInv, LoopInv
<1>5. BudgetInv'
  BY <1>1 DEF SupervisorInv, BudgetInv
<1>. QED
  BY <1>1, <1>2, <1>3, <1>4, <1>5, SpawnKept, ChildKept DEF SupervisorInv

LEMMA StopOnFile ==
  ASSUME SupervisorInv, file' = ApplyOperatorStop(file)
  PROVE  /\ file' \in FileType /\ file'.stop = TRUE /\ file'.reason = "other"
         /\ file'.crashes = file.crashes
BY SupervisorFields DEF ApplyOperatorStop, FileType

LEMMA OnSignalKeeps ==
  ASSUME SupervisorInv, OnSignal
  PROVE  SupervisorInv'
<1>1. Spend("ends") /\ file' = ApplyOperatorStop(file) /\ stopStands' = TRUE
  BY DEF OnSignal
<1>2. slack' \in [Mishaps -> Nat]
  BY <1>1, SpendKeeps DEF Mishaps
<1>3. CASE Leave /\ lock' = FALSE
  BY <1>1, <1>2, <1>3, StopOnFile, LeaveKeeps
<1>4. CASE /\ sup.kid # NoKid
           /\ sup' = [sup EXCEPT !.stopping = TRUE]
           /\ handler' = sup.kid
           /\ Put(sup.kid, Terminated(kids[sup.kid].at))
           /\ UNCHANGED <<lock, mail, fresh>>
  <2>1. sup.kid \in Kids /\ kids[sup.kid].at \in KidStates
    BY <1>4, SupervisorFields DEF KidType
  <2>2. SameProcesses
    BY <1>4, <2>1, PutSame, TerminatedKind, SupervisorFields
  <2>3. /\ sup' \in SupType /\ sup'.pc = sup.pc /\ sup'.kid = sup.kid /\ sup'.then = sup.then
    BY <1>4, SupervisorFields DEF SupType
  <2>4. SupervisorTypeOK'
    BY <1>1, <1>2, <1>4, <2>1, <2>2, <2>3, StopOnFile, SupervisorFields, SupervisorTypesThen
    DEF SameProcesses
  <2>. QED
    BY <1>1, <1>4, <2>2, <2>3, <2>4, StopOnFile, CommandKeeps
<1>. QED
  BY <1>3, <1>4 DEF OnSignal

LEMMA OperatorStopKeeps ==
  ASSUME SupervisorInv, NEW stdin \in BOOLEAN, OperatorStop(stdin)
  PROVE  SupervisorInv'
<1>1. /\ Spend("commands") /\ file' = ApplyOperatorStop(file) /\ stopStands' = TRUE
      /\ UNCHANGED <<lock, sup, handler, mail, fresh>>
  BY DEF OperatorStop
<1>2. slack' \in [Mishaps -> Nat]
  BY <1>1, SpendKeeps DEF Mishaps
<1>3. SameProcesses
  <2>1. CASE sup.kid # NoKid /\ Put(sup.kid, AskedToStop(kids[sup.kid].at))
    <3>1. sup.kid \in Kids /\ kids[sup.kid].at \in KidStates
      BY <2>1, SupervisorFields DEF KidType
    <3>. QED
      BY <2>1, <3>1, PutSame, TerminatedKind, SupervisorFields
  <2>2. CASE UNCHANGED kids
    BY <2>2, SameKids
  <2>. QED
    BY <2>1, <2>2 DEF OperatorStop
<1>4. SupervisorTypeOK'
  BY <1>1, <1>2, <1>3, StopOnFile, SupervisorFields, SupervisorTypesThen DEF SameProcesses
<1>. QED
  BY <1>1, <1>3, <1>4, StopOnFile, CommandKeeps

LEMMA OperatorResumeKeeps ==
  ASSUME SupervisorInv, OperatorResume
  PROVE  SupervisorInv'
<1>1. /\ Spend("commands")
      /\ file' = [stop |-> FALSE, restart |-> FALSE, crashes |-> 0, reason |-> "other"]
      /\ stopStands' = FALSE /\ fresh' = IF Unsettled THEN 1 ELSE 0
      /\ UNCHANGED <<lock, sup, handler, kids, mail>>
  BY DEF OperatorResume, ApplyOperatorResume
<1>2. slack' \in [Mishaps -> Nat]
  BY <1>1, SpendKeeps DEF Mishaps
<1>3. MaxCrashRestarts \in Nat \ {0} /\ MaxSpawns \in Nat \ {0}
  BY SupervisorAssumption
<1>4. /\ file' \in FileType /\ file'.stop = FALSE /\ file'.crashes = 0
      /\ file'.reason = "other"
  BY <1>1, <1>3 DEF FileType
<1>5. fresh' \in 0 .. MaxSpawns
  BY <1>1, <1>3
<1>6. SupervisorTypeOK'
  BY <1>1, <1>2, <1>4, <1>5, SupervisorFields, SupervisorTypesThen
<1>7. Unsettled' = Unsettled
  BY <1>1 DEF Unsettled
<1>8. StopIsKept' /\ HoldReasonInv' /\ LoopInv' /\ ChildInv'
  BY <1>1, <1>4 DEF SupervisorInv, StopIsKept, HoldReasonInv, LoopInv, ChildInv
<1>9. BudgetInv'
  BY <1>1, <1>3, <1>4, <1>7 DEF BudgetInv
<1>10. SpawnInv'
  <2>1. ASSUME NEW k \in Kids, kids'[k].at = "none"
        PROVE  fresh' < k /\ (Unsettled' => 1 < k)
    <3>1. (Unsettled => 1 < k) /\ k \in Nat /\ 0 < k
      BY <1>1, <2>1 DEF SupervisorInv, SpawnInv, Kids
    <3>. QED
      BY <1>1, <1>7, <3>1
  <2>. QED
    BY <2>1 DEF SpawnInv
<1>. QED
  BY <1>6, <1>8, <1>9, <1>10 DEF SupervisorInv

LEMMA OperatorRestartKeeps ==
  ASSUME SupervisorInv, OperatorRestart
  PROVE  SupervisorInv'
<1>1. /\ file.reason # "drain" /\ Spend("commands")
      /\ file' = [file EXCEPT !.restart = TRUE, !.reason = "other"]
      /\ UNCHANGED <<lock, sup, handler, kids, mail, stopStands, fresh>>
  BY DEF OperatorRestart, ApplyPlannedRestartRequest
<1>2. slack' \in [Mishaps -> Nat]
  BY <1>1, SpendKeeps DEF Mishaps
<1>3. /\ file' \in FileType /\ file'.stop = file.stop /\ file'.crashes = file.crashes
      /\ file'.reason = "other"
  BY <1>1, SupervisorFields DEF FileType
<1>4. SupervisorTypeOK' /\ SameProcesses
  BY <1>1, <1>2, <1>3, SupervisorFields, SupervisorTypesThen, SameKids
<1>5. file'.stop = stopStands'
  BY <1>1, <1>3 DEF SupervisorInv, StopIsKept
<1>. QED
  BY <1>1, <1>3, <1>4, <1>5, CommandKeeps

(* A server process moves by itself.                                        *)
LEMMA ProcessKeeps ==
  ASSUME SupervisorInv, NEW k \in Kids, NEW at \in KidStates, Put(k, at),
         kids[k].at # "none", at # "none", at \in Serving => kids[k].at \in Serving,
         mail' \subseteq Messages, slack' \in [Mishaps -> Nat],
         UNCHANGED <<file, lock, sup, handler, stopStands, fresh>>
  PROVE  SupervisorInv'
<1>1. SameProcesses
  BY PutSame, SupervisorFields
<1>2. SupervisorTypeOK'
  BY <1>1, SupervisorFields, SupervisorTypesThen DEF SameProcesses
<1>. QED
  BY <1>1, <1>2, LoopKept

LEMMA SayKeeps ==
  ASSUME SupervisorInv, NEW k \in Kids, NEW m \in Messages, Say(k, m)
  PROVE  mail' \subseteq Messages
BY SupervisorFields DEF Say

LEMMA ServerMovesKeeps ==
  ASSUME SupervisorInv, NEW k \in Kids, ServerMoves(k)
  PROVE  SupervisorInv'
<1>. USE DEF KidStates, Serving
<1>1. mail \subseteq Messages /\ slack \in [Mishaps -> Nat]
  BY SupervisorFields
<1>2. CASE ServerReady(k)
  <2>1. /\ kids[k].at = "starting"
        /\ UNCHANGED <<file, lock, sup, handler, stopStands, fresh, slack>>
    BY <1>2 DEF ServerReady
  <2>2. CASE Put(k, "ready") /\ Say(k, "ready")
    <3>1. mail' \subseteq Messages
      BY <2>2, SayKeeps DEF Messages
    <3>. QED
      BY <1>1, <2>1, <2>2, <3>1, ProcessKeeps
  <2>3. CASE Put(k, "dead") /\ UNCHANGED mail
    BY <1>1, <2>1, <2>3, ProcessKeeps
  <2>. QED
    BY <1>2, <2>2, <2>3 DEF ServerReady
<1>3. CASE ServerCollides(k)
  <2>1. /\ kids[k].at = "starting" /\ Put(k, "failing") /\ Say(k, "failed")
        /\ UNCHANGED <<file, lock, sup, handler, stopStands, fresh, slack>>
    BY <1>3 DEF ServerCollides
  <2>2. mail' \subseteq Messages
    BY <2>1, SayKeeps DEF Messages
  <2>. QED
    BY <1>1, <2>1, <2>2, ProcessKeeps
<1>4. CASE ServerDrained(k)
  <2>1. /\ kids[k].at = "draining" /\ Put(k, "dead") /\ Say(k, "drained")
        /\ UNCHANGED <<file, lock, sup, handler, stopStands, fresh, slack>>
    BY <1>4 DEF ServerDrained
  <2>2. mail' \subseteq Messages
    BY <2>1, SayKeeps DEF Messages
  <2>. QED
    BY <1>1, <2>1, <2>2, ProcessKeeps
<1>5. CASE Disconnected(k)
  <2>1. /\ kids[k].at \in {"ready", "stuck"} /\ Put(k, "draining")
        /\ UNCHANGED <<file, lock, sup, handler, mail, stopStands, fresh, slack>>
    BY <1>5 DEF Disconnected
  <2>. QED
    BY <1>1, <2>1, ProcessKeeps
<1>6. CASE ServerGone(k)
  <2>1. /\ kids[k].at \in {"dying", "failing"} /\ Put(k, "dead")
        /\ UNCHANGED <<file, lock, sup, handler, mail, stopStands, fresh, slack>>
    BY <1>6 DEF ServerGone
  <2>. QED
    BY <1>1, <2>1, ProcessKeeps
<1>. QED
  BY <1>2, <1>3, <1>4, <1>5, <1>6 DEF ServerMoves

LEMMA ServerFaultKeeps ==
  ASSUME SupervisorInv, NEW k \in Kids, ServerFault(k)
  PROVE  SupervisorInv'
<1>. USE DEF KidStates, Serving
<1>1. mail \subseteq Messages /\ slack \in [Mishaps -> Nat]
  BY SupervisorFields
<1>2. CASE ServerFails(k)
  <2>1. /\ kids[k].at \in {"starting", "ready"} /\ Put(k, "failing")
        /\ UNCHANGED <<file, lock, sup, handler, stopStands, fresh>>
    BY <1>2 DEF ServerFails
  <2>2. slack' \in [Mishaps -> Nat]
    BY <1>2, SpendKeeps DEF ServerFails, Mishaps
  <2>3. mail' \subseteq Messages
    BY <1>2, SayKeeps DEF ServerFails, Messages
  <2>. QED
    BY <2>1, <2>2, <2>3, ProcessKeeps
<1>3. CASE ServerDies(k)
  <2>1. /\ kids[k].at \in {"starting", "ready", "draining", "stuck"} /\ Put(k, "dead")
        /\ UNCHANGED <<file, lock, sup, handler, mail, stopStands, fresh>>
    BY <1>3 DEF ServerDies
  <2>2. slack' \in [Mishaps -> Nat]
    BY <1>3, SpendKeeps DEF ServerDies, Mishaps
  <2>. QED
    BY <1>1, <2>1, <2>2, ProcessKeeps
<1>4. CASE ServerUndrained(k)
  <2>. DEFINE at == IF kids[k].parent THEN "stuck" ELSE "dead"
  <2>1. /\ kids[k].at = "draining" /\ Put(k, at)
        /\ UNCHANGED <<file, lock, sup, handler, stopStands, fresh>>
    BY <1>4 DEF ServerUndrained
  <2>2. at \in {"stuck", "dead"}
    OBVIOUS
  <2>. HIDE DEF at
  <2>3. slack' \in [Mishaps -> Nat]
    BY <1>4, SpendKeeps DEF ServerUndrained, Mishaps
  <2>4. mail' \subseteq Messages
    BY <1>4, SayKeeps DEF ServerUndrained, Messages
  <2>. QED
    BY <2>1, <2>2, <2>3, <2>4, ProcessKeeps
<1>. QED
  BY <1>2, <1>3, <1>4 DEF ServerFault

(* The inductive invariant of the supervisor.                               *)
THEOREM SupervisorInvariance == SupervisorSpec => []SupervisorInv
<1>1. SupervisorInv /\ [SupervisorNext]_supervisorVars => SupervisorInv'
  <2>1. ASSUME SupervisorInv, UNCHANGED supervisorVars PROVE SupervisorInv'
    <3>1. UNCHANGED <<file, lock, sup, handler, kids, mail, stopStands, fresh, slack>>
      BY <2>1 DEF supervisorVars
    <3>2. SupervisorTypeOK' /\ SameProcesses
      BY <2>1, <3>1, SupervisorFields, SupervisorTypesThen, SameKids
    <3>. QED
      BY <2>1, <3>1, <3>2, LoopKept
  <2>2. ASSUME SupervisorInv, LoopStep PROVE SupervisorInv'
    BY <2>2, TopKeeps, KilledKeeps, StartupPollKeeps, CommitReadyKeeps, SuperviseKeeps,
       DrainConcludesKeeps, ExitSeenKeeps, AccountCrashKeeps, HearKeeps, Zenon DEF LoopStep
  <2>3. ASSUME SupervisorInv, OperatorStep PROVE SupervisorInv'
    BY <2>3, OnSignalKeeps, OperatorStopKeeps, OperatorResumeKeeps, OperatorRestartKeeps,
       Zenon DEF OperatorStep
  <2>. QED
    BY <2>1, <2>2, <2>3, StartKeeps, SupervisorDiesKeeps, StartupTimesOutKeeps, WriteFailsKeeps,
       SignalDoneKeeps, ServerMovesKeeps, ServerFaultKeeps, Zenon DEF SupervisorNext
<1>. QED
  BY <1>1, SupervisorInvInit, PTL DEF SupervisorSpec

(* The supervisor's variables have their types.                             *)
THEOREM SupervisorTypeCorrect == SupervisorSpec => []SupervisorTypeOK
<1>1. SupervisorInv => SupervisorTypeOK
  BY DEF SupervisorInv
<1>. QED
  BY <1>1, SupervisorInvariance, PTL

(* A committed stop stands until a resume, spawns stay within the crash     *)
(* budget, a child whose drain failed is spared while the hold stands, and  *)
(* no supervisor has two servers it did not tell to end.                    *)
THEOREM SupervisorSound == SupervisorSpec => []SupervisorSafe
<1>1. SupervisorInv => SupervisorSafe
  <2>. SUFFICES ASSUME SupervisorInv PROVE SupervisorSafe
    OBVIOUS
  <2>1. RestartsAreBudgeted
    <3>1. fresh \in Nat /\ file.crashes \in Nat
      BY SupervisorFields
    <3>2. /\ Unsettled => fresh <= file.crashes + 1
          /\ ~ Unsettled => fresh <= file.crashes
          /\ fresh <= MaxCrashRestarts
      BY DEF SupervisorInv, BudgetInv
    <3>. QED
      BY <3>1, <3>2 DEF RestartsAreBudgeted
  <2>2. HeldIsSpared
    BY DecisionCases, SupervisorFields DEF HeldIsSpared, SupervisorInv, HoldReasonInv
  <2>3. OneServer
    <3>1. SUFFICES ASSUME NEW j \in Kids, NEW k \in Kids, kids[j].parent, kids[k].parent,
                          {kids[j].at, kids[k].at} \cap {"dying", "failing", "dead", "none"} = {}
                   PROVE  j = k
      BY DEF OneServer
    <3>2. kids[j].at \in KidStates /\ kids[k].at \in KidStates
      BY SupervisorFields DEF KidType
    <3>3. kids[j].at \in Serving /\ kids[k].at \in Serving
      BY <3>1, <3>2 DEF KidStates, Serving
    <3>. QED
      BY <3>1, <3>3 DEF SupervisorInv, ChildInv
  <2>. QED
    BY <2>1, <2>2, <2>3 DEF SupervisorSafe, SupervisorInv
<1>. QED
  BY <1>1, SupervisorInvariance, PTL

-----------------------------------------------------------------------------
(* The connector.                                                           *)

HubType ==
  [session : Dials \union {NoPeer}, connected : BOOLEAN, fails : Nat,
   epoch : Nat, closing : BOOLEAN, flight : Dials \union {NoPeer}]
DemandPcs == {"new", "queued", "wait", "ensured", "out", "cleanup", "returned"}
DemandType ==
  [pc : DemandPcs, epoch : Nat, late : BOOLEAN, on : Dials \union {NoPeer},
   result : Results]
DialPcs == {"none", "backoff", "connect", "list", "cleanup", "done"}
DialType == [pc : DialPcs, epoch : Nat, aborted : BOOLEAN, result : Results]
Cleanups == {"none", "running", "killed", "done"}
PeerType ==
  [up : BOOLEAN, ready : BOOLEAN, stop : BOOLEAN, seen : BOOLEAN,
   failed : BOOLEAN, cleanup : Cleanups]

\* The session is a live connection of the present epoch that has not been
\* counted, and there is one only outside a shutdown; until it is published
\* its attempt is the flight.
SessionInv ==
  /\ hub.connected => hub.session # NoPeer
  /\ hub.session # NoPeer =>
       /\ ~ hub.closing
       /\ peer[hub.session].up
       /\ ~ peer[hub.session].stop
       /\ ~ peer[hub.session].failed
       /\ dial[hub.session].epoch = hub.epoch
       /\ hub.connected =>
            /\ dial[hub.session].pc = "done"
            /\ peer[hub.session].ready
            /\ hub.flight = NoPeer
       /\ ~ hub.connected =>
            /\ dial[hub.session].pc \in {"connect", "list"}
            /\ hub.flight = hub.session

\* The flight is an attempt that has not settled; while it waits or cleans up
\* there is no session.
FlightInv ==
  hub.flight # NoPeer =>
    /\ dial[hub.flight].pc \in {"backoff", "connect", "list", "cleanup"}
    /\ dial[hub.flight].pc \in {"backoff", "cleanup"} => hub.session = NoPeer
    /\ dial[hub.flight].pc \in {"connect", "list"} => hub.session = hub.flight

\* What holds of one attempt and its connection.
AttemptInv(d) ==
  /\ dial[d].epoch <= hub.epoch
  /\ dial[d].pc = "backoff" /\ dial[d].epoch = hub.epoch => hub.flight = d
  /\ dial[d].pc \in {"none", "backoff"} => peer[d] = NewPeer
  /\ peer[d].up /\ ~ peer[d].stop => hub.session = d
  /\ peer[d].stop <=> peer[d].cleanup # "none"
  /\ peer[d].seen => peer[d].stop

AttemptsInv == \A d \in Dials : AttemptInv(d)

\* The calls: one that waits, is out or cleans up names an attempt that was
\* made, or that is over; one past the mutex was not made in a shutdown.
DemandOk(c) ==
  /\ demand[c].pc = "queued" => c \in McpCalls
  /\ demand[c].pc = "wait" => demand[c].on \in Dials /\ dial[demand[c].on].pc # "none"
  /\ demand[c].pc \in {"out", "cleanup"} =>
       demand[c].on \in Dials /\ dial[demand[c].on].pc = "done"
  /\ c \in McpCalls =>
       /\ demand[c].pc \in {"wait", "ensured", "out", "cleanup"} => ~ demand[c].late
       /\ demand[c].result = "ok" =>
            /\ demand[c].pc = "returned"
            /\ demand[c].on \in Dials
            /\ dial[demand[c].on].pc # "none"
            /\ dial[demand[c].on].epoch = demand[c].epoch
            /\ ~ demand[c].late
DemandsInv == \A c \in Demands : DemandOk(c)

\* The mutex: a call past it heads the queue, one before it is in the queue.
QueueOk(c) ==
  /\ demand[c].pc = "queued" => \E i \in 1 .. Len(waiters) : waiters[i] = c
  /\ demand[c].pc \in {"wait", "ensured", "out", "cleanup"} =>
       Len(waiters) > 0 /\ waiters[1] = c
QueueInv == \A c \in McpCalls : QueueOk(c)

McpTyped ==
  /\ hub \in HubType
  /\ dial \in [Dials -> DialType]
  /\ peer \in [Dials -> PeerType]

ConnectionInv ==
  McpTyped /\ SessionInv /\ FlightInv /\ AttemptsInv /\ FailuresCountOnce /\ ShutdownIsThorough

CallersTyped ==
  /\ waiters \in Seq(McpCalls)
  /\ demand \in [Demands -> DemandType]
  /\ chances \in [McpEvents -> Nat]

\* The inductive invariant of the connector.
McpInv == ConnectionInv /\ CallersTyped /\ DemandsInv /\ QueueInv

LEMMA McpConstants ==
  /\ MaxDials \in Nat /\ NoPeer \notin Dials /\ NoPeer = 0
  /\ \A d \in Dials : d # NoPeer
  /\ McpLoads \subseteq [McpEvents -> Nat]
  /\ McpCalls \subseteq Demands /\ Warmups \subseteq Demands
  /\ \A c \in Warmups : c \notin McpCalls
  /\ \A c \in Demands : c \in McpCalls \/ c \in Warmups
<1>1. MaxDials \in Nat /\ NoPeer \notin Dials /\ \A d \in Dials : d # NoPeer
  BY McpAssumption DEF Dials, NoPeer
<1>2. McpLoads \subseteq [McpEvents -> Nat] /\ McpCalls \intersect Warmups = {}
  BY McpAssumption
<1>. QED
  BY <1>1, <1>2 DEF Demands, NoPeer

LEMMA McpTypeSplit == McpTypeOK <=> McpTyped /\ CallersTyped
BY DEF McpTypeOK, McpTyped, CallersTyped, HubType, DialType, PeerType, DemandType,
       DemandPcs, DialPcs, Cleanups

LEMMA HubFields ==
  ASSUME McpTyped
  PROVE  /\ hub.session \in Dials \union {NoPeer} /\ hub.flight \in Dials \union {NoPeer}
         /\ hub.connected \in BOOLEAN /\ hub.closing \in BOOLEAN
         /\ hub.fails \in Nat /\ hub.epoch \in Nat
         /\ hub = [session |-> hub.session, connected |-> hub.connected,
                   fails |-> hub.fails, epoch |-> hub.epoch,
                   closing |-> hub.closing, flight |-> hub.flight]
BY DEF McpTyped, HubType

LEMMA AttemptFields ==
  ASSUME McpTyped, NEW d \in Dials
  PROVE  /\ dial[d] \in DialType /\ peer[d] \in PeerType
         /\ dial[d].pc \in DialPcs /\ dial[d].epoch \in Nat
         /\ dial[d].aborted \in BOOLEAN /\ dial[d].result \in Results
         /\ peer[d].up \in BOOLEAN /\ peer[d].ready \in BOOLEAN
         /\ peer[d].stop \in BOOLEAN /\ peer[d].seen \in BOOLEAN
         /\ peer[d].failed \in BOOLEAN /\ peer[d].cleanup \in Cleanups
<1>1. dial[d] \in DialType /\ peer[d] \in PeerType
  BY DEF McpTyped
<1>. QED
  BY <1>1 DEF DialType, PeerType

-----------------------------------------------------------------------------
(* Counting the failures.                                                   *)

LEMMA DialsAreFew ==
  ASSUME NEW S \in SUBSET Dials, NEW T \in SUBSET Dials, S \subseteq T
  PROVE  /\ Cardinality(S) \in Nat /\ Cardinality(T) \in Nat
         /\ Cardinality(S) <= Cardinality(T)
         /\ \A d \in T \ S : Cardinality(S) + 1 <= Cardinality(T)
<1>1. IsFiniteSet(Dials)
  BY McpConstants, FS_Interval DEF Dials
<1>2. IsFiniteSet(S) /\ IsFiniteSet(T)
  BY <1>1, FS_Subset
<1>3. Cardinality(S) \in Nat /\ Cardinality(T) \in Nat
  BY <1>2, FS_CardinalityType
<1>4. Cardinality(S) <= Cardinality(T)
  BY <1>2, FS_Subset
<1>5. ASSUME NEW d \in T \ S
      PROVE  Cardinality(S) + 1 <= Cardinality(T)
  <2>1. Cardinality(S \union {d}) = Cardinality(S) + 1
    BY <1>2, <1>5, FS_AddElement
  <2>2. S \union {d} \subseteq T
    BY <1>5
  <2>3. Cardinality(S \union {d}) <= Cardinality(T)
    BY <1>2, <2>2, FS_Subset
  <2>. QED
    BY <2>1, <2>3
<1>. QED
  BY <1>3, <1>4, <1>5

\* The count does not grow, and no failure is forgotten.
LEMMA CountStays ==
  ASSUME McpTyped, McpTyped', FailuresCountOnce, hub'.fails <= hub.fails,
         \A d \in Dials : peer[d].failed => peer'[d].failed
  PROVE  FailuresCountOnce'
<1>. DEFINE S == {d \in Dials : peer[d].failed}
            T == {d \in Dials : peer'[d].failed}
<1>1. S \in SUBSET Dials /\ T \in SUBSET Dials /\ S \subseteq T
  OBVIOUS
<1>2. hub.fails \in Nat /\ hub'.fails \in Nat
  BY DEF McpTyped, HubType
<1>3. hub.fails <= Cardinality(S)
  BY DEF FailuresCountOnce
<1>4. (hub.fails <= Cardinality(T))
  <2>. HIDE DEF S, T
  <2>. QED
    BY <1>1, <1>2, <1>3, DialsAreFew
<1>5. hub'.fails <= Cardinality(T)
  <2>. HIDE DEF S, T
  <2>1. Cardinality(T) \in Nat
    BY <1>1, DialsAreFew
  <2>. QED
    BY <1>2, <1>4, <2>1
<1>. QED
  BY <1>5 DEF FailuresCountOnce

\* One connection is counted that was not counted before.
LEMMA CountMoves ==
  ASSUME McpTyped, McpTyped', FailuresCountOnce, hub'.fails = hub.fails + 1,
         NEW x \in Dials, ~ peer[x].failed, peer'[x].failed,
         \A d \in Dials : peer[d].failed => peer'[d].failed
  PROVE  FailuresCountOnce'
<1>. DEFINE S == {d \in Dials : peer[d].failed}
            T == {d \in Dials : peer'[d].failed}
<1>1. S \in SUBSET Dials /\ T \in SUBSET Dials /\ S \subseteq T /\ x \in T \ S
  OBVIOUS
<1>2. hub.fails \in Nat
  BY DEF McpTyped, HubType
<1>3. hub.fails <= Cardinality(S)
  BY DEF FailuresCountOnce
<1>4. hub'.fails <= Cardinality(T)
  <2>. HIDE DEF S, T
  <2>1. Cardinality(S) \in Nat /\ Cardinality(T) \in Nat
    BY <1>1, DialsAreFew
  <2>2. Cardinality(S) + 1 <= Cardinality(T)
    BY <1>1, DialsAreFew
  <2>. QED
    BY <1>2, <1>3, <2>1, <2>2
<1>. QED
  BY <1>4 DEF FailuresCountOnce

-----------------------------------------------------------------------------
(* The ends of a connection.                                                *)

\* What every step keeps of the attempts, as the calls see them.
AttemptsGoOn ==
  \A d \in Dials :
    /\ dial[d].pc # "none" => dial'[d].pc # "none" /\ dial'[d].epoch = dial[d].epoch
    /\ dial[d].pc = "done" => dial'[d].pc = "done"

\* Connection d is stopped, whatever stops it.
HubLetsGo(d) ==
  /\ hub' \in HubType
  /\ hub'.epoch = hub.epoch
  /\ hub'.closing = hub.closing
  /\ hub.session = d => hub'.session = NoPeer /\ ~ hub'.connected
  /\ hub.session # d =>
       /\ hub'.session = hub.session
       /\ hub'.connected = hub.connected
       /\ hub'.flight = hub.flight
  /\ hub'.flight \in {hub.flight, NoPeer}
PeerEnds(d) ==
  /\ peer' \in [Dials -> PeerType]
  /\ \A e \in Dials : e # d => peer'[e] = peer[e]
  /\ peer'[d].stop
  /\ peer'[d].cleanup # "none"
  /\ peer[d].cleanup = "done" => peer'[d].cleanup = "done"
  /\ peer[d].failed => peer'[d].failed
  /\ peer'[d].up \/ peer'[d].seen => peer[d].up \/ peer[d].seen
CountedOnce(d) ==
  \/ hub'.fails <= hub.fails
  \/ hub'.fails = hub.fails + 1 /\ ~ peer[d].failed /\ peer'[d].failed
DialFollows(d) ==
  /\ dial' \in [Dials -> DialType]
  /\ \A e \in Dials : e # d => dial'[e] = dial[e]
  /\ dial'[d].epoch = dial[d].epoch
  /\ dial[d].pc \notin {"none", "backoff"}
  /\ dial'[d].pc \notin {"none", "backoff"}
  /\ dial[d].pc = "done" => dial'[d].pc = "done"
  /\ hub'.flight = d => dial'[d].pc = "cleanup"

\* Where the session is, the flight is that session or there is none.
LEMMA SessionFacts ==
  ASSUME ConnectionInv, hub.session # NoPeer
  PROVE  /\ hub.session \in Dials /\ hub.flight \in {hub.session, NoPeer}
         /\ dial[hub.session].pc \in {"connect", "list", "done"}
         /\ ~ peer[hub.session].failed /\ ~ peer[hub.session].stop
         /\ ~ hub.closing /\ dial[hub.session].epoch = hub.epoch
<1>1. hub.session \in Dials /\ hub.connected \in BOOLEAN
  BY HubFields DEF ConnectionInv
<1>. QED
  BY <1>1 DEF ConnectionInv, SessionInv

LEMMA EndedKeeps ==
  ASSUME ConnectionInv, NEW d \in Dials,
         HubLetsGo(d), PeerEnds(d), CountedOnce(d), DialFollows(d)
  PROVE  ConnectionInv' /\ AttemptsGoOn
<1>1. McpTyped /\ McpTyped'
  BY DEF ConnectionInv, HubLetsGo, PeerEnds, DialFollows, McpTyped
<1>2. d # NoPeer
  BY McpConstants
<1>3. SessionInv'
  <2>1. CASE hub.session = d
    BY <2>1 DEF HubLetsGo, SessionInv
  <2>2. CASE hub.session # d /\ hub.session # NoPeer
    <3>1. hub.session \in Dials
      BY <2>2, SessionFacts
    <3>2. dial'[hub.session] = dial[hub.session] /\ peer'[hub.session] = peer[hub.session]
      BY <2>2, <3>1 DEF DialFollows, PeerEnds
    <3>3. /\ hub'.session = hub.session /\ hub'.connected = hub.connected
          /\ hub'.flight = hub.flight /\ hub'.epoch = hub.epoch /\ hub'.closing = hub.closing
      BY <2>2 DEF HubLetsGo
    <3>. QED
      BY <3>2, <3>3, Zenon DEF ConnectionInv, SessionInv
  <2>3. CASE hub.session # d /\ hub.session = NoPeer
    <3>1. hub'.session = NoPeer /\ hub'.connected = hub.connected
      BY <2>3 DEF HubLetsGo
    <3>. QED
      BY <2>3, <3>1, Zenon DEF ConnectionInv, SessionInv
  <2>. QED
    BY <2>1, <2>2, <2>3
<1>4. FlightInv'
  <2>1. SUFFICES ASSUME hub'.flight # NoPeer
                 PROVE  /\ dial'[hub'.flight].pc \in {"backoff", "connect", "list", "cleanup"}
                        /\ dial'[hub'.flight].pc \in {"backoff", "cleanup"} => hub'.session = NoPeer
                        /\ dial'[hub'.flight].pc \in {"connect", "list"}
                             => hub'.session = hub'.flight
    BY DEF FlightInv
  <2>2. hub'.flight = hub.flight /\ hub.flight \in Dials
    BY <1>1, <2>1, HubFields DEF HubLetsGo
  <2>3. CASE hub.flight = d
    <3>1. dial'[d].pc = "cleanup"
      BY <2>2, <2>3 DEF DialFollows
    <3>2. hub.session # d => hub.session = NoPeer
      BY <1>2, <2>3, SessionFacts
    <3>. QED
      BY <2>2, <2>3, <3>1, <3>2 DEF HubLetsGo
  <2>4. CASE hub.flight # d
    <3>1. dial'[hub.flight] = dial[hub.flight]
      BY <2>2, <2>4 DEF DialFollows
    <3>2. hub.session # d
      BY <1>2, <2>2, <2>4, SessionFacts, McpConstants
    <3>. QED
      BY <2>1, <2>2, <3>1, <3>2 DEF HubLetsGo, ConnectionInv, FlightInv
  <2>. QED
    BY <2>3, <2>4
<1>5. AttemptsInv'
  <2>1. SUFFICES ASSUME NEW e \in Dials
                 PROVE  AttemptInv(e)'
    BY DEF AttemptsInv
  <2>2. AttemptInv(e) /\ hub'.epoch = hub.epoch
    BY DEF ConnectionInv, AttemptsInv, HubLetsGo
  <2>3. CASE e = d
    BY <2>2, <2>3 DEF AttemptInv, DialFollows, PeerEnds
  <2>4. CASE e # d
    <3>1. dial'[e] = dial[e] /\ peer'[e] = peer[e]
      BY <2>4 DEF DialFollows, PeerEnds
    <3>2. hub.flight = e => hub'.flight = e
      BY <1>2, <2>4, SessionFacts, McpConstants DEF HubLetsGo
    <3>3. hub.session = e => hub'.session = e
      BY <2>4 DEF HubLetsGo
    <3>. QED
      BY <2>2, <3>1, <3>2, <3>3 DEF AttemptInv
  <2>. QED
    BY <2>3, <2>4
<1>6. FailuresCountOnce'
  <2>1. \A e \in Dials : peer[e].failed => peer'[e].failed
    BY DEF PeerEnds
  <2>2. CASE hub'.fails <= hub.fails
    BY <1>1, <2>1, <2>2, CountStays DEF ConnectionInv
  <2>3. CASE hub'.fails = hub.fails + 1 /\ ~ peer[d].failed /\ peer'[d].failed
    BY <1>1, <2>1, <2>3, CountMoves DEF ConnectionInv
  <2>. QED
    BY <2>2, <2>3 DEF CountedOnce
<1>7. ShutdownIsThorough'
  <2>1. SUFFICES ASSUME ~ hub'.closing, NEW e \in Dials, dial'[e].epoch < hub'.epoch,
                        peer'[e].up \/ peer'[e].seen
                 PROVE  peer'[e].cleanup = "done"
    BY DEF ShutdownIsThorough
  <2>2. /\ ~ hub.closing /\ hub'.epoch = hub.epoch /\ dial'[e].epoch = dial[e].epoch
        /\ peer[e].up \/ peer[e].seen
        /\ peer[e].cleanup = "done" => peer'[e].cleanup = "done"
    BY <2>1 DEF HubLetsGo, PeerEnds, DialFollows
  <2>. QED
    BY <2>1, <2>2 DEF ConnectionInv, ShutdownIsThorough
<1>8. AttemptsGoOn
  BY DEF AttemptsGoOn, DialFollows
<1>. QED
  BY <1>1, <1>3, <1>4, <1>5, <1>6, <1>7, <1>8 DEF ConnectionInv

LEMMA StoppedPeer ==
  ASSUME NEW p \in PeerType
  PROVE  /\ Stopped(p) \in PeerType
         /\ Stopped(p).stop /\ Stopped(p).cleanup # "none"
         /\ p.cleanup = "done" => Stopped(p).cleanup = "done"
         /\ Stopped(p).up = p.up /\ Stopped(p).seen = p.seen /\ Stopped(p).failed = p.failed
         /\ ~ Stopped(p).ready
<1>. DEFINE next == IF p.cleanup = "none" THEN IF p.seen THEN "done" ELSE "running"
                    ELSE p.cleanup
<1>1. Stopped(p) = [p EXCEPT !.stop = TRUE, !.ready = FALSE, !.cleanup = next]
  BY Zenon DEF Stopped
<1>2. next \in Cleanups /\ next # "none" /\ (p.cleanup = "done" => next = "done")
  BY DEF PeerType, Cleanups
<1>. HIDE DEF next
<1>3. Stopped(p) = [up |-> p.up, ready |-> FALSE, stop |-> TRUE, seen |-> p.seen,
                    failed |-> p.failed, cleanup |-> next]
  BY <1>1 DEF PeerType
<1>4. /\ p.up \in BOOLEAN /\ p.seen \in BOOLEAN /\ p.failed \in BOOLEAN
  BY DEF PeerType
<1>5. Stopped(p) \in PeerType
  BY <1>2, <1>3, <1>4 DEF PeerType
<1>. QED
  BY <1>2, <1>3, <1>5

\* cleanupSession stops the connection, and counts it at most once.
LEMMA CleanUpEffect ==
  ASSUME ConnectionInv, NEW d \in Dials, NEW count \in BOOLEAN, NEW reset \in BOOLEAN,
         CleanUp(d, count, reset)
  PROVE  /\ HubLetsGo(d) /\ PeerEnds(d) /\ CountedOnce(d)
         /\ hub'.flight = hub.flight
<1>1. McpTyped /\ peer \in [Dials -> PeerType] /\ hub \in HubType
  BY DEF ConnectionInv, McpTyped
<1>. DEFINE current == hub.session = d
            failed == peer[d].failed \/ (current /\ count)
<1>2. peer' = [peer EXCEPT ![d] = [Stopped(peer[d]) EXCEPT !.failed = failed]]
  <2>1. peer' = [peer EXCEPT ![d] = [Stopped(peer[d]) EXCEPT
                    !.failed = Stopped(peer[d]).failed \/ (current /\ count)]]
    BY <1>1, Zenon DEF CleanUp
  <2>2. Stopped(peer[d]).failed = peer[d].failed
    BY <1>1, StoppedPeer
  <2>. QED
    BY <2>1, <2>2
<1>3. failed \in BOOLEAN /\ (peer[d].failed => failed) /\ (current /\ count => failed)
  OBVIOUS
<1>4. PeerEnds(d) /\ peer'[d].failed = failed
  <2>. HIDE DEF failed, current
  <2>1. /\ peer'[d] = [Stopped(peer[d]) EXCEPT !.failed = failed]
        /\ \A e \in Dials : e # d => peer'[e] = peer[e]
        /\ peer' \in [Dials -> PeerType]
        /\ peer'[d].failed = failed
    BY <1>1, <1>2, <1>3, AttemptFields, StoppedPeer DEF PeerType
  <2>. QED
    BY <1>1, <1>3, <2>1, AttemptFields, StoppedPeer DEF PeerEnds, PeerType
<1>5. CASE ~ current
  <2>1. hub' = hub
    BY <1>5 DEF CleanUp
  <2>. QED
    BY <1>1, <1>4, <1>5, <2>1, HubFields DEF HubLetsGo, CountedOnce
<1>6. CASE current
  <2>1. hub.session = d /\ d # NoPeer /\ ~ peer[d].failed
    BY <1>6, McpConstants, SessionFacts
  <2>. DEFINE fails == IF reset THEN 0 ELSE IF count THEN hub.fails + 1 ELSE hub.fails
  <2>2. hub' = [hub EXCEPT !.session = NoPeer, !.connected = FALSE, !.fails = fails]
    <3>1. CASE count
      <4>1. Counted(hub, d) = [hub EXCEPT !.fails = hub.fails + 1]
        BY <1>1, <2>1 DEF Counted, HubType
      <4>. QED
        BY <1>1, <1>6, <3>1, <4>1 DEF CleanUp, Forget, HubType
    <3>2. CASE ~ count
      BY <1>1, <1>6, <3>2 DEF CleanUp, Forget, HubType
    <3>. QED
      BY <3>1, <3>2
  <2>3. fails \in Nat /\ (fails <= hub.fails \/ (fails = hub.fails + 1 /\ count))
    BY <1>1, HubFields
  <2>. HIDE DEF fails
  <2>4. /\ hub'.session = NoPeer /\ ~ hub'.connected /\ hub'.fails = fails
        /\ hub'.epoch = hub.epoch /\ hub'.closing = hub.closing /\ hub'.flight = hub.flight
        /\ hub' \in HubType
    BY <1>1, <2>2, <2>3 DEF HubType
  <2>5. CountedOnce(d)
    BY <1>3, <1>4, <1>6, <2>1, <2>3, <2>4 DEF CountedOnce
  <2>. QED
    BY <1>4, <2>1, <2>4, <2>5 DEF HubLetsGo
<1>. QED
  BY <1>5, <1>6

\* The attempt that fails cleans up.
LEMMA AttemptCleansUp ==
  ASSUME ConnectionInv, NEW d \in Dials, NEW count \in BOOLEAN, NEW reset \in BOOLEAN,
         NEW result \in Results, CleanUp(d, count, reset),
         dial[d].pc \in {"connect", "list"},
         dial' = [dial EXCEPT ![d].pc = "cleanup", ![d].result = result]
  PROVE  ConnectionInv' /\ AttemptsGoOn
<1>1. dial \in [Dials -> DialType] /\ McpTyped
  BY DEF ConnectionInv, McpTyped
<1>2. /\ dial'[d] = [dial[d] EXCEPT !.pc = "cleanup", !.result = result]
      /\ \A e \in Dials : e # d => dial'[e] = dial[e]
      /\ dial' \in [Dials -> DialType]
  BY ZenonT(60), <1>1, AttemptFields DEF DialType, DialPcs
<1>3. dial'[d].pc = "cleanup" /\ dial'[d].epoch = dial[d].epoch
  BY <1>1, <1>2, AttemptFields DEF DialType
<1>4. DialFollows(d)
  BY <1>2, <1>3 DEF DialFollows
<1>. QED
  BY <1>4, CleanUpEffect, EndedKeeps

LEMMA DialFailsConnection ==
  ASSUME ConnectionInv, NEW d \in Dials, DialFails(d)
  PROVE  ConnectionInv' /\ AttemptsGoOn
BY AttemptCleansUp DEF DialFails, Results

LEMMA InterruptedConnection ==
  ASSUME ConnectionInv, NEW d \in Dials, Interrupted(d)
  PROVE  ConnectionInv' /\ AttemptsGoOn
BY AttemptCleansUp DEF Interrupted, Results

LEMMA MismatchedConnection ==
  ASSUME ConnectionInv, NEW d \in Dials, Mismatched(d)
  PROVE  ConnectionInv' /\ AttemptsGoOn
BY AttemptCleansUp DEF Mismatched, Results

\* A request that is lost on a connection whose attempt is over.
LEMMA RequestLostConnection ==
  ASSUME ConnectionInv, NEW d \in Dials, dial[d].pc = "done",
         CleanUp(d, TRUE, FALSE), UNCHANGED dial
  PROVE  ConnectionInv' /\ AttemptsGoOn
<1>1. hub.flight # d
  BY McpConstants DEF ConnectionInv, FlightInv
<1>2. HubLetsGo(d) /\ PeerEnds(d) /\ CountedOnce(d) /\ hub'.flight = hub.flight
  BY CleanUpEffect
<1>3. DialFollows(d)
  BY <1>1, <1>2 DEF DialFollows, ConnectionInv, McpTyped
<1>. QED
  BY <1>2, <1>3, EndedKeeps

\* The connector forgets a session it has counted, and the flight.
LEMMA ForgetsCounted ==
  ASSUME McpTyped, NEW d \in Dials, ~ peer[d].failed,
         hub' = [Forget(Counted(hub, d)) EXCEPT !.flight = NoPeer]
  PROVE  /\ hub'.session = NoPeer /\ ~ hub'.connected /\ hub'.fails = hub.fails + 1
         /\ hub'.epoch = hub.epoch /\ hub'.closing = hub.closing /\ hub'.flight = NoPeer
         /\ hub' \in HubType
<1>1. hub \in HubType /\ hub.fails + 1 \in Nat /\ hub.epoch \in Nat /\ hub.closing \in BOOLEAN
  BY HubFields DEF McpTyped
<1>2. Counted(hub, d) = [hub EXCEPT !.fails = hub.fails + 1]
  BY <1>1 DEF Counted, HubType
<1>. DEFINE more == hub.fails + 1
<1>3. hub' = [hub EXCEPT !.session = NoPeer, !.connected = FALSE, !.fails = more,
                         !.flight = NoPeer]
  BY <1>1, <1>2 DEF Forget, HubType
<1>4. more \in Nat
  BY <1>1
<1>. HIDE DEF more
<1>5. /\ hub'.session = NoPeer /\ ~ hub'.connected /\ hub'.fails = more
      /\ hub'.epoch = hub.epoch /\ hub'.closing = hub.closing /\ hub'.flight = NoPeer
      /\ hub' \in HubType
  BY <1>1, <1>3, <1>4 DEF HubType
<1>. QED
  BY <1>5 DEF more

LEMMA FailedPeer ==
  ASSUME NEW p \in PeerType, NEW q, q = [p EXCEPT !.failed = TRUE]
  PROVE  /\ q \in PeerType /\ q.failed /\ q.up = p.up /\ q.seen = p.seen
         /\ q.stop = p.stop /\ q.cleanup = p.cleanup
BY DEF PeerType

LEMMA UpPeer ==
  ASSUME NEW p \in PeerType, NEW q, q = [p EXCEPT !.up = TRUE]
  PROVE  /\ q \in PeerType /\ q.up /\ q.failed = p.failed /\ q.seen = p.seen
         /\ q.stop = p.stop /\ q.cleanup = p.cleanup
BY DEF PeerType

LEMMA NewPeerFields ==
  /\ ~ NewPeer.stop /\ ~ NewPeer.seen /\ ~ NewPeer.failed /\ ~ NewPeer.up
  /\ NewPeer.cleanup = "none"
BY DEF NewPeer

LEMMA PeerClosesConnection ==
  ASSUME ConnectionInv, NEW d \in Dials, PeerCloses(d)
  PROVE  ConnectionInv' /\ AttemptsGoOn
<1>1. McpTyped /\ peer \in [Dials -> PeerType] /\ hub \in HubType
  BY DEF ConnectionInv, McpTyped
<1>. DEFINE failed == peer[d].failed \/ (hub.session = d /\ ~ peer[d].stop)
            p == [peer[d] EXCEPT !.seen = TRUE]
<1>2. /\ peer[d].up /\ UNCHANGED dial
      /\ hub' = IF hub.session # d THEN hub
                ELSE [Forget(IF peer[d].stop THEN hub ELSE Counted(hub, d)) EXCEPT
                        !.flight = NoPeer]
  BY DEF PeerCloses
<1>3. p \in PeerType /\ p.failed = peer[d].failed /\ p.cleanup = peer[d].cleanup
  BY <1>1, AttemptFields DEF PeerType
<1>4. peer' = [peer EXCEPT ![d] = [Stopped(p) EXCEPT !.up = FALSE, !.failed = failed]]
  <2>1. peer' = [peer EXCEPT ![d] = [Stopped(p) EXCEPT !.up = FALSE,
                    !.failed = Stopped(p).failed \/ (hub.session = d /\ ~ peer[d].stop)]]
    BY Zenon DEF PeerCloses
  <2>2. Stopped(p).failed = peer[d].failed
    BY <1>3, StoppedPeer
  <2>. QED
    BY <2>1, <2>2
<1>5. failed \in BOOLEAN /\ (peer[d].failed => failed)
      /\ (hub.session = d /\ ~ peer[d].stop => failed)
  OBVIOUS
<1>6. PeerEnds(d) /\ peer'[d].failed = failed
  <2>. HIDE DEF failed, p
  <2>1. /\ peer'[d] = [Stopped(p) EXCEPT !.up = FALSE, !.failed = failed]
        /\ \A e \in Dials : e # d => peer'[e] = peer[e]
        /\ peer' \in [Dials -> PeerType]
        /\ peer'[d].failed = failed
    BY <1>1, <1>3, <1>4, <1>5, StoppedPeer DEF PeerType
  <2>2. peer'[d].stop /\ peer'[d].cleanup # "none"
        /\ (peer[d].cleanup = "done" => peer'[d].cleanup = "done")
    BY <1>3, <2>1, StoppedPeer DEF PeerType
  <2>. QED
    BY <1>2, <1>5, <2>1, <2>2 DEF PeerEnds
<1>. HIDE DEF failed, p
<1>7. HubLetsGo(d) /\ CountedOnce(d) /\ (hub.session = d => hub'.flight = NoPeer)
  <2>1. CASE hub.session # d
    <3>1. hub' = hub
      BY <1>2, <2>1
    <3>. QED
      BY <1>1, <2>1, <3>1, HubFields DEF HubLetsGo, CountedOnce
  <2>2. CASE hub.session = d
    <3>1. ~ peer[d].failed /\ ~ peer[d].stop
      BY <2>2, SessionFacts, McpConstants
    <3>2. hub' = [Forget(Counted(hub, d)) EXCEPT !.flight = NoPeer]
      BY <1>2, <2>2, <3>1
    <3>4. /\ hub'.session = NoPeer /\ ~ hub'.connected /\ hub'.fails = hub.fails + 1
          /\ hub'.epoch = hub.epoch /\ hub'.closing = hub.closing /\ hub'.flight = NoPeer
          /\ hub' \in HubType
      BY <1>1, <3>1, <3>2, ForgetsCounted
    <3>. QED
      BY <1>5, <1>6, <2>2, <3>1, <3>4 DEF HubLetsGo, CountedOnce
  <2>. QED
    BY <2>1, <2>2
<1>8. DialFollows(d)
  <2>1. dial[d].pc \notin {"none", "backoff"}
    BY <1>2 DEF ConnectionInv, AttemptsInv, AttemptInv, NewPeer
  <2>2. ASSUME hub'.flight = d
        PROVE  dial[d].pc = "cleanup"
    <3>1. hub.flight = d /\ hub.session # d
      BY <1>7, <2>2, McpConstants DEF HubLetsGo
    <3>. QED
      BY <2>1, <3>1, McpConstants DEF ConnectionInv, FlightInv
  <2>. QED
    BY <1>2, <2>1, <2>2 DEF DialFollows, ConnectionInv, McpTyped
<1>. QED
  BY <1>6, <1>7, <1>8, EndedKeeps

LEMMA OverflowConnection ==
  ASSUME ConnectionInv, NEW d \in Dials, Overflow(d)
  PROVE  ConnectionInv' /\ AttemptsGoOn
<1>1. McpTyped /\ peer \in [Dials -> PeerType] /\ hub \in HubType
  BY DEF ConnectionInv, McpTyped
<1>2. /\ hub.session = d /\ UNCHANGED dial
      /\ hub' = [Forget(Counted(hub, d)) EXCEPT !.flight = NoPeer]
      /\ peer' = [peer EXCEPT ![d] = [Stopped(peer[d]) EXCEPT !.failed = TRUE]]
  BY DEF Overflow
<1>3. ~ peer[d].failed /\ dial[d].pc \in {"connect", "list", "done"}
  BY <1>2, SessionFacts, McpConstants
<1>4. PeerEnds(d) /\ peer'[d].failed
  <2>. DEFINE q == [Stopped(peer[d]) EXCEPT !.failed = TRUE]
  <2>0. q \in PeerType /\ q.failed
    <3>1. peer[d] \in PeerType
      BY <1>1
    <3>2. Stopped(peer[d]) \in PeerType
      BY <3>1, StoppedPeer
    <3>. QED
      BY <3>2, FailedPeer
  <2>1. /\ peer'[d] = q
        /\ \A e \in Dials : e # d => peer'[e] = peer[e]
        /\ peer' \in [Dials -> PeerType]
        /\ peer'[d].failed
    <3>. HIDE DEF q
    <3>1. peer' = [peer EXCEPT ![d] = q]
      BY <1>2 DEF q
    <3>. QED
      BY <1>1, <2>0, <3>1
  <2>. QED
    BY <1>1, <2>1, AttemptFields, StoppedPeer DEF PeerEnds, PeerType
<1>6. /\ hub'.session = NoPeer /\ ~ hub'.connected /\ hub'.fails = hub.fails + 1
      /\ hub'.epoch = hub.epoch /\ hub'.closing = hub.closing /\ hub'.flight = NoPeer
      /\ hub' \in HubType
  BY <1>1, <1>2, <1>3, ForgetsCounted
<1>7. HubLetsGo(d) /\ CountedOnce(d)
  BY <1>2, <1>3, <1>4, <1>6 DEF HubLetsGo, CountedOnce
<1>8. DialFollows(d)
  BY <1>2, <1>3, <1>6, McpConstants DEF DialFollows, ConnectionInv, McpTyped
<1>. QED
  BY <1>4, <1>7, <1>8, EndedKeeps

LEMMA CleanupMovesConnection ==
  ASSUME ConnectionInv, NEW d \in Dials, CleanupMoves(d)
  PROVE  ConnectionInv' /\ AttemptsGoOn
<1>1. McpTyped /\ peer \in [Dials -> PeerType] /\ peer[d].stop \in BOOLEAN
  BY AttemptFields DEF ConnectionInv, McpTyped
<1>2. PICK next \in {"killed", "done"} :
        /\ peer' = [peer EXCEPT ![d].cleanup = next]
        /\ peer[d].cleanup \in {"running", "killed"}
        /\ UNCHANGED <<hub, dial>>
  BY DEF CleanupMoves
<1>3. /\ peer' \in [Dials -> PeerType]
      /\ \A e \in Dials : e # d => peer'[e] = peer[e]
      /\ peer'[d] = [peer[d] EXCEPT !.cleanup = next]
  BY <1>1, <1>2, AttemptFields DEF PeerType, Cleanups
<1>4. /\ peer'[d].up = peer[d].up /\ peer'[d].seen = peer[d].seen
      /\ peer'[d].stop = peer[d].stop /\ peer'[d].failed = peer[d].failed
      /\ peer'[d].cleanup = next
  BY <1>1, <1>3, AttemptFields DEF PeerType
<1>5. peer[d].stop
  BY <1>1, <1>2 DEF ConnectionInv, AttemptsInv, AttemptInv
<1>6. hub.session # d
  BY <1>5, SessionFacts, McpConstants
<1>7. hub.flight = d => dial[d].pc = "cleanup"
  BY <1>2, <1>6, McpConstants
  DEF ConnectionInv, FlightInv, AttemptsInv, AttemptInv, NewPeer
<1>8. HubLetsGo(d) /\ CountedOnce(d) /\ PeerEnds(d)
  BY <1>1, <1>2, <1>3, <1>4, <1>5, <1>6, HubFields
  DEF HubLetsGo, CountedOnce, PeerEnds, McpTyped
<1>9. DialFollows(d)
  BY <1>1, <1>2, <1>7
  DEF DialFollows, McpTyped, ConnectionInv, AttemptsInv, AttemptInv, NewPeer
<1>. QED
  BY <1>8, <1>9, EndedKeeps

-----------------------------------------------------------------------------
(* The ways of an attempt.                                                  *)

\* Attempt d is over, and there is no connection of its own to stop.
Settles(d) ==
  /\ dial[d].pc \in {"none", "backoff", "cleanup"}
  /\ dial' \in [Dials -> DialType]
  /\ \A e \in Dials : e # d => dial'[e] = dial[e]
  /\ dial'[d].pc = "done"
  /\ dial'[d].epoch <= hub.epoch
  /\ dial[d].pc # "none" => dial'[d].epoch = dial[d].epoch
PeerRests(d) ==
  /\ peer' \in [Dials -> PeerType]
  /\ \A e \in Dials : e # d => peer'[e] = peer[e]
  /\ peer'[d].up = peer[d].up /\ peer'[d].seen = peer[d].seen
  /\ peer'[d].stop = peer[d].stop /\ peer'[d].cleanup = peer[d].cleanup
  /\ peer[d].failed => peer'[d].failed
HubLands(d) ==
  /\ hub' \in HubType
  /\ hub'.session = hub.session
  /\ hub'.connected = hub.connected
  /\ hub'.epoch = hub.epoch
  /\ hub'.closing = hub.closing
  /\ hub'.flight = IF hub.flight = d THEN NoPeer ELSE hub.flight

LEMMA SettledKeeps ==
  ASSUME ConnectionInv, NEW d \in Dials, Settles(d), PeerRests(d), HubLands(d),
         CountedOnce(d)
  PROVE  ConnectionInv' /\ AttemptsGoOn
<1>1. McpTyped /\ McpTyped' /\ d # NoPeer
  BY McpConstants DEF ConnectionInv, HubLands, PeerRests, Settles, McpTyped
<1>2. hub.session # d
  BY <1>1, SessionFacts DEF Settles
<1>3. SessionInv'
  <2>1. CASE hub.session # NoPeer
    <3>1. hub.session \in Dials
      BY <2>1, SessionFacts
    <3>2. dial'[hub.session] = dial[hub.session] /\ peer'[hub.session] = peer[hub.session]
      BY <1>2, <3>1 DEF Settles, PeerRests
    <3>3. /\ hub'.session = hub.session /\ hub'.connected = hub.connected
          /\ hub'.epoch = hub.epoch /\ hub'.closing = hub.closing
      BY DEF HubLands
    <3>4. hub'.flight = hub.flight
      BY <1>1, <1>2, <2>1, SessionFacts DEF HubLands
    <3>. QED
      BY <3>2, <3>3, <3>4, Zenon DEF ConnectionInv, SessionInv
  <2>2. CASE hub.session = NoPeer
    <3>1. hub'.session = NoPeer /\ hub'.connected = hub.connected
      BY <2>2 DEF HubLands
    <3>. QED
      BY <2>2, <3>1, Zenon DEF ConnectionInv, SessionInv
  <2>. QED
    BY <2>1, <2>2
<1>4. FlightInv'
  <2>1. CASE hub'.flight = NoPeer
    BY <2>1 DEF FlightInv
  <2>2. CASE hub'.flight # NoPeer
    <3>1. hub'.flight = hub.flight /\ hub.flight # d /\ hub.flight \in Dials
      BY <1>1, <2>2, HubFields DEF HubLands
    <3>2. dial'[hub.flight] = dial[hub.flight] /\ hub'.session = hub.session
      BY <3>1 DEF Settles, HubLands
    <3>. QED
      BY <2>2, <3>1, <3>2, Zenon DEF ConnectionInv, FlightInv
  <2>. QED
    BY <2>1, <2>2
<1>5. AttemptsInv'
  <2>1. SUFFICES ASSUME NEW e \in Dials
                 PROVE  AttemptInv(e)'
    BY DEF AttemptsInv
  <2>2. AttemptInv(e) /\ hub'.epoch = hub.epoch /\ hub'.session = hub.session
    BY DEF ConnectionInv, AttemptsInv, HubLands
  <2>3. CASE e = d
    BY <2>2, <2>3 DEF AttemptInv, Settles, PeerRests
  <2>4. CASE e # d
    <3>1. dial'[e] = dial[e] /\ peer'[e] = peer[e]
      BY <2>4 DEF Settles, PeerRests
    <3>2. hub.flight = e => hub'.flight = e
      BY <2>4 DEF HubLands
    <3>. QED
      BY <2>2, <3>1, <3>2 DEF AttemptInv
  <2>. QED
    BY <2>3, <2>4
<1>6. FailuresCountOnce'
  <2>1. \A e \in Dials : peer[e].failed => peer'[e].failed
    BY DEF PeerRests
  <2>2. CASE hub'.fails <= hub.fails
    BY <1>1, <2>1, <2>2, CountStays DEF ConnectionInv
  <2>3. CASE hub'.fails = hub.fails + 1 /\ ~ peer[d].failed /\ peer'[d].failed
    BY <1>1, <2>1, <2>3, CountMoves DEF ConnectionInv
  <2>. QED
    BY <2>2, <2>3 DEF CountedOnce
<1>7. ShutdownIsThorough'
  <2>1. SUFFICES ASSUME ~ hub'.closing, NEW e \in Dials, dial'[e].epoch < hub'.epoch,
                        peer'[e].up \/ peer'[e].seen
                 PROVE  peer'[e].cleanup = "done"
    BY DEF ShutdownIsThorough
  <2>2. /\ ~ hub.closing /\ hub'.epoch = hub.epoch
        /\ peer[e].up \/ peer[e].seen
        /\ peer'[e].cleanup = peer[e].cleanup
    BY <2>1 DEF HubLands, PeerRests
  <2>3. dial[e].pc # "none"
    BY <2>2 DEF ConnectionInv, AttemptsInv, AttemptInv, NewPeer
  <2>4. dial'[e].epoch = dial[e].epoch
    BY <2>3 DEF Settles
  <2>. QED
    BY <2>1, <2>2, <2>4 DEF ConnectionInv, ShutdownIsThorough
<1>8. AttemptsGoOn
  BY DEF AttemptsGoOn, Settles
<1>. QED
  BY <1>1, <1>3, <1>4, <1>5, <1>6, <1>7, <1>8 DEF ConnectionInv

\* Attempt d makes its connection, or begins to wait, and is the flight.
Starts(d, next) ==
  /\ dial[d].pc \in {"none", "backoff"}
  /\ dial' \in [Dials -> DialType]
  /\ \A e \in Dials : e # d => dial'[e] = dial[e]
  /\ dial'[d].pc = next
  /\ dial'[d].epoch = hub.epoch
  /\ dial[d].pc # "none" => dial[d].epoch = hub.epoch
HubTakesOff(d, next) ==
  /\ hub' \in HubType
  /\ hub'.connected = hub.connected
  /\ hub'.epoch = hub.epoch
  /\ hub'.closing = hub.closing
  /\ hub'.fails = hub.fails
  /\ hub'.flight = d
  /\ hub'.session = IF next = "connect" THEN d ELSE hub.session
PeerAppears(d, next) ==
  /\ peer' \in [Dials -> PeerType]
  /\ \A e \in Dials : e # d => peer'[e] = peer[e]
  /\ next = "backoff" => peer'[d] = peer[d]
  /\ next = "connect" =>
       /\ peer'[d].up /\ ~ peer'[d].stop /\ ~ peer'[d].seen /\ ~ peer'[d].failed
       /\ peer'[d].cleanup = "none"

LEMMA StartedKeeps ==
  ASSUME ConnectionInv, NEW d \in Dials, NEW next \in {"backoff", "connect"},
         hub.session = NoPeer, ~ hub.connected, ~ hub.closing,
         hub.flight \in {NoPeer, d},
         Starts(d, next), HubTakesOff(d, next), PeerAppears(d, next)
  PROVE  ConnectionInv' /\ AttemptsGoOn
<1>1. McpTyped /\ McpTyped' /\ d # NoPeer
  BY McpConstants DEF ConnectionInv, HubTakesOff, PeerAppears, Starts, McpTyped
<1>2. AttemptInv(d) /\ peer[d] = NewPeer
  BY DEF ConnectionInv, AttemptsInv, AttemptInv, Starts
<1>3. SessionInv'
  <2>1. CASE next = "connect"
    BY <1>1, <2>1 DEF SessionInv, HubTakesOff, PeerAppears, Starts
  <2>2. CASE next = "backoff"
    BY <2>2 DEF SessionInv, HubTakesOff
  <2>. QED
    BY <2>1, <2>2
<1>4. FlightInv'
  BY DEF FlightInv, HubTakesOff, Starts
<1>5. AttemptsInv'
  <2>1. SUFFICES ASSUME NEW e \in Dials
                 PROVE  AttemptInv(e)'
    BY DEF AttemptsInv
  <2>2. AttemptInv(e) /\ hub'.epoch = hub.epoch /\ hub.epoch \in Nat
    BY <1>1, HubFields DEF ConnectionInv, AttemptsInv, HubTakesOff
  <2>3. CASE e = d /\ next = "connect"
    BY <2>2, <2>3 DEF AttemptInv, Starts, PeerAppears, HubTakesOff
  <2>4. CASE e = d /\ next = "backoff"
    BY <1>2, <2>2, <2>4 DEF AttemptInv, Starts, PeerAppears, HubTakesOff
  <2>5. CASE e # d
    <3>1. dial'[e] = dial[e] /\ peer'[e] = peer[e] /\ e # NoPeer
      BY <2>5, McpConstants DEF Starts, PeerAppears
    <3>2. hub.flight # e /\ hub.session # e
      BY <2>5, <3>1
    <3>. QED
      BY <2>2, <3>1, <3>2 DEF AttemptInv
  <2>. QED
    BY <2>3, <2>4, <2>5
<1>6. FailuresCountOnce'
  <2>1. \A e \in Dials : peer[e].failed => peer'[e].failed
    BY <1>2 DEF PeerAppears, NewPeer
  <2>2. hub'.fails <= hub.fails
    BY <1>1, HubFields DEF HubTakesOff
  <2>. QED
    BY <1>1, <2>1, <2>2, CountStays DEF ConnectionInv
<1>7. ShutdownIsThorough'
  <2>1. SUFFICES ASSUME ~ hub'.closing, NEW e \in Dials, dial'[e].epoch < hub'.epoch,
                        peer'[e].up \/ peer'[e].seen
                 PROVE  peer'[e].cleanup = "done"
    BY DEF ShutdownIsThorough
  <2>2. e # d /\ hub'.epoch = hub.epoch
    BY <1>1, <2>1, HubFields DEF Starts, HubTakesOff
  <2>3. dial'[e] = dial[e] /\ peer'[e] = peer[e]
    BY <2>2 DEF Starts, PeerAppears
  <2>. QED
    BY <2>1, <2>2, <2>3 DEF ConnectionInv, ShutdownIsThorough
<1>8. AttemptsGoOn
  BY DEF AttemptsGoOn, Starts
<1>. QED
  BY <1>1, <1>3, <1>4, <1>5, <1>6, <1>7, <1>8 DEF ConnectionInv

LEMMA ConstructConnection ==
  ASSUME ConnectionInv, NEW d \in Dials, dial[d].pc \in {"none", "backoff"},
         dial[d].pc # "none" => dial[d].epoch = hub.epoch,
         hub.session = NoPeer, ~ hub.connected, ~ hub.closing,
         hub.flight \in {NoPeer, d},
         Construct([hub EXCEPT !.flight = d], d, hub.epoch)
  PROVE  ConnectionInv' /\ AttemptsGoOn
<1>. DEFINE h == [hub EXCEPT !.flight = d]
<1>1. McpTyped /\ hub \in HubType /\ peer \in [Dials -> PeerType] /\ dial \in [Dials -> DialType]
  BY DEF ConnectionInv, McpTyped
<1>2. peer[d] = NewPeer /\ d # NoPeer /\ hub.epoch \in Nat /\ hub.fails \in Nat
  BY <1>1, HubFields, McpConstants DEF ConnectionInv, AttemptsInv, AttemptInv
<1>3. CASE /\ hub' = [h EXCEPT !.session = d]
           /\ peer' = [peer EXCEPT ![d].up = TRUE]
           /\ dial' = [dial EXCEPT ![d].pc = "connect", ![d].epoch = hub.epoch]
  <2>1. HubTakesOff(d, "connect")
    <3>1. hub' = [hub EXCEPT !.flight = d, !.session = d]
      BY <1>1, <1>3 DEF HubType
    <3>. QED
      BY <1>1, <3>1 DEF HubTakesOff, HubType
  <2>2. Starts(d, "connect")
    <3>1. /\ dial'[d] = [dial[d] EXCEPT !.pc = "connect", !.epoch = hub.epoch]
          /\ \A e \in Dials : e # d => dial'[e] = dial[e]
          /\ dial' \in [Dials -> DialType]
      BY ZenonT(60), <1>1, <1>2, <1>3, AttemptFields DEF DialType, DialPcs
    <3>2. dial'[d].pc = "connect" /\ dial'[d].epoch = hub.epoch
      BY <1>1, <3>1, AttemptFields DEF DialType
    <3>. QED
      BY <3>1, <3>2 DEF Starts
  <2>3. PeerAppears(d, "connect")
    <3>. DEFINE q == [peer[d] EXCEPT !.up = TRUE]
    <3>1. peer' = [peer EXCEPT ![d] = q]
      BY <1>3, Zenon
    <3>2. /\ q \in PeerType /\ q.up /\ ~ q.stop /\ ~ q.seen /\ ~ q.failed
          /\ q.cleanup = "none"
      BY <1>1, <1>2, AttemptFields, UpPeer, NewPeerFields
    <3>. HIDE DEF q
    <3>. QED
      BY <1>1, <3>1, <3>2 DEF PeerAppears
  <2>. QED
    BY <2>1, <2>2, <2>3, StartedKeeps
<1>4. CASE /\ hub' = [Landed(h, d) EXCEPT !.fails = @ + 1]
           /\ peer' = [peer EXCEPT ![d].failed = TRUE]
           /\ dial' = [dial EXCEPT ![d].pc = "done", ![d].epoch = hub.epoch,
                                   ![d].result = "unavailable"]
  <2>. DEFINE more == hub.fails + 1
  <2>1. hub' = [hub EXCEPT !.flight = NoPeer, !.fails = more]
    BY <1>1, <1>4 DEF HubType, Landed
  <2>2. more \in Nat
    BY <1>2
  <2>3. HubLands(d) /\ hub'.fails = more
    <3>. HIDE DEF more
    <3>. QED
      BY <1>1, <2>1, <2>2 DEF HubLands, HubType
  <2>4. PeerRests(d) /\ peer'[d].failed /\ ~ peer[d].failed
    <3>. DEFINE q == [peer[d] EXCEPT !.failed = TRUE]
    <3>1. peer' = [peer EXCEPT ![d] = q]
      BY <1>4, Zenon
    <3>2. /\ q \in PeerType /\ q.failed /\ q.up = peer[d].up /\ q.seen = peer[d].seen
          /\ q.stop = peer[d].stop /\ q.cleanup = peer[d].cleanup /\ ~ peer[d].failed
      BY <1>1, <1>2, AttemptFields, FailedPeer, NewPeerFields
    <3>. HIDE DEF q
    <3>. QED
      BY <1>1, <3>1, <3>2 DEF PeerRests
  <2>5. Settles(d)
    <3>. DEFINE q == [dial[d] EXCEPT !.pc = "done", !.epoch = hub.epoch,
                                     !.result = "unavailable"]
    <3>1. dial' = [dial EXCEPT ![d] = q]
      BY <1>1, <1>4, AttemptFields DEF DialType
    <3>2. q \in DialType /\ q.pc = "done" /\ q.epoch = hub.epoch
      BY <1>1, <1>2, AttemptFields DEF DialType, DialPcs, Results
    <3>. HIDE DEF q
    <3>3. /\ dial'[d] = q
          /\ \A e \in Dials : e # d => dial'[e] = dial[e]
          /\ dial' \in [Dials -> DialType]
      BY <1>1, <3>1, <3>2
    <3>. QED
      BY <1>2, <3>2, <3>3 DEF Settles
  <2>6. CountedOnce(d)
    BY <2>3, <2>4 DEF CountedOnce
  <2>. QED
    BY <2>3, <2>4, <2>5, <2>6, SettledKeeps
<1>. QED
  BY <1>3, <1>4 DEF Construct

LEMMA LandedHub ==
  ASSUME McpTyped, NEW d \in Dials, hub' = Landed(hub, d)
  PROVE  HubLands(d) /\ hub'.fails = hub.fails
<1>1. CASE hub.flight = d
  <2>1. hub' = [hub EXCEPT !.flight = NoPeer]
    BY <1>1 DEF McpTyped, HubType, Landed
  <2>. QED
    BY <1>1, <2>1 DEF McpTyped, HubType, HubLands
<1>2. CASE hub.flight # d
  <2>1. hub' = hub
    BY <1>2 DEF McpTyped, HubType, Landed
  <2>. QED
    BY <1>2, <2>1 DEF McpTyped, HubLands
<1>. QED
  BY <1>1, <1>2

LEMMA BackoffEndsConnection ==
  ASSUME ConnectionInv, NEW d \in Dials, BackoffEnds(d)
  PROVE  ConnectionInv' /\ AttemptsGoOn
<1>1. McpTyped /\ hub \in HubType /\ peer \in [Dials -> PeerType] /\ dial \in [Dials -> DialType]
  BY DEF ConnectionInv, McpTyped
<1>2. dial[d].pc = "backoff" /\ d # NoPeer /\ dial[d].epoch <= hub.epoch
  BY McpConstants DEF BackoffEnds, ConnectionInv, AttemptsInv, AttemptInv
<1>3. CASE IsStopped(dial[d].epoch) \/ dial[d].aborted
  <2>1. /\ dial' = [dial EXCEPT ![d].pc = "done", ![d].result = "unavailable"]
        /\ hub' = Landed(hub, d) /\ UNCHANGED peer
    BY <1>3 DEF BackoffEnds
  <2>2. /\ dial'[d] = [dial[d] EXCEPT !.pc = "done", !.result = "unavailable"]
        /\ \A e \in Dials : e # d => dial'[e] = dial[e]
        /\ dial' \in [Dials -> DialType]
    BY ZenonT(60), <1>1, <2>1, AttemptFields DEF DialType, DialPcs, Results
  <2>3. dial'[d].pc = "done" /\ dial'[d].epoch = dial[d].epoch
    BY <1>1, <2>2, AttemptFields DEF DialType
  <2>4. Settles(d)
    BY <1>2, <2>2, <2>3 DEF Settles
  <2>5. HubLands(d) /\ CountedOnce(d)
    BY <1>1, <2>1, LandedHub, HubFields DEF CountedOnce
  <2>6. PeerRests(d)
    BY <1>1, <2>1 DEF PeerRests
  <2>. QED
    BY <2>4, <2>5, <2>6, SettledKeeps
<1>4. CASE ~ (IsStopped(dial[d].epoch) \/ dial[d].aborted)
  <2>1. Construct(hub, d, dial[d].epoch)
    BY <1>4 DEF BackoffEnds
  <2>2. ~ hub.closing /\ dial[d].epoch = hub.epoch
    BY <1>4 DEF IsStopped
  <2>3. hub.flight = d /\ hub.session = NoPeer
    BY <1>2, <2>2 DEF ConnectionInv, AttemptsInv, AttemptInv, FlightInv
  <2>4. ~ hub.connected
    BY <2>3 DEF ConnectionInv, SessionInv
  <2>5. hub = [hub EXCEPT !.flight = d]
    BY <1>1, <2>3 DEF HubType
  <2>6. Construct([hub EXCEPT !.flight = d], d, hub.epoch)
    BY <2>1, <2>2, <2>5
  <2>. QED
    BY <1>2, <2>2, <2>3, <2>4, <2>6, ConstructConnection
<1>. QED
  BY <1>3, <1>4

LEMMA DialCleanedConnection ==
  ASSUME ConnectionInv, NEW d \in Dials, DialCleaned(d)
  PROVE  ConnectionInv' /\ AttemptsGoOn
<1>1. McpTyped /\ peer \in [Dials -> PeerType] /\ dial \in [Dials -> DialType]
  BY DEF ConnectionInv, McpTyped
<1>2. /\ dial[d].pc = "cleanup" /\ hub' = Landed(hub, d) /\ UNCHANGED peer
      /\ dial' = [dial EXCEPT ![d].pc = "done"]
  BY DEF DialCleaned
<1>3. /\ dial'[d] = [dial[d] EXCEPT !.pc = "done"]
      /\ \A e \in Dials : e # d => dial'[e] = dial[e]
      /\ dial' \in [Dials -> DialType]
  BY <1>1, <1>2, AttemptFields DEF DialType, DialPcs
<1>4. dial'[d].pc = "done" /\ dial'[d].epoch = dial[d].epoch
  BY <1>1, <1>3, AttemptFields DEF DialType
<1>5. Settles(d)
  BY <1>2, <1>3, <1>4 DEF Settles, ConnectionInv, AttemptsInv, AttemptInv
<1>6. HubLands(d) /\ CountedOnce(d)
  BY <1>1, <1>2, LandedHub, HubFields DEF CountedOnce
<1>7. PeerRests(d)
  BY <1>1, <1>2 DEF PeerRests
<1>. QED
  BY <1>5, <1>6, <1>7, SettledKeeps

LEMMA WireMatchesConnection ==
  ASSUME ConnectionInv, NEW d \in Dials, WireMatches(d)
  PROVE  ConnectionInv' /\ AttemptsGoOn
<1>1. McpTyped /\ dial \in [Dials -> DialType] /\ d # NoPeer
  BY McpConstants DEF ConnectionInv, McpTyped
<1>2. /\ dial[d].pc = "connect" /\ UNCHANGED <<hub, peer>>
      /\ dial' = [dial EXCEPT ![d].pc = "list"]
  BY DEF WireMatches
<1>3. /\ dial'[d] = [dial[d] EXCEPT !.pc = "list"]
      /\ \A e \in Dials : e # d => dial'[e] = dial[e]
      /\ dial' \in [Dials -> DialType]
  BY <1>1, <1>2, AttemptFields DEF DialType, DialPcs
<1>4. dial'[d].pc = "list" /\ dial'[d].epoch = dial[d].epoch
  BY <1>1, <1>3, AttemptFields DEF DialType
<1>5. McpTyped'
  BY <1>1, <1>2, <1>3 DEF McpTyped
<1>6. SessionInv'
  <2>1. \/ hub.session = NoPeer
        \/ hub.session = d
        \/ hub.session # d /\ hub.session \in Dials
    BY <1>1, HubFields
  <2>2. CASE hub.session = NoPeer
    BY <1>2, <2>2 DEF ConnectionInv, SessionInv
  <2>3. CASE hub.session = d
    BY <1>1, <1>2, <1>4, <2>3 DEF ConnectionInv, SessionInv
  <2>4. CASE hub.session # d /\ hub.session \in Dials
    <3>1. dial'[hub.session] = dial[hub.session]
      BY <1>3, <2>4
    <3>. QED
      BY <1>2, <3>1, Zenon DEF ConnectionInv, SessionInv
  <2>. QED
    BY <2>1, <2>2, <2>3, <2>4
<1>7. FlightInv'
  <2>1. \/ hub.flight = NoPeer
        \/ hub.flight = d
        \/ hub.flight # d /\ hub.flight \in Dials
    BY <1>1, HubFields
  <2>2. CASE hub.flight = NoPeer
    BY <1>2, <2>2 DEF FlightInv
  <2>3. CASE hub.flight = d
    BY <1>1, <1>2, <1>4, <2>3 DEF ConnectionInv, FlightInv
  <2>4. CASE hub.flight # d /\ hub.flight \in Dials
    <3>1. dial'[hub.flight] = dial[hub.flight]
      BY <1>3, <2>4
    <3>. QED
      BY <1>2, <3>1, Zenon DEF ConnectionInv, FlightInv
  <2>. QED
    BY <2>1, <2>2, <2>3, <2>4
<1>8. AttemptsInv'
  <2>1. SUFFICES ASSUME NEW e \in Dials
                 PROVE  AttemptInv(e)'
    BY DEF AttemptsInv
  <2>2. AttemptInv(e)
    BY DEF ConnectionInv, AttemptsInv
  <2>3. CASE e = d
    BY <1>2, <1>4, <2>2, <2>3 DEF AttemptInv
  <2>4. CASE e # d
    BY <1>2, <1>3, <2>2, <2>4, Zenon DEF AttemptInv
  <2>. QED
    BY <2>3, <2>4
<1>9. FailuresCountOnce'
  BY <1>2 DEF ConnectionInv, FailuresCountOnce
<1>10. ShutdownIsThorough'
  <2>1. \A e \in Dials : dial'[e].epoch = dial[e].epoch
    BY <1>3, <1>4
  <2>. QED
    BY <1>2, <2>1 DEF ConnectionInv, ShutdownIsThorough
<1>11. AttemptsGoOn
  BY <1>2, <1>3, <1>4 DEF AttemptsGoOn
<1>. QED
  BY <1>5, <1>6, <1>7, <1>8, <1>9, <1>10, <1>11 DEF ConnectionInv

\* The connection that is published is the session, unfenced.
LEMMA PublishConnectionConnection ==
  ASSUME ConnectionInv, NEW d \in Dials, PublishConnection(d)
  PROVE  ConnectionInv' /\ AttemptsGoOn
<1>1. /\ McpTyped /\ dial \in [Dials -> DialType] /\ peer \in [Dials -> PeerType]
      /\ hub \in HubType /\ d # NoPeer
  BY McpConstants DEF ConnectionInv, McpTyped
<1>2. /\ dial[d].pc = "list" /\ ~ Fenced(d)
      /\ hub' = [Landed(hub, d) EXCEPT !.connected = TRUE, !.fails = 0]
      /\ peer' = [peer EXCEPT ![d].ready = TRUE]
      /\ dial' = [dial EXCEPT ![d].pc = "done", ![d].result = "ok"]
  BY DEF PublishConnection, Publish
<1>3. hub.session = d
  BY <1>2 DEF Fenced, IsSuperseded
<1>4. /\ hub.flight = d /\ peer[d].up /\ ~ peer[d].stop /\ ~ peer[d].failed
      /\ ~ hub.closing /\ dial[d].epoch = hub.epoch
  BY <1>1, <1>2, <1>3 DEF ConnectionInv, SessionInv
<1>5. /\ hub' \in HubType /\ hub'.session = d /\ hub'.connected /\ hub'.fails = 0
      /\ hub'.flight = NoPeer /\ hub'.epoch = hub.epoch /\ hub'.closing = hub.closing
  <2>1. hub' = [hub EXCEPT !.flight = NoPeer, !.connected = TRUE, !.fails = 0]
    BY <1>1, <1>2, <1>4 DEF Landed, HubType
  <2>. QED
    BY <1>1, <1>3, <2>1 DEF HubType
<1>6. /\ dial'[d] = [dial[d] EXCEPT !.pc = "done", !.result = "ok"]
      /\ \A e \in Dials : e # d => dial'[e] = dial[e]
      /\ dial' \in [Dials -> DialType]
  BY ZenonT(60), <1>1, <1>2, AttemptFields DEF DialType, DialPcs, Results
<1>7. dial'[d].pc = "done" /\ dial'[d].epoch = dial[d].epoch
  BY <1>1, <1>6, AttemptFields DEF DialType
<1>8. /\ peer'[d] = [peer[d] EXCEPT !.ready = TRUE]
      /\ \A e \in Dials : e # d => peer'[e] = peer[e]
      /\ peer' \in [Dials -> PeerType]
  BY <1>1, <1>2, AttemptFields DEF PeerType
<1>9. /\ peer'[d].up = peer[d].up /\ peer'[d].stop = peer[d].stop
      /\ peer'[d].seen = peer[d].seen /\ peer'[d].failed = peer[d].failed
      /\ peer'[d].cleanup = peer[d].cleanup /\ peer'[d].ready
  BY <1>1, <1>8, AttemptFields DEF PeerType
<1>10. McpTyped'
  BY <1>5, <1>6, <1>8 DEF McpTyped
<1>11. SessionInv' /\ FlightInv'
  BY <1>1, <1>4, <1>5, <1>7, <1>9 DEF SessionInv, FlightInv
<1>12. AttemptsInv'
  <2>1. SUFFICES ASSUME NEW e \in Dials
                 PROVE  AttemptInv(e)'
    BY DEF AttemptsInv
  <2>2. AttemptInv(e)
    BY DEF ConnectionInv, AttemptsInv
  <2>3. CASE e = d
    BY <1>5, <1>7, <1>9, <2>2, <2>3 DEF AttemptInv
  <2>4. CASE e # d
    BY <1>3, <1>4, <1>5, <1>6, <1>8, <2>2, <2>4 DEF AttemptInv
  <2>. QED
    BY <2>3, <2>4
<1>13. FailuresCountOnce'
  <2>1. hub'.fails <= hub.fails
    BY <1>1, <1>5, HubFields
  <2>2. \A e \in Dials : peer[e].failed => peer'[e].failed
    BY <1>8, <1>9
  <2>. QED
    BY <1>1, <1>10, <2>1, <2>2, CountStays DEF ConnectionInv
<1>14. ShutdownIsThorough'
  <2>1. SUFFICES ASSUME ~ hub'.closing, NEW e \in Dials, dial'[e].epoch < hub'.epoch,
                        peer'[e].up \/ peer'[e].seen
                 PROVE  peer'[e].cleanup = "done"
    BY DEF ShutdownIsThorough
  <2>2. e # d
    BY <1>1, <1>4, <1>5, <1>7, <2>1, HubFields
  <2>. QED
    BY <1>5, <1>6, <1>8, <2>1, <2>2 DEF ConnectionInv, ShutdownIsThorough
<1>15. AttemptsGoOn
  BY <1>2, <1>6, <1>7 DEF AttemptsGoOn
<1>. QED
  BY <1>10, <1>11, <1>12, <1>13, <1>14, <1>15 DEF ConnectionInv

-----------------------------------------------------------------------------
(* Shutdown.                                                                *)

LEMMA ShutdownConnectorConnection ==
  ASSUME ConnectionInv, ShutdownConnector
  PROVE  ConnectionInv' /\ AttemptsGoOn
<1>1. /\ McpTyped /\ dial \in [Dials -> DialType] /\ peer \in [Dials -> PeerType]
      /\ hub \in HubType /\ hub.epoch \in Nat
  BY HubFields DEF ConnectionInv, McpTyped
<1>2. /\ hub' = [Forget(hub) EXCEPT !.epoch = @ + 1, !.closing = TRUE, !.flight = NoPeer]
      /\ dial' = [d \in Dials |-> [dial[d] EXCEPT !.aborted = @ \/ d = hub.flight]]
      /\ peer' = [d \in Dials |-> IF d = hub.session THEN Stopped(peer[d]) ELSE peer[d]]
  BY DEF ShutdownConnector
<1>. DEFINE next == hub.epoch + 1
<1>3. /\ hub' \in HubType /\ hub'.session = NoPeer /\ ~ hub'.connected
      /\ hub'.fails = hub.fails /\ hub'.epoch = next /\ hub'.closing /\ hub'.flight = NoPeer
  <2>1. hub' = [hub EXCEPT !.session = NoPeer, !.connected = FALSE, !.epoch = next,
                           !.closing = TRUE, !.flight = NoPeer]
    BY <1>1, <1>2 DEF Forget, HubType
  <2>2. next \in Nat
    BY <1>1
  <2>. HIDE DEF next
  <2>. QED
    BY <1>1, <2>1, <2>2 DEF HubType
<1>4. /\ dial' \in [Dials -> DialType]
      /\ \A d \in Dials : dial'[d].pc = dial[d].pc /\ dial'[d].epoch = dial[d].epoch
  <2>1. ASSUME NEW d \in Dials
        PROVE  /\ dial'[d] \in DialType
               /\ dial'[d].pc = dial[d].pc /\ dial'[d].epoch = dial[d].epoch
    <3>1. PICK b \in BOOLEAN : b = (dial[d].aborted \/ d = hub.flight)
      OBVIOUS
    <3>2. dial'[d] = [dial[d] EXCEPT !.aborted = b]
      BY <1>2, <3>1
    <3>. QED
      BY <1>1, <3>2, AttemptFields DEF DialType
  <2>. QED
    BY <1>2, <2>1
<1>5. \A d \in Dials :
        /\ peer'[d] \in PeerType
        /\ d # hub.session => peer'[d] = peer[d]
        /\ d = hub.session => peer'[d].stop /\ peer'[d].cleanup # "none"
        /\ peer[d].failed => peer'[d].failed
  BY <1>1, <1>2, AttemptFields, StoppedPeer
<1>6. peer' \in [Dials -> PeerType]
  BY <1>2, <1>5
<1>7. McpTyped'
  BY <1>3, <1>4, <1>6 DEF McpTyped
<1>8. SessionInv' /\ FlightInv'
  BY <1>3 DEF SessionInv, FlightInv
<1>9. AttemptsInv'
  <2>1. SUFFICES ASSUME NEW e \in Dials
                 PROVE  AttemptInv(e)'
    BY DEF AttemptsInv
  <2>2. AttemptInv(e) /\ dial[e].epoch \in Nat /\ dial[e].epoch < hub'.epoch
    BY <1>1, <1>3, AttemptFields DEF ConnectionInv, AttemptsInv, AttemptInv
  <2>3. CASE e = hub.session
    <3>1. dial[e].pc \in {"connect", "list", "done"}
      BY <2>3, SessionFacts, McpConstants
    <3>. QED
      BY <1>1, <1>3, <1>4, <1>5, <2>2, <2>3, <3>1 DEF AttemptInv
  <2>4. CASE e # hub.session
    BY <1>1, <1>3, <1>4, <1>5, <2>2, <2>4 DEF AttemptInv
  <2>. QED
    BY <2>3, <2>4
<1>10. FailuresCountOnce'
  BY <1>1, <1>3, <1>5, <1>7, HubFields, CountStays DEF ConnectionInv
<1>11. ShutdownIsThorough'
  BY <1>3 DEF ShutdownIsThorough
<1>12. AttemptsGoOn
  BY <1>4 DEF AttemptsGoOn
<1>. QED
  BY <1>7, <1>8, <1>9, <1>10, <1>11, <1>12 DEF ConnectionInv

\* No cleanup is under way: what an earlier epoch opened has been cleaned up.
LEMMA ShutdownCompletesConnection ==
  ASSUME ConnectionInv, ShutdownCompletes
  PROVE  ConnectionInv' /\ AttemptsGoOn
<1>1. McpTyped /\ hub \in HubType
  BY DEF ConnectionInv, McpTyped
<1>2. /\ hub.closing /\ hub' = [hub EXCEPT !.closing = FALSE] /\ UNCHANGED <<dial, peer>>
      /\ \A d \in Dials : ~ Cleaning(d)
  BY DEF ShutdownCompletes
<1>3. /\ hub' \in HubType /\ hub'.session = hub.session /\ hub'.connected = hub.connected
      /\ hub'.fails = hub.fails /\ hub'.epoch = hub.epoch /\ hub'.flight = hub.flight
      /\ ~ hub'.closing
  BY <1>1, <1>2 DEF HubType
<1>4. McpTyped'
  BY <1>1, <1>2, <1>3 DEF McpTyped
<1>5. SessionInv' /\ FlightInv'
  BY <1>2, <1>3, Zenon DEF ConnectionInv, SessionInv, FlightInv
<1>6. AttemptsInv'
  BY <1>2, <1>3, Zenon DEF ConnectionInv, AttemptsInv, AttemptInv
<1>7. FailuresCountOnce'
  BY <1>2, <1>3 DEF ConnectionInv, FailuresCountOnce
<1>8. ShutdownIsThorough'
  <2>1. SUFFICES ASSUME NEW e \in Dials, dial[e].epoch < hub.epoch,
                        peer[e].up \/ peer[e].seen
                 PROVE  peer[e].cleanup = "done"
    BY <1>2, <1>3 DEF ShutdownIsThorough
  <2>2. /\ AttemptInv(e) /\ peer[e].cleanup \in Cleanups /\ peer[e].stop \in BOOLEAN
        /\ dial[e].epoch \in Nat /\ hub.epoch \in Nat
    BY <1>1, AttemptFields, HubFields DEF ConnectionInv, AttemptsInv
  <2>3. hub.session # e
    BY <2>1, <2>2, SessionFacts, McpConstants
  <2>4. peer[e].cleanup # "none"
    BY <2>1, <2>2, <2>3 DEF AttemptInv
  <2>. QED
    BY <1>2, <2>2, <2>4 DEF Cleaning, Cleanups
<1>9. AttemptsGoOn
  BY <1>2 DEF AttemptsGoOn
<1>. QED
  BY <1>4, <1>5, <1>6, <1>7, <1>8, <1>9 DEF ConnectionInv

-----------------------------------------------------------------------------
(* The calls and their mutex.                                               *)

PastMutex == {"wait", "ensured", "out", "cleanup"}

\* Demand c becomes q; the other demands stay.
Becomes(c, q) ==
  /\ demand'[c] = q
  /\ \A x \in Demands : x # c => demand'[x] = demand[x]
  /\ demand' \in [Demands -> DemandType]

LEMMA DemandFields ==
  ASSUME CallersTyped, NEW c \in Demands
  PROVE  /\ demand[c] \in DemandType /\ demand[c].pc \in DemandPcs
         /\ demand[c].epoch \in Nat /\ demand[c].late \in BOOLEAN
         /\ demand[c].on \in Dials \union {NoPeer} /\ demand[c].result \in Results
<1>1. demand[c] \in DemandType
  BY DEF CallersTyped
<1>. QED
  BY <1>1 DEF DemandType

LEMMA DemandBecomes ==
  ASSUME CallersTyped, NEW c \in Demands, NEW q \in DemandType,
         demand' = [demand EXCEPT ![c] = q]
  PROVE  Becomes(c, q)
BY DEF CallersTyped, Becomes

\* The calls that do not move see the attempts go on.
LEMMA OtherDemandsOk ==
  ASSUME ConnectionInv, CallersTyped, DemandsInv, AttemptsGoOn, NEW x \in Demands,
         demand'[x] = demand[x]
  PROVE  DemandOk(x)'
<1>1. DemandOk(x)
  BY DEF DemandsInv
<1>. QED
  BY <1>1 DEF DemandOk, AttemptsGoOn

LEMMA DemandsFollow ==
  ASSUME ConnectionInv, CallersTyped, DemandsInv, AttemptsGoOn, NEW c \in Demands,
         NEW q, Becomes(c, q), DemandOk(c)'
  PROVE  DemandsInv'
BY OtherDemandsOk DEF DemandsInv, Becomes

LEMMA CallsStay ==
  ASSUME McpInv, ConnectionInv', AttemptsGoOn, chances' \in [McpEvents -> Nat],
         UNCHANGED <<demand, waiters>>
  PROVE  McpInv'
<1>1. DemandsInv'
  BY OtherDemandsOk DEF McpInv, DemandsInv
<1>2. QueueInv' /\ CallersTyped'
  BY DEF McpInv, QueueInv, QueueOk, CallersTyped
<1>. QED
  BY <1>1, <1>2 DEF McpInv

\* A call at or past the mutex moves on, and stays past it.
LEMMA CallMoves ==
  ASSUME McpInv, ConnectionInv', AttemptsGoOn, chances' \in [McpEvents -> Nat],
         NEW c \in Demands, NEW q \in DemandType, Becomes(c, q), q.pc \in PastMutex,
         DemandOk(c)', UNCHANGED waiters,
         c \in McpCalls => Len(waiters) > 0 /\ waiters[1] = c
  PROVE  McpInv'
<1>1. DemandsInv'
  BY DemandsFollow DEF McpInv
<1>2. CallersTyped'
  BY DEF McpInv, CallersTyped, Becomes
<1>3. QueueInv'
  <2>1. SUFFICES ASSUME NEW x \in McpCalls
                 PROVE  QueueOk(x)'
    BY DEF QueueInv
  <2>2. QueueOk(x) /\ x \in Demands
    BY McpConstants DEF McpInv, QueueInv
  <2>3. CASE x = c
    BY <2>1, <2>3 DEF QueueOk, Becomes, PastMutex
  <2>4. CASE x # c
    BY <2>2, <2>4, Zenon DEF QueueOk, Becomes
  <2>. QED
    BY <2>3, <2>4
<1>. QED
  BY <1>1, <1>2, <1>3 DEF McpInv

LEMMA TailOfQueue ==
  ASSUME waiters \in Seq(McpCalls), Len(waiters) > 0
  PROVE  /\ Tail(waiters) \in Seq(McpCalls)
         /\ Len(Tail(waiters)) = Len(waiters) - 1
         /\ \A i \in 1 .. Len(waiters) - 1 : Tail(waiters)[i] = waiters[i + 1]
         /\ Head(waiters) = waiters[1]
         /\ Len(waiters) \in Nat
<1>1. waiters # << >>
  BY EmptySeq
<1>. QED
  BY <1>1, HeadTailProperties, LenProperties

\* A call returns: it leaves the mutex, and publishes an answer only of its
\* own epoch.
LEMMA CallReturns ==
  ASSUME McpInv, UNCHANGED <<hub, dial, peer>>, chances' \in [McpEvents -> Nat],
         NEW c \in Demands, NEW result \in Results, Return(c, result),
         c \in McpCalls => Len(waiters) > 0 /\ waiters[1] = c,
         c \in McpCalls /\ result = "ok" =>
           /\ demand[c].on \in Dials /\ dial[demand[c].on].pc # "none"
           /\ dial[demand[c].on].epoch = demand[c].epoch /\ ~ demand[c].late
  PROVE  McpInv'
<1>. DEFINE q == [demand[c] EXCEPT !.pc = "returned", !.result = result]
<1>1. ConnectionInv /\ CallersTyped /\ DemandsInv /\ DemandOk(c)
  BY DEF McpInv, DemandsInv
<1>2. ConnectionInv'
  BY <1>1, Zenon DEF ConnectionInv, McpTyped, SessionInv, FlightInv, AttemptsInv, AttemptInv,
       FailuresCountOnce, ShutdownIsThorough
<1>3. AttemptsGoOn
  BY DEF AttemptsGoOn
<1>4. /\ q \in DemandType /\ q.pc = "returned" /\ q.result = result
      /\ q.on = demand[c].on /\ q.epoch = demand[c].epoch /\ q.late = demand[c].late
  BY <1>1, DemandFields DEF DemandType, DemandPcs
<1>5. Becomes(c, q)
  <2>1. demand' = [demand EXCEPT ![c] = q]
    BY <1>1 DEF Return, CallersTyped, DemandType
  <2>. QED
    BY <1>1, <1>4, <2>1, DemandBecomes
<1>. HIDE DEF q
<1>6. DemandOk(c)'
  BY <1>4, <1>5 DEF DemandOk, Becomes
<1>7. DemandsInv'
  BY <1>1, <1>3, <1>5, <1>6, DemandsFollow
<1>8. CASE c \in McpCalls
  <2>1. /\ waiters' = Tail(waiters) /\ waiters' \in Seq(McpCalls)
        /\ Len(waiters') = Len(waiters) - 1 /\ Len(waiters) \in Nat
        /\ \A i \in 1 .. Len(waiters) - 1 : waiters'[i] = waiters[i + 1]
    BY <1>1, <1>8, TailOfQueue DEF Return, CallersTyped
  <2>2. CallersTyped'
    BY <1>5, <2>1 DEF CallersTyped, Becomes
  <2>3. QueueInv'
    <3>1. SUFFICES ASSUME NEW x \in McpCalls
                   PROVE  QueueOk(x)'
      BY DEF QueueInv
    <3>2. QueueOk(x) /\ x \in Demands
      BY McpConstants DEF McpInv, QueueInv
    <3>3. CASE x = c
      BY <1>4, <1>5, <3>3 DEF QueueOk, Becomes
    <3>4. CASE x # c
      <4>1. demand'[x] = demand[x] /\ waiters[1] = c
        BY <1>5, <1>8, <3>2, <3>4 DEF Becomes
      <4>2. demand'[x].pc \notin PastMutex
        BY <3>2, <3>4, <4>1 DEF QueueOk, PastMutex
      <4>3. ASSUME demand'[x].pc = "queued"
            PROVE  \E i \in 1 .. Len(waiters') : waiters'[i] = x
        <5>1. PICK i \in 1 .. Len(waiters) : waiters[i] = x
          BY <3>2, <4>1, <4>3 DEF QueueOk
        <5>2. i # 1 /\ i - 1 \in 1 .. Len(waiters) - 1
          BY <2>1, <3>4, <4>1, <5>1
        <5>3. waiters'[i - 1] = x
          BY <2>1, <5>1, <5>2
        <5>. QED
          BY <2>1, <5>2, <5>3
      <4>. QED
        BY <4>2, <4>3 DEF QueueOk, PastMutex
    <3>. QED
      BY <3>3, <3>4
  <2>. QED
    BY <1>2, <1>7, <2>2, <2>3 DEF McpInv
<1>9. CASE c \notin McpCalls
  <2>1. waiters' = waiters
    BY <1>9 DEF Return
  <2>2. CallersTyped'
    BY <1>1, <1>5, <2>1 DEF CallersTyped, Becomes
  <2>3. QueueInv'
    <3>1. ASSUME NEW x \in McpCalls
          PROVE  QueueOk(x)'
      <4>1. QueueOk(x) /\ x \in Demands /\ x # c
        BY <1>9, McpConstants DEF McpInv, QueueInv
      <4>2. demand'[x] = demand[x]
        BY <1>5, <4>1 DEF Becomes
      <4>. QED
        BY <2>1, <4>1, <4>2, Zenon DEF QueueOk
    <3>. QED
      BY <3>1 DEF QueueInv
  <2>. QED
    BY <1>2, <1>7, <2>2, <2>3 DEF McpInv
<1>. QED
  BY <1>8, <1>9

LEMMA ChanceTaken ==
  ASSUME CallersTyped, NEW what \in McpEvents, Chance(what)
  PROVE  chances' \in [McpEvents -> Nat]
<1>1. chances \in [McpEvents -> Nat] /\ chances[what] \in Nat /\ chances[what] > 0
  BY DEF CallersTyped, Chance
<1>. DEFINE n == chances[what] - 1
<1>2. n \in Nat
  BY <1>1
<1>3. chances' = [chances EXCEPT ![what] = n]
  BY DEF Chance
<1>. HIDE DEF n
<1>. QED
  BY <1>1, <1>2, <1>3

\* The call that heads the queue, or a warm-up, asks for the connection.
LEMMA EnsureKeeps ==
  ASSUME McpInv, chances' \in [McpEvents -> Nat], NEW c \in Demands,
         ~ hub.closing, UNCHANGED waiters, Ensure(c, hub.epoch),
         demand[c].pc # "returned",
         c \in McpCalls => /\ Len(waiters) > 0 /\ waiters[1] = c
                           /\ ~ demand[c].late
  PROVE  McpInv'
<1>1. ConnectionInv /\ CallersTyped /\ DemandsInv /\ DemandOk(c) /\ McpTyped
  BY DEF McpInv, DemandsInv, ConnectionInv
<1>2. hub.epoch \in Nat /\ hub.session \in Dials \union {NoPeer}
  BY <1>1, HubFields
<1>3. ASSUME NEW pc \in {"ensured", "wait"}, NEW on \in Dials \union {NoPeer},
             demand' = [demand EXCEPT ![c].pc = pc, ![c].on = on, ![c].epoch = hub.epoch],
             pc = "wait" => on \in Dials /\ dial'[on].pc # "none",
             ConnectionInv', AttemptsGoOn
      PROVE  McpInv'
  <2>. DEFINE q == [demand[c] EXCEPT !.pc = pc, !.on = on, !.epoch = hub.epoch]
  <2>1. /\ q \in DemandType /\ q.pc = pc /\ q.on = on /\ q.late = demand[c].late
        /\ q.result = demand[c].result
    BY <1>1, <1>2, DemandFields DEF DemandType, DemandPcs
  <2>2. demand' = [demand EXCEPT ![c] = q]
    BY <1>1, <1>3 DEF CallersTyped, DemandType
  <2>. HIDE DEF q
  <2>3. Becomes(c, q)
    BY <1>1, <2>1, <2>2, DemandBecomes
  <2>4. c \in McpCalls => demand[c].result # "ok"
    BY <1>1 DEF DemandOk
  <2>5. DemandOk(c)'
    BY <1>3, <2>1, <2>3, <2>4 DEF DemandOk, Becomes
  <2>. QED
    BY <1>3, <2>1, <2>3, <2>5, CallMoves DEF PastMutex
<1>4. CASE hub.connected
  <2>1. /\ demand' = [demand EXCEPT ![c].pc = "ensured", ![c].on = hub.session,
                                    ![c].epoch = hub.epoch]
        /\ UNCHANGED <<hub, dial, peer>>
    BY <1>4 DEF Ensure
  <2>2. AttemptsGoOn
    BY <2>1 DEF AttemptsGoOn
  <2>3. ConnectionInv'
    BY <1>1, <2>1, Zenon
    DEF ConnectionInv, McpTyped, SessionInv, FlightInv, AttemptsInv, AttemptInv,
        FailuresCountOnce, ShutdownIsThorough
  <2>. QED
    BY <1>2, <1>3, <2>1, <2>2, <2>3
<1>5. CASE ~ hub.connected /\ hub.flight # NoPeer
  <2>1. /\ demand' = [demand EXCEPT ![c].pc = "wait", ![c].on = hub.flight,
                                    ![c].epoch = hub.epoch]
        /\ UNCHANGED <<hub, dial, peer>>
    BY <1>5 DEF Ensure
  <2>2. AttemptsGoOn
    BY <2>1 DEF AttemptsGoOn
  <2>3. ConnectionInv'
    BY <1>1, <2>1, Zenon
    DEF ConnectionInv, McpTyped, SessionInv, FlightInv, AttemptsInv, AttemptInv,
        FailuresCountOnce, ShutdownIsThorough
  <2>4. hub.flight \in Dials /\ dial'[hub.flight].pc # "none"
    BY <1>1, <1>5, <2>1, HubFields DEF ConnectionInv, FlightInv
  <2>. QED
    BY <1>3, <2>1, <2>2, <2>3, <2>4
<1>6. CASE ~ hub.connected /\ hub.flight = NoPeer
  <2>1. PICK d \in Dials :
          /\ dial[d].pc = "none"
          /\ demand' = [demand EXCEPT ![c].pc = "wait", ![c].on = d,
                                      ![c].epoch = hub.epoch]
          /\ IF hub.fails = 0
             THEN Construct([hub EXCEPT !.flight = d], d, hub.epoch)
             ELSE /\ hub' = [hub EXCEPT !.flight = d]
                  /\ dial' = [dial EXCEPT ![d].pc = "backoff", ![d].epoch = hub.epoch]
                  /\ UNCHANGED peer
    BY <1>6 DEF Ensure
  <2>2. hub.session = NoPeer /\ d # NoPeer /\ peer[d] = NewPeer
    BY <1>1, <1>6, <2>1, McpConstants, HubFields
    DEF ConnectionInv, SessionInv, AttemptsInv, AttemptInv
  <2>3. CASE hub.fails = 0
    <3>1. Construct([hub EXCEPT !.flight = d], d, hub.epoch)
      BY <2>1, <2>3
    <3>2. ConnectionInv' /\ AttemptsGoOn
      BY <1>1, <1>6, <2>1, <2>2, <3>1, ConstructConnection
    <3>3. dial'[d].pc # "none"
      <4>1. /\ dial[d] \in DialType /\ dial \in [Dials -> DialType]
        BY <1>1, AttemptFields DEF McpTyped
      <4>2. CASE dial' = [dial EXCEPT ![d].pc = "connect", ![d].epoch = hub.epoch]
        <5>1. dial'[d] = [dial[d] EXCEPT !.pc = "connect", !.epoch = hub.epoch]
          BY <4>1, <4>2
        <5>. QED
          BY <4>1, <5>1 DEF DialType
      <4>3. CASE dial' = [dial EXCEPT ![d].pc = "done", ![d].epoch = hub.epoch,
                                      ![d].result = "unavailable"]
        <5>1. dial'[d] = [dial[d] EXCEPT !.pc = "done", !.epoch = hub.epoch,
                                         !.result = "unavailable"]
          BY <4>1, <4>3
        <5>. QED
          BY <4>1, <5>1 DEF DialType
      <4>. QED
        BY <3>1, <4>2, <4>3 DEF Construct
    <3>. QED
      BY <1>3, <2>1, <3>2, <3>3
  <2>4. CASE hub.fails # 0
    <3>1. /\ hub' = [hub EXCEPT !.flight = d] /\ UNCHANGED peer
          /\ dial' = [dial EXCEPT ![d].pc = "backoff", ![d].epoch = hub.epoch]
      BY <2>1, <2>4
    <3>2. /\ dial'[d] = [dial[d] EXCEPT !.pc = "backoff", !.epoch = hub.epoch]
          /\ \A e \in Dials : e # d => dial'[e] = dial[e]
          /\ dial' \in [Dials -> DialType]
      BY <1>1, <1>2, <3>1, AttemptFields DEF McpTyped, DialType, DialPcs
    <3>3. dial'[d].pc = "backoff" /\ dial'[d].epoch = hub.epoch
      BY <1>1, <3>2, AttemptFields DEF DialType
    <3>4. Starts(d, "backoff")
      BY <2>1, <3>2, <3>3 DEF Starts
    <3>5. HubTakesOff(d, "backoff")
      BY <1>1, <3>1 DEF HubTakesOff, HubType, McpTyped
    <3>6. PeerAppears(d, "backoff")
      BY <1>1, <3>1 DEF PeerAppears, McpTyped
    <3>7. ConnectionInv' /\ AttemptsGoOn
      BY <1>1, <1>6, <2>2, <3>4, <3>5, <3>6, StartedKeeps
    <3>. QED
      BY <1>3, <2>1, <3>3, <3>7
  <2>. QED
    BY <2>3, <2>4
<1>. QED
  BY <1>4, <1>5, <1>6

-----------------------------------------------------------------------------
(* The steps of a call.                                                     *)

LEMMA CallToolKeeps ==
  ASSUME McpInv, NEW c \in Demands, CallTool(c)
  PROVE  McpInv'
<1>. DEFINE q == [demand[c] EXCEPT !.pc = "queued", !.epoch = hub.epoch, !.late = hub.closing]
<1>1. ConnectionInv /\ CallersTyped /\ DemandsInv /\ DemandOk(c) /\ McpTyped
  BY DEF McpInv, DemandsInv, ConnectionInv
<1>2. /\ c \in McpCalls /\ demand[c].pc = "new" /\ Chance("demands")
      /\ demand' = [demand EXCEPT ![c].pc = "queued", ![c].epoch = hub.epoch,
                                  ![c].late = hub.closing]
      /\ waiters' = Append(waiters, c) /\ UNCHANGED <<hub, dial, peer>>
  BY DEF CallTool
<1>3. /\ q \in DemandType /\ q.pc = "queued" /\ q.result = demand[c].result
  BY <1>1, DemandFields, HubFields DEF DemandType, DemandPcs
<1>4. Becomes(c, q)
  <2>1. demand' = [demand EXCEPT ![c] = q]
    BY <1>1, <1>2 DEF CallersTyped, DemandType
  <2>. QED
    BY <1>1, <1>3, <2>1, DemandBecomes
<1>. HIDE DEF q
<1>5. AttemptsGoOn
  BY <1>2 DEF AttemptsGoOn
<1>6. ConnectionInv'
  BY <1>1, <1>2, Zenon
  DEF ConnectionInv, McpTyped, SessionInv, FlightInv, AttemptsInv, AttemptInv,
      FailuresCountOnce, ShutdownIsThorough
<1>7. DemandOk(c)'
  BY <1>1, <1>2, <1>3, <1>4 DEF DemandOk, Becomes
<1>8. DemandsInv'
  BY <1>1, <1>4, <1>5, <1>7, DemandsFollow
<1>9. /\ waiters' \in Seq(McpCalls) /\ Len(waiters') = Len(waiters) + 1
      /\ Len(waiters) \in Nat /\ waiters'[Len(waiters) + 1] = c
      /\ \A i \in 1 .. Len(waiters) : waiters'[i] = waiters[i]
  BY <1>1, <1>2, AppendProperties, LenProperties DEF CallersTyped
<1>10. CallersTyped'
  BY <1>1, <1>2, <1>4, <1>9, ChanceTaken DEF CallersTyped, Becomes, McpEvents
<1>11. QueueInv'
  <2>1. SUFFICES ASSUME NEW x \in McpCalls
                 PROVE  QueueOk(x)'
    BY DEF QueueInv
  <2>2. QueueOk(x) /\ x \in Demands
    BY McpConstants DEF McpInv, QueueInv
  <2>3. CASE x = c
    <3>1. Len(waiters) + 1 \in 1 .. Len(waiters')
      BY <1>9
    <3>. QED
      BY <1>3, <1>4, <1>9, <2>3, <3>1 DEF QueueOk, Becomes
  <2>4. CASE x # c
    <3>1. demand'[x] = demand[x]
      BY <1>4, <2>2, <2>4 DEF Becomes
    <3>2. ASSUME demand[x].pc = "queued"
          PROVE  \E i \in 1 .. Len(waiters') : waiters'[i] = x
      <4>1. PICK i \in 1 .. Len(waiters) : waiters[i] = x
        BY <2>2, <3>2 DEF QueueOk
      <4>. QED
        BY <1>9, <4>1
    <3>3. ASSUME demand[x].pc \in PastMutex
          PROVE  Len(waiters') > 0 /\ waiters'[1] = x
      BY <1>9, <2>2, <3>3 DEF QueueOk, PastMutex
    <3>. QED
      BY <3>1, <3>2, <3>3 DEF QueueOk, PastMutex
  <2>. QED
    BY <2>3, <2>4
<1>. QED
  BY <1>6, <1>8, <1>10, <1>11 DEF McpInv

LEMMA EnsureConnectedKeeps ==
  ASSUME McpInv, NEW c \in Demands, EnsureConnected(c)
  PROVE  McpInv'
<1>1. /\ c \in Warmups /\ c \notin McpCalls /\ demand[c].pc = "new" /\ Chance("demands")
  BY McpConstants DEF EnsureConnected
<1>2. chances' \in [McpEvents -> Nat]
  BY <1>1, ChanceTaken DEF McpInv, McpEvents
<1>3. CASE hub.closing
  <2>1. Return(c, "unavailable") /\ UNCHANGED <<hub, dial, peer>>
    BY <1>3 DEF EnsureConnected
  <2>. QED
    BY <1>1, <1>2, <2>1, CallReturns DEF Results
<1>4. CASE ~ hub.closing
  <2>1. Ensure(c, hub.epoch) /\ UNCHANGED waiters
    BY <1>4 DEF EnsureConnected
  <2>. QED
    BY <1>1, <1>2, <1>4, <2>1, EnsureKeeps
<1>. QED
  BY <1>3, <1>4

\* A call in the queue is a call of callTool, and its head is at the mutex.
LEMMA EnterMutexKeeps ==
  ASSUME McpInv, NEW c \in Demands, EnterMutex(c)
  PROVE  McpInv'
<1>1. /\ demand[c].pc = "queued" /\ c \in McpCalls /\ Head(waiters) = c
      /\ UNCHANGED chances
  BY DEF EnterMutex, Enter, McpInv, DemandsInv, DemandOk
<1>2. Len(waiters) \in Nat /\ Len(waiters) > 0
  <2>1. PICK i \in 1 .. Len(waiters) : waiters[i] = c
    BY <1>1 DEF McpInv, QueueInv, QueueOk
  <2>2. Len(waiters) \in Nat
    BY LenProperties DEF McpInv, CallersTyped
  <2>. QED
    BY <2>1, <2>2
<1>3. waiters[1] = c
  BY <1>1, <1>2, TailOfQueue DEF McpInv, CallersTyped
<1>4. chances' \in [McpEvents -> Nat]
  BY <1>1 DEF McpInv, CallersTyped
<1>5. CASE demand[c].late \/ IsStopped(demand[c].epoch)
  <2>1. Return(c, "unavailable") /\ UNCHANGED <<hub, dial, peer>>
    BY <1>5 DEF EnterMutex, Enter
  <2>. QED
    BY <1>2, <1>3, <1>4, <2>1, CallReturns DEF Results
<1>6. CASE ~ (demand[c].late \/ IsStopped(demand[c].epoch))
  <2>1. Ensure(c, demand[c].epoch) /\ UNCHANGED waiters
    BY <1>6 DEF EnterMutex, Enter
  <2>2. ~ hub.closing /\ demand[c].epoch = hub.epoch /\ ~ demand[c].late
    BY <1>6 DEF IsStopped
  <2>3. Ensure(c, hub.epoch)
    BY <2>1, <2>2
  <2>. QED
    BY <1>1, <1>2, <1>3, <1>4, <2>1, <2>2, <2>3, EnsureKeeps
<1>. QED
  BY <1>5, <1>6

\* A demand past the mutex heads the queue.
LEMMA HeadsTheQueue ==
  ASSUME McpInv, NEW c \in Demands, demand[c].pc \in PastMutex
  PROVE  c \in McpCalls => Len(waiters) > 0 /\ waiters[1] = c
BY DEF McpInv, QueueInv, QueueOk, PastMutex

LEMMA SameConnection ==
  ASSUME ConnectionInv, UNCHANGED <<hub, dial, peer>>
  PROVE  ConnectionInv' /\ AttemptsGoOn
<1>1. AttemptsGoOn
  BY DEF AttemptsGoOn
<1>2. ConnectionInv'
  BY Zenon
  DEF ConnectionInv, McpTyped, SessionInv, FlightInv, AttemptsInv, AttemptInv,
      FailuresCountOnce, ShutdownIsThorough
<1>. QED
  BY <1>1, <1>2

\* A demand changes only where it is, on the same connections.
LEMMA CallAdvances ==
  ASSUME McpInv, ConnectionInv', AttemptsGoOn, chances' \in [McpEvents -> Nat],
         NEW c \in Demands, demand[c].pc \in PastMutex,
         NEW pc \in {"ensured", "cleanup"}, demand' = [demand EXCEPT ![c].pc = pc],
         pc = "cleanup" => demand[c].pc = "out",
         UNCHANGED waiters
  PROVE  McpInv'
<1>. DEFINE q == [demand[c] EXCEPT !.pc = pc]
<1>1. ConnectionInv /\ CallersTyped /\ DemandsInv /\ DemandOk(c)
  BY DEF McpInv, DemandsInv
<1>2. /\ q \in DemandType /\ q.pc = pc /\ q.result = demand[c].result /\ q.on = demand[c].on
      /\ q.late = demand[c].late /\ q.epoch = demand[c].epoch
  BY <1>1, DemandFields DEF DemandType, DemandPcs
<1>3. Becomes(c, q)
  <2>1. demand' = [demand EXCEPT ![c] = q]
    BY <1>1 DEF CallersTyped
  <2>. QED
    BY <1>1, <1>2, <2>1, DemandBecomes
<1>. HIDE DEF q
<1>4. DemandOk(c)'
  BY <1>1, <1>2, <1>3 DEF DemandOk, Becomes, AttemptsGoOn, PastMutex
<1>. QED
  BY <1>2, <1>3, <1>4, CallMoves, HeadsTheQueue DEF PastMutex

LEMMA EnsuredKeeps ==
  ASSUME McpInv, NEW c \in Demands, Ensured(c)
  PROVE  McpInv'
<1>1. /\ demand[c].pc = "wait" /\ demand[c].pc \in PastMutex
      /\ UNCHANGED <<hub, dial, peer, chances>>
  BY DEF Ensured, PastMutex
<1>2. /\ demand[c].on \in Dials /\ dial[demand[c].on].result \in Results
      /\ chances' \in [McpEvents -> Nat]
  BY <1>1, AttemptFields DEF McpInv, ConnectionInv, CallersTyped, DemandsInv, DemandOk
<1>3. CASE dial[demand[c].on].result = "ok" /\ c \in McpCalls
  <2>1. demand' = [demand EXCEPT ![c].pc = "ensured"] /\ UNCHANGED waiters
    BY <1>3 DEF Ensured
  <2>2. ConnectionInv' /\ AttemptsGoOn
    BY <1>1, SameConnection DEF McpInv
  <2>. QED
    BY <1>1, <1>2, <2>1, <2>2, CallAdvances
<1>4. CASE ~ (dial[demand[c].on].result = "ok" /\ c \in McpCalls)
  <2>1. Return(c, dial[demand[c].on].result)
    BY <1>4 DEF Ensured
  <2>. QED
    BY <1>1, <1>2, <1>4, <2>1, CallReturns, HeadsTheQueue
<1>. QED
  BY <1>3, <1>4

LEMMA WarmupReturnsKeeps ==
  ASSUME McpInv, NEW c \in Demands, WarmupReturns(c)
  PROVE  McpInv'
<1>1. /\ c \notin McpCalls /\ Return(c, "ok") /\ UNCHANGED <<hub, dial, peer, chances>>
  BY McpConstants DEF WarmupReturns
<1>2. chances' \in [McpEvents -> Nat]
  BY <1>1 DEF McpInv, CallersTyped
<1>. QED
  BY <1>1, <1>2, CallReturns DEF Results

LEMMA DispatchKeeps ==
  ASSUME McpInv, NEW c \in Demands, Dispatch(c)
  PROVE  McpInv'
<1>1. /\ c \in McpCalls /\ demand[c].pc = "ensured" /\ demand[c].pc \in PastMutex
      /\ UNCHANGED <<hub, dial, peer, chances>>
  BY DEF Dispatch, PastMutex
<1>2. chances' \in [McpEvents -> Nat]
  BY <1>1 DEF McpInv, CallersTyped
<1>3. CASE \/ Return(c, "unavailable")
           \/ Return(c, "mismatch")
  BY <1>1, <1>2, <1>3, CallReturns, HeadsTheQueue DEF Results
<1>4. CASE /\ hub.connected /\ UNCHANGED waiters
           /\ demand' = [demand EXCEPT ![c].pc = "out", ![c].on = hub.session]
  <2>. DEFINE q == [demand[c] EXCEPT !.pc = "out", !.on = hub.session]
  <2>1. ConnectionInv /\ CallersTyped /\ DemandsInv /\ DemandOk(c) /\ McpTyped
    BY DEF McpInv, DemandsInv, ConnectionInv
  <2>2. hub.session \in Dials /\ dial[hub.session].pc = "done"
    BY <1>4, <2>1, SessionFacts DEF ConnectionInv, SessionInv
  <2>3. /\ q \in DemandType /\ q.pc = "out" /\ q.result = demand[c].result
        /\ q.on = hub.session /\ q.late = demand[c].late
    BY <2>1, <2>2, DemandFields DEF DemandType, DemandPcs
  <2>4. Becomes(c, q)
    <3>1. demand' = [demand EXCEPT ![c] = q]
      BY <1>4, <2>1 DEF CallersTyped, DemandType
    <3>. QED
      BY <2>1, <2>3, <3>1, DemandBecomes
  <2>. HIDE DEF q
  <2>5. DemandOk(c)'
    BY <1>1, <2>1, <2>2, <2>3, <2>4 DEF DemandOk, Becomes
  <2>6. ConnectionInv' /\ AttemptsGoOn
    BY <1>1, <2>1, SameConnection
  <2>. QED
    BY <1>1, <1>2, <1>4, <2>3, <2>4, <2>5, <2>6, CallMoves, HeadsTheQueue DEF PastMutex
<1>. QED
  BY <1>3, <1>4 DEF Dispatch

\* An answer is published only from the session, which is of the call's epoch.
LEMMA AnswerKeeps ==
  ASSUME McpInv, NEW c \in Demands, Answer(c)
  PROVE  McpInv'
<1>. DEFINE fenced == \/ peer[demand[c].on].stop
                      \/ IsStopped(demand[c].epoch)
                      \/ IsSuperseded(demand[c].on)
            verdict == IF fenced THEN "unavailable" ELSE "ok"
<1>1. /\ demand[c].pc = "out" /\ demand[c].pc \in PastMutex
      /\ UNCHANGED <<hub, dial, peer, chances>> /\ Return(c, verdict)
  BY DEF Answer, PastMutex
<1>2. /\ chances' \in [McpEvents -> Nat] /\ verdict \in Results
  BY <1>1 DEF McpInv, CallersTyped, Results
<1>3. ASSUME c \in McpCalls, verdict = "ok"
      PROVE  /\ demand[c].on \in Dials /\ dial[demand[c].on].pc # "none"
             /\ dial[demand[c].on].epoch = demand[c].epoch /\ ~ demand[c].late
  <2>1. demand[c].on \in Dials /\ dial[demand[c].on].pc = "done" /\ ~ demand[c].late
    BY <1>1, <1>3 DEF McpInv, DemandsInv, DemandOk
  <2>2. hub.session = demand[c].on /\ demand[c].epoch = hub.epoch
    BY <1>3 DEF IsStopped, IsSuperseded
  <2>3. dial[hub.session].epoch = hub.epoch
    BY <2>1, <2>2, SessionFacts, McpConstants DEF McpInv
  <2>. QED
    BY <2>1, <2>2, <2>3
<1>. HIDE DEF verdict
<1>. QED
  BY <1>1, <1>2, <1>3, CallReturns, HeadsTheQueue

LEMMA RequestFailsKeeps ==
  ASSUME McpInv, NEW c \in Demands, RequestFails(c)
  PROVE  McpInv'
<1>1. /\ demand[c].pc = "out" /\ demand[c].pc \in PastMutex
      /\ CleanUp(demand[c].on, TRUE, FALSE) /\ UNCHANGED <<waiters, dial>>
      /\ demand' = [demand EXCEPT ![c].pc = "cleanup"]
  BY DEF RequestFails, RequestLost, PastMutex
<1>2. chances' \in [McpEvents -> Nat]
  <2>1. CASE UNCHANGED chances
    BY <2>1 DEF McpInv, CallersTyped
  <2>2. CASE Chance("errors")
    BY <2>2, ChanceTaken DEF McpInv, McpEvents
  <2>. QED
    BY <2>1, <2>2 DEF RequestFails
<1>3. demand[c].on \in Dials /\ dial[demand[c].on].pc = "done"
  BY <1>1 DEF McpInv, DemandsInv, DemandOk
<1>4. ConnectionInv' /\ AttemptsGoOn
  BY <1>1, <1>3, RequestLostConnection DEF McpInv
<1>. QED
  BY <1>1, <1>2, <1>4, CallAdvances

LEMMA CallCleanedKeeps ==
  ASSUME McpInv, NEW c \in Demands, CallCleaned(c)
  PROVE  McpInv'
<1>1. /\ demand[c].pc \in PastMutex
      /\ UNCHANGED <<hub, dial, peer, chances>> /\ Return(c, "unavailable")
  BY DEF CallCleaned, PastMutex
<1>2. chances' \in [McpEvents -> Nat]
  BY <1>1 DEF McpInv, CallersTyped
<1>. QED
  BY <1>1, <1>2, CallReturns, HeadsTheQueue DEF Results

-----------------------------------------------------------------------------
(* Every step keeps the invariant.                                          *)

LEMMA McpInitially ==
  ASSUME McpInit
  PROVE  McpInv
<1>1. /\ hub = [session |-> NoPeer, connected |-> FALSE, fails |-> 0, epoch |-> 0,
                closing |-> FALSE, flight |-> NoPeer]
      /\ waiters = << >> /\ demand = [c \in Demands |-> NewDemand]
      /\ dial = [d \in Dials |-> NewDial] /\ peer = [d \in Dials |-> NewPeer]
      /\ chances \in [McpEvents -> Nat]
  BY McpConstants DEF McpInit
<1>2. McpTyped
  BY <1>1 DEF McpTyped, HubType, DialType, DialPcs, PeerType, Cleanups, NewDial, NewPeer,
              Results
<1>3. CallersTyped
  BY <1>1 DEF CallersTyped, DemandType, DemandPcs, NewDemand, Results
<1>4. SessionInv /\ FlightInv
  BY <1>1 DEF SessionInv, FlightInv
<1>5. AttemptsInv
  <2>1. SUFFICES ASSUME NEW d \in Dials
                 PROVE  AttemptInv(d)
    BY DEF AttemptsInv
  <2>2. dial[d] = NewDial /\ peer[d] = NewPeer
    BY <1>1
  <2>3. hub.epoch = 0 /\ NewDial.pc = "none" /\ NewDial.epoch = 0
    BY <1>1 DEF NewDial
  <2>. QED
    BY <2>2, <2>3, NewPeerFields DEF AttemptInv
<1>6. FailuresCountOnce
  <2>1. {d \in Dials : peer[d].failed} = {}
    BY <1>1, NewPeerFields
  <2>2. hub.fails = 0
    BY <1>1
  <2>3. Cardinality({d \in Dials : peer[d].failed}) = 0
    BY <2>1, FS_EmptySet, Zenon
  <2>. QED
    BY <2>2, <2>3 DEF FailuresCountOnce
<1>7. ShutdownIsThorough
  BY <1>1, NewPeerFields DEF ShutdownIsThorough
<1>8. DemandsInv /\ QueueInv
  <2>1. \A c \in Demands : demand[c].pc = "new" /\ demand[c].result = "none"
    BY <1>1 DEF NewDemand
  <2>. QED
    BY <2>1, McpConstants DEF DemandsInv, DemandOk, QueueInv, QueueOk
<1>. QED
  BY <1>2, <1>3, <1>4, <1>5, <1>6, <1>7, <1>8 DEF McpInv, ConnectionInv

LEMMA DialStepKeeps ==
  ASSUME McpInv, NEW d \in Dials,
         DialStep(d) \/ PeerCloses(d) \/ Overflow(d) \/ CleanupMoves(d)
  PROVE  McpInv'
<1>1. ConnectionInv /\ CallersTyped
  BY DEF McpInv
<1>2. UNCHANGED <<demand, waiters>>
  BY DEF DialStep, BackoffEnds, DialFails, Interrupted, Mismatched, WireMatches,
         PublishConnection, Publish, DialCleaned, PeerCloses, Overflow, CleanupMoves
<1>3. chances' \in [McpEvents -> Nat]
  <2>1. \/ UNCHANGED chances
        \/ Chance("errors") \/ Chance("mismatches") \/ Chance("losses")
    BY DEF DialStep, BackoffEnds, DialFails, Interrupted, Mismatched, WireMatches,
           PublishConnection, Publish, DialCleaned, PeerCloses, Overflow, CleanupMoves
  <2>2. CASE UNCHANGED chances
    BY <1>1, <2>2 DEF CallersTyped
  <2>3. CASE Chance("errors") \/ Chance("mismatches") \/ Chance("losses")
    BY <1>1, <2>3, ChanceTaken DEF McpEvents
  <2>. QED
    BY <2>1, <2>2, <2>3
<1>4. ConnectionInv' /\ AttemptsGoOn
  <2>1. CASE BackoffEnds(d)
    BY <1>1, <2>1, BackoffEndsConnection
  <2>2. CASE DialFails(d)
    BY <1>1, <2>2, DialFailsConnection
  <2>3. CASE Interrupted(d)
    BY <1>1, <2>3, InterruptedConnection
  <2>4. CASE Mismatched(d)
    BY <1>1, <2>4, MismatchedConnection
  <2>5. CASE WireMatches(d)
    BY <1>1, <2>5, WireMatchesConnection
  <2>6. CASE PublishConnection(d)
    BY <1>1, <2>6, PublishConnectionConnection
  <2>7. CASE DialCleaned(d)
    BY <1>1, <2>7, DialCleanedConnection
  <2>8. CASE PeerCloses(d)
    BY <1>1, <2>8, PeerClosesConnection
  <2>9. CASE Overflow(d)
    BY <1>1, <2>9, OverflowConnection
  <2>10. CASE CleanupMoves(d)
    BY <1>1, <2>10, CleanupMovesConnection
  <2>. QED
    BY <2>1, <2>2, <2>3, <2>4, <2>5, <2>6, <2>7, <2>8, <2>9, <2>10 DEF DialStep
<1>. QED
  BY <1>2, <1>3, <1>4, CallsStay

LEMMA McpStepKeeps ==
  ASSUME McpInv, [McpNext]_mcpVars
  PROVE  McpInv'
<1>1. ASSUME NEW c \in Demands, CallStep(c)
      PROVE  McpInv'
  BY <1>1, CallToolKeeps, EnsureConnectedKeeps, EnterMutexKeeps, EnsuredKeeps,
     WarmupReturnsKeeps, DispatchKeeps, AnswerKeeps, RequestFailsKeeps, CallCleanedKeeps
  DEF CallStep
<1>2. ASSUME NEW d \in Dials,
             DialStep(d) \/ PeerCloses(d) \/ Overflow(d) \/ CleanupMoves(d)
      PROVE  McpInv'
  BY <1>2, DialStepKeeps
<1>3. CASE ShutdownConnector
  <2>1. chances' \in [McpEvents -> Nat] /\ UNCHANGED <<demand, waiters>>
    BY <1>3, ChanceTaken DEF ShutdownConnector, McpInv, McpEvents
  <2>2. ConnectionInv' /\ AttemptsGoOn
    BY <1>3, ShutdownConnectorConnection DEF McpInv
  <2>. QED
    BY <2>1, <2>2, CallsStay
<1>4. CASE ShutdownCompletes
  <2>1. chances' \in [McpEvents -> Nat] /\ UNCHANGED <<demand, waiters>>
    BY <1>4 DEF ShutdownCompletes, McpInv, CallersTyped
  <2>2. ConnectionInv' /\ AttemptsGoOn
    BY <1>4, ShutdownCompletesConnection DEF McpInv
  <2>. QED
    BY <2>1, <2>2, CallsStay
<1>5. CASE UNCHANGED mcpVars
  <2>1. UNCHANGED <<hub, dial, peer>> /\ UNCHANGED <<demand, waiters>> /\ UNCHANGED chances
    BY <1>5 DEF mcpVars
  <2>2. chances' \in [McpEvents -> Nat]
    BY <2>1 DEF McpInv, CallersTyped
  <2>. QED
    BY <2>1, <2>2, SameConnection, CallsStay DEF McpInv
<1>. QED
  BY <1>1, <1>2, <1>3, <1>4, <1>5 DEF McpNext

LEMMA McpInvImplies ==
  ASSUME McpInv
  PROVE  McpTypeOK /\ McpSafe
<1>1. McpTypeOK
  BY McpTypeSplit DEF McpInv, ConnectionInv
<1>2. ConnectionAgrees
  <2>1. hub.connected => hub.session # NoPeer /\ peer[hub.session].ready
    BY DEF McpInv, ConnectionInv, SessionInv
  <2>2. ASSUME NEW d \in Dials, peer[d].up, ~ peer[d].stop
        PROVE  hub.session = d /\ dial[d].epoch = hub.epoch
    <3>1. hub.session = d
      BY <2>2 DEF McpInv, ConnectionInv, AttemptsInv, AttemptInv
    <3>. QED
      BY <3>1, McpConstants DEF McpInv, ConnectionInv, SessionInv
  <2>. QED
    BY <2>1, <2>2 DEF ConnectionAgrees
<1>3. AnsweredInEpoch
  BY McpConstants DEF McpInv, DemandsInv, DemandOk, AnsweredInEpoch
<1>. QED
  BY <1>1, <1>2, <1>3 DEF McpSafe, McpInv, ConnectionInv

\* The connector's invariant holds throughout.
THEOREM McpInvariance == McpSpec => []McpInv
<1>1. McpInit => McpInv
  BY McpInitially
<1>2. McpInv /\ [McpNext]_mcpVars => McpInv'
  BY McpStepKeeps
<1>. QED
  BY <1>1, <1>2, PTL DEF McpSpec

\* The connector's variables have their types.
THEOREM McpTypeCorrect == McpSpec => []McpTypeOK
<1>1. McpInv => McpTypeOK
  BY McpInvImplies
<1>. QED
  BY <1>1, McpInvariance, PTL

\* What the connector believes of its connection is so, an answer is of its
\* call's epoch, failures count once, and a shutdown is thorough.
THEOREM McpSound == McpSpec => []McpSafe
<1>1. McpInv => McpSafe
  BY McpInvImplies
<1>. QED
  BY <1>1, McpInvariance, PTL

-----------------------------------------------------------------------------
(* The services side by side.  Each part takes its own steps or stays, so   *)
(* a behaviour of the services is a behaviour of each part.                 *)

LEMMA ServicesStart ==
  ServicesInit =>
    GateInit /\ TrialInit /\ IntakeInit /\ StreamInit /\ AgentInit
    /\ SupervisorInit /\ McpInit
BY DEF ServicesInit

LEMMA ServicesSteps ==
  ASSUME [ServicesNext]_servicesVars
  PROVE  /\ [GateNext]_gateVars /\ [TrialNext]_trialVars /\ [IntakeNext]_intakeVars
         /\ [StreamNext]_streamVars /\ [AgentNext]_agentVars
         /\ [SupervisorNext]_supervisorVars /\ [McpNext]_mcpVars
BY Zenon DEF ServicesNext, servicesVars

(* The part's own behaviour is within the services' behaviour.              *)
LEMMA ServicesAreParts ==
  ServicesSpec =>
    GateSpec /\ TrialSpec /\ IntakeSpec /\ StreamSpec /\ AgentSpec
    /\ SupervisorSpec /\ McpSpec
BY ServicesStart, ServicesSteps, PTL
DEF ServicesSpec, GateSpec, TrialSpec, IntakeSpec, StreamSpec, AgentSpec, SupervisorSpec,
    McpSpec

(* Whichever service moves, the variables of all have their types.          *)
THEOREM ServicesTypeCorrect == ServicesSpec => []ServicesTypeOK
<1>1. /\ GateTypeOK /\ TrialTypeOK /\ IntakeTypeOK /\ StreamTypeOK /\ AgentTypeOK
      /\ SupervisorTypeOK /\ McpTypeOK
      => ServicesTypeOK
  BY DEF ServicesTypeOK
<1>. QED
  BY <1>1, ServicesAreParts, GateTypeCorrect, TrialTypeCorrect, IntakeTypeCorrect,
     StreamTypeCorrect, AgentTypeCorrect, SupervisorTypeCorrect, McpTypeCorrect, PTL

(* Among the services the supervisor keeps a stop, its budget and a held    *)
(* child, and the connector its session, its epochs and its failures.       *)
THEOREM ProcessSound == ServicesSpec => []ProcessSafe
<1>1. SupervisorSafe /\ McpSafe => ProcessSafe
  BY DEF ProcessSafe
<1>. QED
  BY <1>1, ServicesAreParts, SupervisorSound, McpSound, PTL
=============================================================================
