-------------------------- MODULE AdmissionProofs ---------------------------
(***************************************************************************)
(* Theorems about the three places where the server admits something: the   *)
(* voice confirmation gate (any calls, time to live, turns, Runs and        *)
(* attempts), the idempotent intake (any messages, requests, context        *)
(* changes, reloads and restarts) and the authority of delegated trials     *)
(* (any executions, policies and bounds on owner, engine and host).         *)
(***************************************************************************)
EXTENDS ToolConfirmation, ChatIntake, TrialAuthority, SequenceTheorems,
        WellFoundedInduction, TLAPS

-----------------------------------------------------------------------------
(* The voice confirmation gate.                                             *)

-----------------------------------------------------------------------------
(* The inductive invariant.                                                 *)

(* Attempt i is the refusal a row stands for: the row carries its Run and   *)
(* its time, and the call has not passed since.                             *)
StandsFor(row, k, i) ==
  /\ attempts[i].key = k
  /\ ~ attempts[i].passed
  /\ attempts[i].run = row.blocked
  /\ attempts[i].at = row.created
  /\ \A j \in (i + 1) .. Len(attempts) : attempts[j].key = k => ~ attempts[j].passed

RowsStandForRefusals ==
  \A k \in Keys : pending[k] # None =>
    \E i \in 1 .. Len(attempts) : StandsFor(pending[k], k, i)

GateInv ==
  /\ GateTypeOK
  /\ RowsStandForRefusals
  /\ ConfirmationSafe

Run == [turn : 1 .. Len(turns), status : {"running", "completed", "failed"}]
Asking == [key : Keys, run : 1 .. Len(runs), at : Nat, passed : BOOLEAN]

-----------------------------------------------------------------------------
(* Type correctness.                                                        *)

(* The empty session is well typed.                                         *)
LEMMA GateInitType == GateInit => GateTypeOK
  BY ConfirmationAssumption DEF GateInit, GateTypeOK

(* The type invariant, unfolded for the Run and the attempt of an index.    *)
LEMMA GateTypeFacts ==
  ASSUME GateTypeOK
  PROVE  /\ Len(turns) \in Nat /\ Len(runs) \in Nat /\ Len(attempts) \in Nat
         /\ runs \in Seq(Run)
         /\ attempts \in Seq(Asking)
         /\ \A r \in 1 .. Len(runs) : runs[r] \in Run
         /\ \A i \in 1 .. Len(attempts) : attempts[i] \in Asking
         /\ \A k \in Keys : pending[k] # None => pending[k] \in Row
         /\ Active => Current \in 1 .. Len(runs)
         /\ clock \in Nat
<1>1. /\ Len(turns) \in Nat /\ Len(runs) \in Nat /\ Len(attempts) \in Nat
      /\ runs \in Seq(Run) /\ attempts \in Seq(Asking) /\ clock \in Nat
      /\ \A k \in Keys : pending[k] # None => pending[k] \in Row
  BY ConfirmationAssumption DEF GateTypeOK, Run, Asking
<1>2. \A r \in 1 .. Len(runs) : runs[r] \in Run
  BY <1>1, ElementOfSeq
<1>3. \A i \in 1 .. Len(attempts) : attempts[i] \in Asking
  BY <1>1, ElementOfSeq
<1>4. Active => Current \in 1 .. Len(runs)
  BY <1>1, EmptySeq DEF Active, Current
<1> QED
  BY <1>1, <1>2, <1>3, <1>4

(* Every step keeps the types.                                              *)
LEMMA GateTypeStep == GateTypeOK /\ [GateNext]_gateVars => GateTypeOK'
<1> SUFFICES ASSUME GateTypeOK, [GateNext]_gateVars PROVE GateTypeOK'
  OBVIOUS
<1> USE GateTypeFacts
<1>1. ASSUME NEW kind \in {"user_text", "companion_text"}, PostTurn(kind) PROVE GateTypeOK'
  <2> DEFINE run == [turn |-> Len(turns) + 1, status |-> "running"]
  <2>1. /\ turns' \in Seq({"user_text", "companion_text"}) /\ Len(turns') = Len(turns) + 1
    BY <1>1 DEF PostTurn, GateTypeOK
  <2>2. runs \in Seq(Run') /\ run \in Run'
    <3>1. Run \subseteq Run'
      BY <2>1 DEF Run
    <3>2. run \in Run'
      BY <2>1 DEF Run
    <3>3. runs \in Seq(Run')
      BY <3>1, SeqMonotonic
    <3> QED
      BY <3>2, <3>3
  <2>3. runs' \in Seq(Run') /\ Len(runs') = Len(runs) + 1
    BY <1>1, <2>2 DEF PostTurn
  <2>4. attempts' \in Seq(Asking')
    <3>1. Asking \subseteq Asking'
      BY <2>3 DEF Asking
    <3> QED
      BY <1>1, <3>1, SeqMonotonic DEF PostTurn
  <2> QED
    BY <1>1, <2>1, <2>3, <2>4 DEF PostTurn, GateTypeOK, Run, Asking
<1>2. ASSUME NEW t \in 1 .. Len(turns), RetryTurn(t) PROVE GateTypeOK'
  <2>1. Run' = Run /\ [turn |-> t, status |-> "running"] \in Run
    BY <1>2 DEF RetryTurn, Run
  <2>3. runs' \in Seq(Run') /\ Len(runs') = Len(runs) + 1
    BY <1>2, <2>1 DEF RetryTurn
  <2>4. attempts' \in Seq(Asking')
    <3>1. Asking \subseteq Asking'
      BY <2>3 DEF Asking
    <3> QED
      BY <1>2, <3>1, SeqMonotonic DEF RetryTurn
  <2> QED
    BY <1>2, <2>3, <2>4 DEF RetryTurn, GateTypeOK, Run, Asking
<1>3. ASSUME NEW status \in {"completed", "failed"}, RunEnds(status) PROVE GateTypeOK'
  <2> DEFINE e == [runs[Current] EXCEPT !.status = status]
  <2>1. e \in Run /\ Current \in 1 .. Len(runs)
    BY <1>3 DEF RunEnds, Run
  <2>2. runs' = [runs EXCEPT ![Current] = e]
    BY <1>3 DEF RunEnds
  <2>3. runs' \in Seq(Run) /\ Len(runs') = Len(runs)
    BY <2>1, <2>2, ExceptSeq
  <2> QED
    BY <1>3, <2>3 DEF RunEnds, GateTypeOK, Run, Asking
<1>4. CASE Tick
  BY <1>4, ConfirmationAssumption DEF Tick, GateTypeOK
<1>5. ASSUME NEW k \in Keys, NEW passed \in BOOLEAN, Active, Decided(k, passed), UNCHANGED runs
      PROVE  attempts' \in Seq(Asking')
  <2>1. [key |-> k, run |-> Current, at |-> clock, passed |-> passed] \in Asking
    BY <1>5 DEF Asking
  <2> QED
    BY <1>5, <2>1 DEF Decided, Asking
<1>6. ASSUME NEW k \in Keys, Attempt(k) PROVE GateTypeOK'
  <2>1. IsReplyTo(pending[k].blocked) \in BOOLEAN
    BY DEF IsReplyTo
  <2>2. attempts' \in Seq(Asking')
    BY <1>5, <1>6, <2>1 DEF Attempt, ConsumeRow, RepeatInRun, RecordRow
  <2> DEFINE row == [blocked |-> Current, created |-> clock]
  <2>a. row \in Row /\ row.blocked \in 1 .. Len(runs) /\ runs' = runs
    BY <1>6 DEF Attempt, Row
  <2>b. \/ UNCHANGED pending
        \/ pending' = [pending EXCEPT ![k] = None]
        \/ pending' = [pending EXCEPT ![k] = row]
    BY <1>6 DEF Attempt, ConsumeRow, RepeatInRun, RecordRow
  <2> HIDE DEF row
  <2>3. pending' \in [Keys -> Row \union {None}]
    BY <2>a, <2>b DEF GateTypeOK
  <2>4. \A x \in Keys : pending'[x] # None => pending'[x].blocked \in 1 .. Len(runs')
    BY <2>a, <2>b DEF GateTypeOK
  <2> QED
    BY <1>6, <2>2, <2>3, <2>4 DEF Attempt, GateTypeOK, Asking
<1>7. ASSUME NEW k \in Keys, AttemptElsewhere(k) PROVE GateTypeOK'
  <2>1. attempts' \in Seq(Asking')
    BY <1>5, <1>7 DEF AttemptElsewhere
  <2> QED
    BY <1>7, <2>1 DEF AttemptElsewhere, GateTypeOK, Asking
<1>8. CASE UNCHANGED gateVars
  BY <1>8 DEF gateVars, GateTypeOK
<1> QED
  BY <1>1, <1>2, <1>3, <1>4, <1>6, <1>7, <1>8 DEF GateNext

-----------------------------------------------------------------------------
(* The session only grows: turns stay, a Run keeps its turn and, once       *)
(* completed, its status.                                                   *)
SessionGrows ==
  /\ Len(turns') \in Nat /\ Len(turns) <= Len(turns')
  /\ \A u \in 1 .. Len(turns) : turns'[u] = turns[u]
  /\ Len(runs') \in Nat /\ Len(runs) <= Len(runs')
  /\ \A r \in 1 .. Len(runs) :
       /\ runs'[r].turn = runs[r].turn
       /\ runs[r].status = "completed" => runs'[r].status = "completed"

LEMMA SessionStep == GateTypeOK /\ [GateNext]_gateVars => SessionGrows
<1> SUFFICES ASSUME GateTypeOK, [GateNext]_gateVars PROVE SessionGrows
  OBVIOUS
<1> USE GateTypeFacts
<1>1. ASSUME NEW kind \in {"user_text", "companion_text"}, PostTurn(kind) PROVE SessionGrows
  BY <1>1 DEF PostTurn, SessionGrows, GateTypeOK
<1>2. ASSUME NEW t \in 1 .. Len(turns), RetryTurn(t) PROVE SessionGrows
  BY <1>2 DEF RetryTurn, SessionGrows, GateTypeOK
<1>3. ASSUME NEW status \in {"completed", "failed"}, RunEnds(status) PROVE SessionGrows
  <2> DEFINE e == [runs[Current] EXCEPT !.status = status]
  <2>1. e \in Run /\ Current \in 1 .. Len(runs) /\ e.turn = runs[Current].turn
    BY <1>3 DEF RunEnds, Run
  <2>2. runs' = [runs EXCEPT ![Current] = e] /\ runs[Current].status = "running"
    BY <1>3 DEF RunEnds, Active
  <2>3. /\ Len(runs') = Len(runs)
        /\ \A r \in 1 .. Len(runs) : runs'[r] = IF r = Current THEN e ELSE runs[r]
    BY <2>1, <2>2, ExceptSeq
  <2> HIDE DEF e
  <2> QED
    BY <1>3, <2>1, <2>2, <2>3 DEF RunEnds, SessionGrows
<1>4. CASE UNCHANGED <<turns, runs>>
  BY <1>4 DEF SessionGrows
<1> QED
  BY <1>1, <1>2, <1>3, <1>4 DEF GateNext, Tick, Attempt, AttemptElsewhere, gateVars

(* What the user said between two turns that exist is settled.              *)
LEMMA BetweenSettled ==
  ASSUME GateTypeOK, SessionGrows, NEW s \in 1 .. Len(turns), NEW t \in 1 .. Len(turns),
         UserTurnsBetween(s, t) = {}
  PROVE  UserTurnsBetween(s, t)' = {}
  BY GateTypeFacts DEF SessionGrows, UserTurnsBetween

(* Attempts only grow, at the end.                                          *)
AttemptsGrow(k, passed) ==
  /\ Len(attempts') = Len(attempts) + 1
  /\ \A i \in 1 .. Len(attempts) : attempts'[i] = attempts[i]
  /\ attempts'[Len(attempts) + 1] =
       [key |-> k, run |-> Current, at |-> clock, passed |-> passed]

LEMMA DecidedGrows ==
  ASSUME GateTypeOK, NEW k \in Keys, NEW passed \in BOOLEAN, Decided(k, passed)
  PROVE  AttemptsGrow(k, passed)
  BY GateTypeFacts DEF Decided, AttemptsGrow

-----------------------------------------------------------------------------
(* What a step does to the gate's rows and the record of attempts.          *)

RefusedCall(k) ==
  /\ AttemptsGrow(k, FALSE)
  /\ UNCHANGED pending

Recorded(k) ==
  /\ AttemptsGrow(k, FALSE)
  /\ pending' = [pending EXCEPT ![k] = [blocked |-> Current, created |-> clock]]

Passed(k) ==
  /\ AttemptsGrow(k, TRUE)
  /\ pending[k] # None
  /\ RowLive(pending[k])
  /\ pending[k].blocked # Current
  /\ IsReplyTo(pending[k].blocked)
  /\ pending' = [pending EXCEPT ![k] = None]

(* A step that decides an attempt refuses it, records it or passes it.      *)
LEMMA GateEffect ==
  ASSUME GateTypeOK, [GateNext]_gateVars
  PROVE  \/ UNCHANGED <<pending, attempts>>
         \/ /\ Active
            /\ UNCHANGED <<turns, runs, clock>>
            /\ \E k \in Keys : RefusedCall(k) \/ Recorded(k) \/ Passed(k)
<1>1. ASSUME NEW k \in Keys, Attempt(k)
      PROVE  /\ Active
             /\ UNCHANGED <<turns, runs, clock>>
             /\ RefusedCall(k) \/ Recorded(k) \/ Passed(k)
  <2>1. CASE ConsumeRow(k)
    BY <1>1, <2>1, DecidedGrows DEF Attempt, ConsumeRow, RefusedCall, Passed
  <2>2. CASE RepeatInRun(k)
    BY <1>1, <2>2, DecidedGrows DEF Attempt, RepeatInRun, RefusedCall
  <2>3. CASE RecordRow(k)
    BY <1>1, <2>3, DecidedGrows DEF Attempt, RecordRow, Recorded
  <2> QED
    BY <1>1, <2>1, <2>2, <2>3 DEF Attempt
<1>2. ASSUME NEW k \in Keys, AttemptElsewhere(k)
      PROVE  Active /\ UNCHANGED <<turns, runs, clock>> /\ RefusedCall(k)
  BY <1>2, DecidedGrows DEF AttemptElsewhere, RefusedCall
<1>3. CASE \E k \in Keys : Attempt(k) \/ AttemptElsewhere(k)
  BY <1>1, <1>2, <1>3
<1>4. CASE UNCHANGED <<pending, attempts>>
  BY <1>4
<1> QED
  BY <1>3, <1>4 DEF GateNext, PostTurn, RetryTurn, RunEnds, Tick, gateVars

(* A row stands for a refusal until it is consumed.                         *)
LEMMA GateRowsStep ==
  GateTypeOK /\ RowsStandForRefusals /\ [GateNext]_gateVars => RowsStandForRefusals'
<1> SUFFICES ASSUME GateTypeOK, RowsStandForRefusals, [GateNext]_gateVars,
                    NEW x \in Keys, pending'[x] # None
             PROVE  \E i \in 1 .. Len(attempts') : StandsFor(pending[x], x, i)'
  BY DEF RowsStandForRefusals
<1> USE GateTypeFacts
<1>1. CASE UNCHANGED <<pending, attempts>>
  BY <1>1 DEF RowsStandForRefusals, StandsFor
<1>2. ASSUME NEW k \in Keys, pending'[x] = pending[x],
             AttemptsGrow(k, FALSE) \/ (AttemptsGrow(k, TRUE) /\ x # k)
      PROVE  \E i \in 1 .. Len(attempts') : StandsFor(pending[x], x, i)'
  <2>1. PICK i \in 1 .. Len(attempts) : StandsFor(pending[x], x, i)
    BY <1>2 DEF RowsStandForRefusals
  <2>2. i \in 1 .. Len(attempts') /\ attempts'[i] = attempts[i]
    BY <1>2 DEF AttemptsGrow
  <2>3. ASSUME NEW j \in (i + 1) .. Len(attempts'), attempts'[j].key = x
        PROVE  ~ attempts'[j].passed
    <3>1. CASE j \in 1 .. Len(attempts)
      BY <1>2, <2>1, <2>3, <3>1 DEF StandsFor, AttemptsGrow
    <3>2. CASE j = Len(attempts) + 1
      BY <1>2, <2>3, <3>2 DEF AttemptsGrow
    <3> QED
      BY <1>2, <3>1, <3>2 DEF AttemptsGrow
  <2>4. StandsFor(pending[x], x, i)'
    BY <1>2, <2>1, <2>2, <2>3 DEF StandsFor
  <2> QED
    BY <2>2, <2>4
<1>3. ASSUME NEW k \in Keys, RefusedCall(k)
      PROVE  \E i \in 1 .. Len(attempts') : StandsFor(pending[x], x, i)'
  BY <1>2, <1>3 DEF RefusedCall
<1>4. ASSUME NEW k \in Keys, Recorded(k)
      PROVE  \E i \in 1 .. Len(attempts') : StandsFor(pending[x], x, i)'
  <2>1. CASE x = k
    <3>1. pending'[x] = [blocked |-> Current, created |-> clock]
      BY <1>4, <2>1 DEF Recorded, GateTypeOK
    <3>2. PICK n \in Nat : n = Len(attempts) + 1
      OBVIOUS
    <3>3. /\ n = Len(attempts')
          /\ attempts'[n] = [key |-> x, run |-> Current, at |-> clock, passed |-> FALSE]
      BY <1>4, <2>1, <3>2 DEF Recorded, AttemptsGrow
    <3>4. n \in 1 .. Len(attempts') /\ StandsFor(pending[x], x, n)'
      BY <3>1, <3>2, <3>3 DEF StandsFor
    <3> QED
      BY <3>4
  <2>2. CASE x # k
    BY <1>2, <1>4, <2>2 DEF Recorded, GateTypeOK
  <2> QED
    BY <2>1, <2>2
<1>5. ASSUME NEW k \in Keys, Passed(k)
      PROVE  \E i \in 1 .. Len(attempts') : StandsFor(pending[x], x, i)'
  <2>1. x # k
    BY <1>5 DEF Passed, GateTypeOK
  <2> QED
    BY <1>2, <1>5, <2>1 DEF Passed, GateTypeOK
<1> QED
  BY <1>1, <1>3, <1>4, <1>5, GateEffect

-----------------------------------------------------------------------------
(* The two properties.                                                      *)

(* Attempt i, a refusal, is what attempt j replies to.                      *)
Asked(i, j) ==
  /\ attempts[i].key = attempts[j].key
  /\ ~ attempts[i].passed
  /\ runs[attempts[i].run].status = "completed"
  /\ runs[attempts[i].run].turn < runs[attempts[j].run].turn
  /\ UserTurnsBetween(runs[attempts[i].run].turn, runs[attempts[j].run].turn) = {}
  /\ attempts[j].at - attempts[i].at <= Ttl

(* The session's growth does not undo a reply.                              *)
LEMMA AskedKept ==
  ASSUME GateTypeOK, SessionGrows, NEW i \in 1 .. Len(attempts), NEW j \in 1 .. Len(attempts),
         Asked(i, j), attempts'[i] = attempts[i], attempts'[j] = attempts[j]
  PROVE  Asked(i, j)'
<1> DEFINE a == attempts[i].run
           b == attempts[j].run
<1>1. /\ a \in 1 .. Len(runs) /\ b \in 1 .. Len(runs)
      /\ runs[a].turn \in 1 .. Len(turns) /\ runs[b].turn \in 1 .. Len(turns)
  BY GateTypeFacts DEF Run, Asking
<1>2. runs'[a].turn = runs[a].turn /\ runs'[b].turn = runs[b].turn
  BY <1>1 DEF SessionGrows
<1>3. runs[a].status = "completed" /\ runs'[a].status = "completed"
  BY <1>1 DEF SessionGrows, Asked
<1>4. UserTurnsBetween(runs[a].turn, runs[b].turn) = {}
  BY DEF Asked
<1>5. {u \in 1 .. Len(turns') : runs[a].turn < u /\ u < runs[b].turn /\ turns'[u] = "user_text"} = {}
  BY <1>1, <1>4, BetweenSettled DEF UserTurnsBetween
<1>6. UserTurnsBetween(runs[a].turn, runs[b].turn)' = {}
  BY <1>2, <1>5 DEF UserTurnsBetween
<1> QED
  BY <1>2, <1>3, <1>6 DEF Asked

(* A write passes only as the reply to a refusal.                           *)
LEMMA AskedStep ==
  GateInv /\ [GateNext]_gateVars => PassedWasAsked'
<1> SUFFICES ASSUME GateInv, [GateNext]_gateVars,
                    NEW j \in 1 .. Len(attempts'), attempts'[j].passed
             PROVE  \E i \in 1 .. (j - 1) : Asked(i, j)'
  BY DEF PassedWasAsked, Asked
<1>0. GateTypeOK /\ RowsStandForRefusals /\ SessionGrows
  BY SessionStep DEF GateInv
<1> USE <1>0, GateTypeFacts
<1>1. ASSUME j \in 1 .. Len(attempts),
             \A i \in 1 .. Len(attempts) : attempts'[i] = attempts[i]
      PROVE  \E i \in 1 .. (j - 1) : Asked(i, j)'
  <2>1. PICK i \in 1 .. (j - 1) : Asked(i, j)
    BY <1>1 DEF GateInv, ConfirmationSafe, PassedWasAsked, Asked
  <2>2. i \in 1 .. Len(attempts)
    BY <1>1, <2>1
  <2>3. attempts'[i] = attempts[i] /\ attempts'[j] = attempts[j]
    BY <1>1, <2>2
  <2>4. Asked(i, j)'
    BY <1>0, <1>1, <2>1, <2>2, <2>3, AskedKept
  <2> QED
    BY <2>4
<1>2. ASSUME NEW k \in Keys, Passed(k), UNCHANGED <<turns, runs, clock>>, j = Len(attempts) + 1
      PROVE  \E i \in 1 .. (j - 1) : Asked(i, j)'
  <2>1. PICK i \in 1 .. Len(attempts) : StandsFor(pending[k], k, i)
    BY <1>2 DEF RowsStandForRefusals, Passed
  <2>2. /\ attempts'[i] = attempts[i]
        /\ attempts'[j] = [key |-> k, run |-> Current, at |-> clock, passed |-> TRUE]
    BY <1>2, <2>1 DEF Passed, AttemptsGrow
  <2>3. /\ attempts[i].run = pending[k].blocked /\ attempts[i].at = pending[k].created
        /\ attempts[i].key = k /\ ~ attempts[i].passed
    BY <2>1 DEF StandsFor
  <2>4. clock - attempts[i].at <= Ttl
    BY <1>2, <2>3 DEF Passed, RowLive
  <2>5. IsReplyTo(attempts[i].run)
    BY <1>2, <2>3 DEF Passed
  <2>6. UserTurnsBetween(runs[attempts[i].run].turn, runs[Current].turn)' = {}
    BY <1>2, <2>2, <2>5 DEF IsReplyTo, UserTurnsBetween, Current
  <2>7. runs[attempts[i].run].turn < runs[Current].turn
    BY <2>5, <2>3, <1>2 DEF IsReplyTo, Run, Asking, Passed, GateTypeOK
  <2>8. Asked(i, j)'
    BY <1>2, <2>2, <2>3, <2>4, <2>5, <2>6, <2>7 DEF Asked, IsReplyTo, Current
  <2> QED
    BY <1>2, <2>8
<1>3. CASE UNCHANGED attempts
  BY <1>1, <1>3
<1>4. ASSUME NEW k \in Keys, NEW passed \in BOOLEAN, AttemptsGrow(k, passed)
      PROVE  \/ j \in 1 .. Len(attempts) /\ \A i \in 1 .. Len(attempts) : attempts'[i] = attempts[i]
             \/ j = Len(attempts) + 1 /\ passed
  BY <1>4 DEF AttemptsGrow
<1>5. ASSUME NEW k \in Keys, UNCHANGED <<turns, runs, clock>>, RefusedCall(k) \/ Recorded(k) \/ Passed(k)
      PROVE  \E i \in 1 .. (j - 1) : Asked(i, j)'
  BY <1>1, <1>2, <1>4, <1>5 DEF RefusedCall, Recorded, Passed
<1> QED
  BY <1>3, <1>5, GateEffect

(* One refusal buys one write.                                              *)
LEMMA OnceStep ==
  GateInv /\ [GateNext]_gateVars => AskedOncePerWrite'
<1> SUFFICES ASSUME GateInv, [GateNext]_gateVars,
                    NEW i \in 1 .. Len(attempts'), NEW j \in 1 .. Len(attempts'),
                    i < j, attempts'[i].passed, attempts'[j].passed,
                    attempts'[i].key = attempts'[j].key
             PROVE  \E n \in (i + 1) .. (j - 1) :
                      /\ attempts'[n].key = attempts'[i].key
                      /\ ~ attempts'[n].passed
                      /\ attempts'[n].run # attempts'[j].run
  BY DEF AskedOncePerWrite
<1>0. GateTypeOK /\ RowsStandForRefusals
  BY DEF GateInv
<1> USE <1>0, GateTypeFacts
<1> DEFINE Goal == \E n \in (i + 1) .. (j - 1) :
                      /\ attempts'[n].key = attempts'[i].key
                      /\ ~ attempts'[n].passed
                      /\ attempts'[n].run # attempts'[j].run
<1>1. ASSUME j \in 1 .. Len(attempts),
             \A m \in 1 .. Len(attempts) : attempts'[m] = attempts[m]
      PROVE  Goal
  <2>0. /\ i \in 1 .. Len(attempts) /\ attempts[i].passed /\ attempts[j].passed
        /\ attempts[i].key = attempts[j].key
    <3>1. i \in 1 .. Len(attempts)
      BY <1>1
    <3> QED
      BY <1>1, <3>1, Zenon
  <2>1. PICK n \in (i + 1) .. (j - 1) :
                      /\ attempts[n].key = attempts[i].key
                      /\ ~ attempts[n].passed
                      /\ attempts[n].run # attempts[j].run
    BY <1>1, <2>0 DEF GateInv, ConfirmationSafe, AskedOncePerWrite
  <2>2. /\ attempts'[n] = attempts[n] /\ attempts'[i] = attempts[i]
        /\ attempts'[j] = attempts[j]
    BY <1>1
  <2> QED
    BY <2>1, <2>2
<1>2. ASSUME NEW k \in Keys, Passed(k), j = Len(attempts) + 1
      PROVE  Goal
  <2>1. PICK n \in 1 .. Len(attempts) : StandsFor(pending[k], k, n)
    BY <1>2 DEF RowsStandForRefusals, Passed
  <2>2. /\ attempts'[n] = attempts[n] /\ attempts'[i] = attempts[i]
        /\ attempts'[j] = [key |-> k, run |-> Current, at |-> clock, passed |-> TRUE]
    BY SMTT(40), <1>2, <2>1 DEF Passed, AttemptsGrow
  <2>3. i < n
    BY <1>2, <2>1, <2>2 DEF StandsFor
  <2>4. attempts[n].run # Current /\ attempts[n].key = k /\ ~ attempts[n].passed
    BY <1>2, <2>1 DEF StandsFor, Passed
  <2> QED
    BY SMTT(40), <1>2, <2>2, <2>3, <2>4
<1>3. CASE UNCHANGED attempts
  BY <1>1, <1>3
<1>4. ASSUME NEW k \in Keys, NEW passed \in BOOLEAN, AttemptsGrow(k, passed)
      PROVE  \/ j \in 1 .. Len(attempts) /\ \A m \in 1 .. Len(attempts) : attempts'[m] = attempts[m]
             \/ j = Len(attempts) + 1 /\ passed
  BY SMTT(40), <1>4 DEF AttemptsGrow
<1>5. ASSUME NEW k \in Keys, RefusedCall(k) \/ Recorded(k) \/ Passed(k) PROVE Goal
  BY <1>1, <1>2, <1>4, <1>5 DEF RefusedCall, Recorded, Passed
<1> QED
  BY <1>3, <1>5, GateEffect

-----------------------------------------------------------------------------
(* The invariant holds of every behaviour of the gate.                      *)
THEOREM GateInvariance == GateSpec => []GateInv
<1>1. GateInit => GateInv
  <2> SUFFICES ASSUME GateInit PROVE GateInv
    OBVIOUS
  <2>1. RowsStandForRefusals /\ Len(attempts) = 0
    BY DEF GateInit, RowsStandForRefusals
  <2>2. PassedWasAsked
    BY <2>1 DEF PassedWasAsked
  <2>3. AskedOncePerWrite
    BY <2>1 DEF AskedOncePerWrite
  <2> QED
    BY <2>1, <2>2, <2>3, GateInitType DEF GateInv, ConfirmationSafe
<1>2. GateInv /\ [GateNext]_gateVars => GateInv'
  BY GateTypeStep, GateRowsStep, AskedStep, OnceStep DEF GateInv, ConfirmationSafe
<1> QED
  BY <1>1, <1>2, PTL DEF GateSpec

(* The variables of the gate have their types.                              *)
THEOREM GateTypeCorrect == GateSpec => []GateTypeOK
<1>1. GateInv => GateTypeOK
  BY DEF GateInv
<1> QED
  BY <1>1, GateInvariance, PTL

(* A dictated write passes only as the timely reply to a completed refusal  *)
(* of the same call, and one refusal buys one write, whatever is posted,    *)
(* retried or repeated (consumeOrRecordConfirmation).                       *)
THEOREM GateSound == GateSpec => []ConfirmationSafe
<1>1. GateInv => ConfirmationSafe
  BY DEF GateInv
<1> QED
  BY <1>1, GateInvariance, PTL

-----------------------------------------------------------------------------
(* The idempotent intake.                                                   *)

-----------------------------------------------------------------------------
(* The inductive invariant.                                                 *)

(* Body b was posted under key k: on the wire, or accepted.                 *)
Sent(k, b) ==
  \/ \E q \in wire : q.key = k /\ q.body = b
  \/ accepted[k].row # 0 /\ accepted[k].body = b

(* A key that was posted was typed, carries its message, and had one body.  *)
OneBodyPerKey ==
  \A k \in Key : \A b \in Body : Sent(k, b) =>
    /\ k <= typed
    /\ b.msg = k
    /\ \A c \in Body : Sent(k, c) => c = b

(* The frozen request is what was posted under its key, if anything was: it *)
(* is not posted before its context is fetched.                             *)
FrozenAgrees ==
  /\ phase = "freezing" /\ frozen # Nothing => frozen.ctx = 0
  /\ frozen # Nothing => frozen.key \in 1 .. typed
  /\ frozen # Nothing /\ frozen.ctx = 0 =>
       phase = "freezing" /\ \A b \in Body : ~ Sent(frozen.key, b)
  /\ frozen # Nothing /\ frozen.ctx # 0 =>
       \A b \in Body : Sent(frozen.key, b) => b.ctx = frozen.ctx

(* Boot asks the lookup about a key it read.                                *)
AskedKeyExists == boot.at = "asking" => boot.key # 0

(* The rows, the stored responses and the answers tell one story.           *)
Ledger ==
  /\ \A i \in 1 .. Len(rows) : accepted[rows[i].key].row = i
  /\ \A k \in Key : accepted[k].row # 0 => rows[accepted[k].row].key = k
  /\ \A k \in Key : accepted[k].row # 0 => k \notin Invalid
  /\ \A r \in answered : r.status = "accepted" => r.row # 0 /\ accepted[r.key].row = r.row
  /\ \A r \in answered : r.status = "invalid" => r.key \in Invalid
  /\ \A r \in answered : r.status # "conflict"
  /\ replies \subseteq answered

IntakeInv ==
  /\ IntakeTypeOK
  /\ context # 0
  /\ OneBodyPerKey
  /\ FrozenAgrees
  /\ AskedKeyExists
  /\ Ledger

Turn == [key : Key, body : Body, active : BOOLEAN]

-----------------------------------------------------------------------------
(* Sequences.                                                               *)

(* A function on 1 .. n is a sequence of length n.                          *)
LEMMA FunctionIsSeq ==
  ASSUME NEW S, NEW n \in Nat, NEW f \in [1 .. n -> S]
  PROVE  f \in Seq(S) /\ Len(f) = n
<1>1. f \in Seq(S)
  BY SeqDef
<1>2. Len(f) \in Nat /\ DOMAIN f = 1 .. Len(f) /\ DOMAIN f = 1 .. n
  BY <1>1, LenProperties
<1>3. Len(f) = n
  BY <1>2
<1> QED
  BY <1>1, <1>3

LEMMA RowFacts ==
  ASSUME IntakeTypeOK
  PROVE  /\ Len(rows) \in Nat
         /\ DOMAIN rows = 1 .. Len(rows)
         /\ \A i \in 1 .. Len(rows) : rows[i] \in Turn
         /\ rows \in Seq(Turn)
         /\ \A k \in Key : accepted[k] \in [body : Body, row : 0 .. Len(rows)]
  BY ElementOfSeq, LenProperties DEF IntakeTypeOK, Turn

-----------------------------------------------------------------------------
(* What a step does to the rows and the answers.                            *)

RowsKept ==
  /\ rows' \in Seq(Turn)
  /\ Len(rows') = Len(rows)
  /\ \A i \in 1 .. Len(rows) : rows'[i].key = rows[i].key

AnswerPost(q, status, row) ==
  LET reply == [n |-> q.n, key |-> q.key, status |-> status, row |-> row]
  IN /\ replies' = replies \union {reply}
     /\ answered' = answered \union {reply}
     /\ wire' = wire \ {q}

Created(q) ==
  /\ accepted[q.key].row = 0
  /\ q.body.msg \notin Invalid
  /\ rows' = Append(rows, [key |-> q.key, body |-> q.body, active |-> TRUE])
  /\ accepted' = [accepted EXCEPT ![q.key] = [body |-> q.body, row |-> Len(rows) + 1]]
  /\ AnswerPost(q, "accepted", Len(rows) + 1)

Repeated(q) ==
  /\ accepted[q.key].row # 0
  /\ UNCHANGED <<rows, accepted>>
  /\ AnswerPost(q, "accepted", accepted[q.key].row)

Refused(q) ==
  /\ UNCHANGED <<rows, accepted>>
  /\ \E status \in Statuses \ {"accepted"} :
       /\ AnswerPost(q, status, 0)
       /\ status = "invalid" => q.body.msg \in Invalid
       /\ status = "conflict" => accepted[q.key].row # 0 /\ accepted[q.key].body # q.body

RowsOnly ==
  /\ RowsKept
  /\ UNCHANGED <<accepted, answered>>
  /\ replies' \subseteq replies
  /\ wire' \subseteq wire

Posted ==
  /\ UNCHANGED <<rows, accepted, answered, replies>>
  /\ sent < MaxSends
  /\ sent' = sent + 1
  /\ wire' = wire \union
       {[n |-> sent + 1, key |-> frozen.key, body |-> [msg |-> frozen.key, ctx |-> frozen'.ctx]]}
  /\ frozen' = [key |-> frozen.key, ctx |-> frozen'.ctx]
  /\ frozen # Nothing
  /\ frozen'.ctx = IF phase = "freezing" THEN context ELSE frozen.ctx
  /\ phase' = "posting"
  /\ UNCHANGED typed

(* Serve creates, repeats or refuses.                                       *)
LEMMA ServeEffect ==
  ASSUME IntakeTypeOK, NEW q \in wire, Serve(q)
  PROVE  Created(q) \/ Repeated(q) \/ Refused(q)
<1>1. StatusOf(q) \in Statuses
  BY DEF StatusOf, Statuses
<1>2. CASE Creates(q)
  <2>1. q.body.msg \notin Invalid
    BY <1>2 DEF Creates, StatusOf
  <2> QED
    BY <1>2, <2>1 DEF Serve, Creates, Created, AnswerPost
<1>3. CASE ~ Creates(q) /\ StatusOf(q) = "accepted"
  BY <1>3 DEF Serve, Creates, Repeated, AnswerPost
<1>4. CASE StatusOf(q) # "accepted"
  <2>1. StatusOf(q) = "invalid" => q.body.msg \in Invalid
    BY DEF StatusOf
  <2>2. StatusOf(q) = "conflict" => accepted[q.key].row # 0 /\ accepted[q.key].body # q.body
    BY DEF StatusOf
  <2>3. UNCHANGED <<rows, accepted>> /\ AnswerPost(q, StatusOf(q), 0)
    BY <1>4 DEF Serve, Creates, AnswerPost
  <2> QED
    BY <1>1, <1>4, <2>1, <2>2, <2>3 DEF Refused
<1> QED
  BY <1>2, <1>3, <1>4

(* The rows change their activity, or one request is decided or posted.     *)
LEMMA StepEffect ==
  ASSUME IntakeTypeOK, [IntakeNext]_intakeVars
  PROVE  \/ RowsOnly
         \/ \E q \in wire : Created(q) \/ Repeated(q) \/ Refused(q)
         \/ Posted
<1> USE RowFacts
<1>1. CASE UNCHANGED <<rows, accepted, answered, wire>> /\ replies' \subseteq replies
  BY <1>1 DEF RowsOnly, RowsKept
<1>2. ASSUME NEW q \in wire, Serve(q) PROVE Created(q) \/ Repeated(q) \/ Refused(q)
  BY <1>2, ServeEffect
<1>3. ASSUME NEW q \in wire, Lose(q) PROVE RowsOnly
  BY <1>3 DEF Lose, RowsOnly, RowsKept, serverVars
<1>4. ASSUME NEW i \in 1 .. Len(rows), NEW b \in BOOLEAN,
             rows' = [rows EXCEPT ![i].active = b]
      PROVE  RowsKept
  <2> DEFINE e == [rows[i] EXCEPT !.active = b]
  <2>1. e \in Turn /\ e.key = rows[i].key
    BY DEF Turn
  <2>2. rows' = [rows EXCEPT ![i] = e]
    BY <1>4
  <2>3. /\ rows' \in Seq(Turn) /\ Len(rows') = Len(rows)
        /\ \A j \in 1 .. Len(rows) : rows'[j] = IF j = i THEN e ELSE rows[j]
    BY <2>1, <2>2, ExceptSeq
  <2> QED
    BY <2>1, <2>3 DEF RowsKept
<1>5. ASSUME NEW i \in DOMAIN rows, RetryRow(i) \/ RunSettles(i) PROVE RowsOnly
  BY <1>4, <1>5 DEF RetryRow, RunSettles, RowsOnly, netVars
<1>6. CASE ServerRestarts
  <2> DEFINE f == [i \in 1 .. Len(rows) |-> [rows[i] EXCEPT !.active = FALSE]]
  <2>1. f \in [1 .. Len(rows) -> Turn] /\ \A i \in 1 .. Len(rows) : f[i].key = rows[i].key
    BY DEF Turn
  <2>2. rows' = f
    BY <1>6 DEF ServerRestarts
  <2>3. rows' \in Seq(Turn) /\ Len(rows') = Len(rows)
    BY <2>1, <2>2, FunctionIsSeq
  <2> QED
    BY <1>6, <2>1, <2>2, <2>3 DEF ServerRestarts, RowsOnly, RowsKept
<1>7. CASE ContextFetched \/ Resend
  BY <1>7 DEF ContextFetched, Resend, SendAllowed, Post, Posted, serverVars, IntakeTypeOK
<1>8. CASE PageStep /\ ~ (ContextFetched \/ Resend)
  BY <1>1, <1>8 DEF PageStep, SendFresh, NothingToPost, NetworkFails, ReplyArrives, FollowEnds,
       ReloadPage, LookupAnswers, LookupFails, RecoverPending, ActiveRunRead, DiscoverActive,
       SubscribeAdopted, Adopt, BootMoves, ContextChanges, serverVars, netVars
<1>9. CASE DrainBegins \/ UNCHANGED intakeVars
  BY <1>1, <1>9 DEF DrainBegins, intakeVars, netVars, serverVars
<1> QED
  BY <1>2, <1>3, <1>5, <1>6, <1>7, <1>8, <1>9 DEF IntakeNext, ServerStep

-----------------------------------------------------------------------------
(* Type correctness, by groups of variables.                                *)

(* What the page holds, apart from the Run it follows.                      *)
PageType ==
  /\ context \in Nat /\ context # 0
  /\ typed \in 0 .. MaxMessages
  /\ frozen \in [key : 0 .. MaxMessages, ctx : Nat]
  /\ storedKey \in 0 .. MaxMessages
  /\ phase \in {"idle", "freezing", "posting"}
  /\ boot \in [at : BootSteps, key : 0 .. MaxMessages, run : Nat]
  /\ awaited \in 0 .. MaxSends
  /\ sent \in 0 .. MaxSends
  /\ draining \in BOOLEAN
  /\ reloads \in 0 .. MaxReloads
  /\ stops \in 0 .. MaxStops

(* A step of boot moves it on, and the Run it found exists.                 *)
BootGoesOn ==
  \/ LookupAnswers
  \/ LookupFails
  \/ RecoverPending
  \/ ActiveRunRead
  \/ DiscoverActive
  \/ SubscribeAdopted

LEMMA BootStep ==
  ASSUME IntakeInv, BootGoesOn
  PROVE  /\ \E at \in BootSteps \ {"asking"}, i \in 0 .. Len(rows) :
              BootMoves([boot EXCEPT !.at = at, !.run = i])
         /\ ownRun' \in {ownRun, boot.run}
         /\ (frozen' = Nothing /\ storedKey' = 0) \/ UNCHANGED <<frozen, storedKey>>
<1>0. 0 \in 0 .. Len(rows) /\ DOMAIN rows \subseteq 0 .. Len(rows)
  BY RowFacts DEF IntakeInv
<1> USE DEF BootSteps
<1>1. /\ boot \in [at : BootSteps, key : 0 .. MaxMessages, run : 0 .. Len(rows)]
      /\ boot.at = "asking" => accepted[boot.key].row \in 0 .. Len(rows)
  BY RowFacts, IntakeAssumption DEF IntakeInv, IntakeTypeOK, AskedKeyExists, Key
<1>2. ASSUME NEW at PROVE [boot EXCEPT !.at = at] = [boot EXCEPT !.at = at, !.run = boot.run]
  BY <1>1
<1>3. CASE LookupAnswers
  BY <1>1, <1>3 DEF LookupAnswers
<1>4. CASE LookupFails
  BY <1>1, <1>2, <1>4 DEF LookupFails
<1>5. CASE RecoverPending \/ DiscoverActive
  BY <1>1, <1>2, <1>5 DEF RecoverPending, DiscoverActive, Adopt, DropFrozen
<1>6. CASE ActiveRunRead
  <2>1. PICK i \in 0 .. Len(rows) : BootMoves([boot EXCEPT !.at = "looked", !.run = i])
    BY <1>0, <1>6, Zenon DEF ActiveRunRead
  <2>2. UNCHANGED <<frozen, storedKey, ownRun>>
    BY <1>6 DEF ActiveRunRead
  <2> QED
    BY <2>1, <2>2
<1>7. CASE SubscribeAdopted
  BY <1>1, <1>2, <1>7 DEF SubscribeAdopted
<1> QED
  BY <1>3, <1>4, <1>5, <1>6, <1>7 DEF BootGoesOn

LEMMA PageTypeStep ==
  IntakeInv /\ [IntakeNext]_intakeVars => PageType' /\ AskedKeyExists'
<1> SUFFICES ASSUME IntakeInv, [IntakeNext]_intakeVars PROVE PageType' /\ AskedKeyExists'
  OBVIOUS
<1>0. PageType /\ AskedKeyExists /\ frozen.key \in 0 .. MaxMessages /\ frozen.ctx \in Nat
  <2>1. 0 .. Len(rows) \subseteq Nat
    BY RowFacts DEF IntakeInv
  <2> QED
    BY <2>1 DEF IntakeInv, IntakeTypeOK, PageType
<1> USE <1>0, IntakeAssumption
<1>1. CASE SendFresh
  BY <1>1 DEF SendFresh, SendAllowed, PageType, AskedKeyExists, netVars, serverVars, budgetVars
<1>2. ASSUME NEW request \in [key : 0 .. MaxMessages, ctx : Nat], Post(request)
      PROVE  PageType' /\ AskedKeyExists'
  BY <1>2 DEF Post, PageType, AskedKeyExists, serverVars, budgetVars
<1>3. CASE ContextFetched
  BY <1>2, <1>3 DEF ContextFetched, PageType
<1>4. CASE Resend
  BY <1>2, <1>4 DEF Resend, PageType
<1>5. CASE NetworkFails
  BY <1>5 DEF NetworkFails, PageType, AskedKeyExists, netVars, serverVars, budgetVars
<1>6. ASSUME NEW r \in replies, ReplyArrives(r) PROVE PageType' /\ AskedKeyExists'
  <2>1. (frozen' = Nothing /\ storedKey' = 0) \/ UNCHANGED <<frozen, storedKey>>
    BY <1>6 DEF ReplyArrives, DropFrozen
  <2> QED
    BY <1>6, <2>1 DEF ReplyArrives, Nothing, PageType, AskedKeyExists, serverVars, budgetVars
<1>7. CASE FollowEnds
  BY <1>7 DEF FollowEnds, PageType, AskedKeyExists, netVars, serverVars, budgetVars
<1>8. CASE ReloadPage
  BY <1>8 DEF ReloadPage, BootFrom, BootSteps, Nothing, PageType, AskedKeyExists, netVars, serverVars
<1>9. ASSUME NEW at \in BootSteps \ {"asking"}, NEW i \in Nat,
             BootMoves([boot EXCEPT !.at = at, !.run = i]),
             (frozen' = Nothing /\ storedKey' = 0) \/ UNCHANGED <<frozen, storedKey>>
      PROVE  PageType' /\ AskedKeyExists'
  <2>1. boot' \in [at : BootSteps, key : 0 .. MaxMessages, run : Nat] /\ boot'.at # "asking"
    BY <1>9 DEF BootMoves, PageType
  <2> QED
    BY <1>9, <2>1 DEF BootMoves, Nothing, PageType, AskedKeyExists, netVars, serverVars, budgetVars
<1>10. CASE BootGoesOn
  <2>1. PICK at \in BootSteps \ {"asking"}, i \in 0 .. Len(rows) :
          BootMoves([boot EXCEPT !.at = at, !.run = i])
    BY <1>10, BootStep
  <2>2. i \in Nat
    BY RowFacts DEF IntakeInv
  <2> QED
    BY <1>9, <1>10, <2>1, <2>2, BootStep
<1>11. CASE NothingToPost
  BY <1>11 DEF NothingToPost, PageType, AskedKeyExists, netVars, serverVars, budgetVars
<1>12. CASE ContextChanges
  BY <1>12 DEF ContextChanges, PageType, AskedKeyExists, pageVars, netVars, serverVars
<1>13. ASSUME NEW q \in wire, Serve(q) \/ Lose(q) PROVE PageType' /\ AskedKeyExists'
  BY <1>13 DEF Serve, Lose, PageType, AskedKeyExists, pageVars, serverVars, budgetVars
<1>14. ASSUME NEW i \in DOMAIN rows, RetryRow(i) \/ RunSettles(i) PROVE PageType' /\ AskedKeyExists'
  BY <1>14 DEF RetryRow, RunSettles, PageType, AskedKeyExists, pageVars, netVars, budgetVars
<1>15. CASE DrainBegins
  BY <1>15 DEF DrainBegins, PageType, AskedKeyExists, pageVars, netVars
<1>16. CASE ServerRestarts
  BY <1>16 DEF ServerRestarts, PageType, AskedKeyExists, pageVars, budgetVars
<1>17. CASE UNCHANGED intakeVars
  BY <1>17 DEF intakeVars, PageType, AskedKeyExists, pageVars, netVars, serverVars, budgetVars
<1> QED
  BY <1>1, <1>3, <1>4, <1>5, <1>6, <1>7, <1>8, <1>9, <1>10, <1>11, <1>12, <1>13, <1>14,
     <1>15, <1>16, <1>17 DEF IntakeNext, PageStep, ServerStep, BootGoesOn

(* The request that is posted has a key and a context.                      *)
LEMMA PostedRequest ==
  ASSUME IntakeInv, Posted
  PROVE  /\ frozen.key \in 1 .. typed
         /\ frozen'.ctx \in Nat /\ frozen'.ctx # 0
         /\ frozen # Nothing
<1>1. frozen.key \in 1 .. typed /\ frozen # Nothing
  BY DEF IntakeInv, IntakeTypeOK, Posted, FrozenAgrees, Nothing
<1>2. frozen'.ctx \in Nat /\ frozen'.ctx # 0
  BY <1>1 DEF IntakeInv, IntakeTypeOK, Posted, FrozenAgrees
<1> QED
  BY <1>1, <1>2

(* What is on the wire, in the rows and in the answers.                     *)
ServerType ==
  /\ wire \subseteq Request
  /\ replies \subseteq Reply
  /\ answered \subseteq Reply
  /\ rows \in Seq(Turn)
  /\ accepted \in [Key -> [body : Body, row : 0 .. Len(rows)]]

LEMMA ServerTypeStep ==
  IntakeInv /\ [IntakeNext]_intakeVars => ServerType' /\ Len(rows') >= Len(rows)
<1> SUFFICES ASSUME IntakeInv, [IntakeNext]_intakeVars
             PROVE  ServerType' /\ Len(rows') >= Len(rows)
  OBVIOUS
<1>0. ServerType /\ IntakeTypeOK
  BY DEF IntakeInv, IntakeTypeOK, ServerType, Turn
<1> USE <1>0, RowFacts
<1>1. CASE RowsOnly
  BY <1>1 DEF RowsOnly, RowsKept, ServerType
<1>2. ASSUME NEW q \in wire, NEW status \in Statuses, NEW row \in Nat, AnswerPost(q, status, row)
      PROVE  wire' \subseteq Request /\ replies' \subseteq Reply /\ answered' \subseteq Reply
  <2>1. [n |-> q.n, key |-> q.key, status |-> status, row |-> row] \in Reply
    BY DEF Reply, ServerType, Request
  <2> QED
    BY <1>2, <2>1 DEF AnswerPost, ServerType
<1>3. ASSUME NEW q \in wire, Created(q) PROVE ServerType' /\ Len(rows') >= Len(rows)
  <2>1. /\ [key |-> q.key, body |-> q.body, active |-> TRUE] \in Turn
        /\ q.key \in Key /\ q.body \in Body
    BY DEF Turn, ServerType, Request
  <2>2. rows' \in Seq(Turn) /\ Len(rows') = Len(rows) + 1
    BY <1>3, <2>1 DEF Created
  <2>3. [body |-> q.body, row |-> Len(rows) + 1] \in [body : Body, row : 0 .. Len(rows')]
    BY <2>1, <2>2
  <2>4. \A k \in Key : accepted[k] \in [body : Body, row : 0 .. Len(rows')]
    BY <2>2 DEF ServerType
  <2>5. accepted' \in [Key -> [body : Body, row : 0 .. Len(rows')]]
    BY <1>3, <2>3, <2>4 DEF Created, ServerType
  <2>6. wire' \subseteq Request /\ replies' \subseteq Reply /\ answered' \subseteq Reply
    BY <1>2, <1>3 DEF Created, Statuses
  <2> QED
    BY <2>2, <2>5, <2>6 DEF ServerType
<1>4. ASSUME NEW q \in wire, Repeated(q) PROVE ServerType' /\ Len(rows') >= Len(rows)
  <2>1. accepted[q.key].row \in Nat
    BY DEF ServerType, Request
  <2> QED
    BY <1>2, <1>4, <2>1 DEF Repeated, Statuses, ServerType
<1>5. ASSUME NEW q \in wire, Refused(q) PROVE ServerType' /\ Len(rows') >= Len(rows)
  BY <1>2, <1>5 DEF Refused, ServerType
<1>6. CASE Posted
  <2>1. frozen.key \in Key /\ frozen'.ctx \in Nat
    <3>1. frozen.key \in 1 .. typed /\ frozen'.ctx \in Nat
      BY <1>6, PostedRequest
    <3>2. typed \in 0 .. MaxMessages
      BY DEF IntakeTypeOK
    <3> QED
      BY <3>1, <3>2, IntakeAssumption DEF Key
  <2>2. [n |-> sent + 1, key |-> frozen.key,
         body |-> [msg |-> frozen.key, ctx |-> frozen'.ctx]] \in Request
    <3>1. sent + 1 \in Sends
      <4>1. sent \in 0 .. MaxSends /\ sent < MaxSends
        BY <1>6 DEF Posted, IntakeTypeOK
      <4> HIDE <1>0
      <4> QED
        BY <4>1, IntakeAssumption DEF Sends
    <3>2. [msg |-> frozen.key, ctx |-> frozen'.ctx] \in Body
      BY <2>1, IntakeAssumption DEF Body, Key
    <3> QED
      BY <2>1, <3>1, <3>2 DEF Request
  <2> QED
    BY <1>6, <2>2 DEF Posted, ServerType
<1> QED
  BY <1>1, <1>3, <1>4, <1>5, <1>6, StepEffect

-----------------------------------------------------------------------------
(* The ledger.                                                              *)

(* A request on the wire carries the message of its key, and a stored       *)
(* response under that key has its body.                                    *)
LEMMA WireBodies ==
  ASSUME IntakeInv, NEW q \in wire
  PROVE  /\ q.key \in Key /\ q.body \in Body
         /\ q.body.msg = q.key
         /\ q.key <= typed
         /\ accepted[q.key].row # 0 => accepted[q.key].body = q.body
<1>1. q.key \in Key /\ q.body \in Body
  BY DEF IntakeInv, IntakeTypeOK, Request
<1>2. Sent(q.key, q.body)
  BY DEF Sent
<1>3. accepted[q.key].body \in Body
  BY <1>1, RowFacts DEF IntakeInv
<1>4. accepted[q.key].row # 0 => Sent(q.key, accepted[q.key].body)
  BY DEF Sent
<1> QED
  BY <1>1, <1>2, <1>3, <1>4 DEF IntakeInv, OneBodyPerKey

LEMMA LedgerStep == IntakeInv /\ [IntakeNext]_intakeVars => Ledger'
<1> SUFFICES ASSUME IntakeInv, [IntakeNext]_intakeVars PROVE Ledger'
  OBVIOUS
<1>0. /\ Ledger /\ IntakeTypeOK /\ ServerType'
      /\ answered \subseteq Reply
      /\ accepted \in [Key -> [body : Body, row : 0 .. Len(rows)]]
  BY ServerTypeStep DEF IntakeInv, IntakeTypeOK
<1> USE <1>0, RowFacts
<1>1. CASE RowsOnly
  BY <1>1 DEF RowsOnly, RowsKept, Ledger, Turn
<1>2. ASSUME NEW q \in wire, Created(q) PROVE Ledger'
  <2> USE WireBodies
  <2>1. /\ Len(rows') = Len(rows) + 1
        /\ \A i \in 1 .. Len(rows) : rows'[i] = rows[i]
        /\ rows'[Len(rows) + 1].key = q.key
    BY <1>2 DEF Created
  <2>2. /\ accepted'[q.key].row = Len(rows) + 1
        /\ \A k \in Key \ {q.key} : accepted'[k] = accepted[k]
    BY <1>2 DEF Created
  <2>3. \A i \in 1 .. Len(rows) : rows[i].key # q.key /\ rows[i].key \in Key
    BY <1>2 DEF Created, Ledger, Turn
  <2>4. \A i \in 1 .. Len(rows') : accepted'[rows'[i].key].row = i
    BY <2>1, <2>2, <2>3 DEF Ledger
  <2>5. \A k \in Key : accepted'[k].row # 0 => rows'[accepted'[k].row].key = k /\ k \notin Invalid
    <3> SUFFICES ASSUME NEW k \in Key, accepted'[k].row # 0
                 PROVE  rows'[accepted'[k].row].key = k /\ k \notin Invalid
      OBVIOUS
    <3>1. CASE k = q.key
      BY <1>2, <2>1, <2>2, <3>1 DEF Created
    <3>2. CASE k # q.key
      <4>1. accepted'[k] = accepted[k] /\ accepted[k].row \in 1 .. Len(rows)
        BY <2>2, <3>2
      <4> QED
        BY <2>1, <4>1 DEF Ledger
    <3> QED
      BY <3>1, <3>2
  <2>6. \A r \in answered : r.status = "accepted" => accepted[r.key].row # 0 /\ r.key # q.key
    BY <1>2 DEF Ledger, Created
  <2>7. \A r \in answered : r.key \in Key
    BY DEF Reply
  <2> QED
    BY <1>2, <2>2, <2>4, <2>5, <2>6, <2>7 DEF Created, AnswerPost, Ledger
<1>3. ASSUME NEW q \in wire, Repeated(q) PROVE Ledger'
  BY <1>3 DEF Repeated, AnswerPost, Ledger
<1>4. ASSUME NEW q \in wire, Refused(q) PROVE Ledger'
  BY <1>4, WireBodies DEF Refused, AnswerPost, Ledger
<1>5. CASE Posted
  BY <1>5 DEF Posted, Ledger
<1> QED
  BY <1>1, <1>2, <1>3, <1>4, <1>5, StepEffect

(* The Run the page follows exists, and so does the one boot found.         *)
RunsExist == ownRun \in 0 .. Len(rows) /\ boot.run \in 0 .. Len(rows)

LEMMA OwnRunStep == IntakeInv /\ [IntakeNext]_intakeVars => RunsExist'
<1> SUFFICES ASSUME IntakeInv, [IntakeNext]_intakeVars
             PROVE  ownRun' \in 0 .. Len(rows') /\ boot'.run \in 0 .. Len(rows')
  BY DEF RunsExist
<1>0. /\ IntakeTypeOK /\ Len(rows') >= Len(rows) /\ Len(rows') \in Nat
      /\ ownRun \in 0 .. Len(rows) /\ boot.run \in 0 .. Len(rows)
      /\ replies \subseteq Reply
  BY ServerTypeStep, LenProperties DEF IntakeInv, IntakeTypeOK, ServerType
<1> USE <1>0, RowFacts
<1>1. CASE /\ ownRun' \in {ownRun, 0} \/ ownRun' \in DOMAIN rows
           /\ UNCHANGED boot \/ boot' = BootFrom(storedKey)
  BY <1>1 DEF BootFrom
<1>2. ASSUME NEW r \in replies, ReplyArrives(r)
      PROVE  ownRun' \in 0 .. Len(rows') /\ boot'.run \in 0 .. Len(rows')
  <2>1. r.status = "accepted" => r.row \in 0 .. Len(rows)
    BY DEF IntakeInv, Ledger, Reply
  <2>2. (ownRun' = ownRun \/ (r.status = "accepted" /\ ownRun' = r.row)) /\ UNCHANGED boot
    BY <1>2 DEF ReplyArrives
  <2> QED
    BY <2>1, <2>2
<1>3. CASE BootGoesOn
  <2>1. PICK at \in BootSteps \ {"asking"}, i \in 0 .. Len(rows) :
          BootMoves([boot EXCEPT !.at = at, !.run = i])
    BY <1>3, BootStep
  <2>2. boot'.run = i
    BY <2>1 DEF BootMoves, IntakeTypeOK
  <2>3. ownRun' \in {ownRun, boot.run}
    BY <1>3, BootStep
  <2> QED
    BY <2>2, <2>3
<1>4. CASE PageStep
  BY <1>1, <1>2, <1>3, <1>4 DEF PageStep, SendFresh, ContextFetched, NothingToPost, Resend, Post,
     NetworkFails, FollowEnds, ReloadPage, BootGoesOn, ContextChanges, pageVars
<1>5. CASE ServerStep \/ UNCHANGED intakeVars
  BY <1>1, <1>5 DEF ServerStep, Serve, Lose, RetryRow, RunSettles, DrainBegins, ServerRestarts,
     intakeVars, pageVars
<1> QED
  BY <1>4, <1>5 DEF IntakeNext

-----------------------------------------------------------------------------
(* A key and its body.                                                      *)

(* Unless a request is posted, nothing new was sent.                        *)
LEMMA SentShrinks ==
  ASSUME IntakeInv, [IntakeNext]_intakeVars, ~ Posted, NEW k \in Key, NEW b \in Body, Sent(k, b)'
  PROVE  Sent(k, b)
<1>0. IntakeTypeOK /\ accepted \in [Key -> [body : Body, row : 0 .. Len(rows)]]
  BY DEF IntakeInv, IntakeTypeOK
<1>1. CASE RowsOnly
  BY <1>1 DEF RowsOnly, Sent
<1>2. ASSUME NEW q \in wire, Created(q) PROVE Sent(k, b)
  <2>1. q.key \in Key
    BY WireBodies
  <2>2. CASE k = q.key
    BY <1>0, <1>2, <2>1, <2>2 DEF Created, AnswerPost, Sent
  <2>3. CASE k # q.key
    <3>1. accepted'[k] = accepted[k]
      BY <1>0, <1>2, <2>3 DEF Created
    <3> QED
      BY <1>2, <3>1 DEF Created, AnswerPost, Sent
  <2> QED
    BY <2>2, <2>3
<1>3. ASSUME NEW q \in wire, Repeated(q) \/ Refused(q) PROVE Sent(k, b)
  BY <1>3 DEF Repeated, Refused, AnswerPost, Sent
<1> QED
  BY <1>0, <1>1, <1>2, <1>3, StepEffect

(* A posted request adds itself.                                            *)
LEMMA SentGrows ==
  ASSUME IntakeInv, Posted, NEW k \in Key, NEW b \in Body
  PROVE  Sent(k, b)' => Sent(k, b) \/ (k = frozen.key /\ b = [msg |-> frozen.key, ctx |-> frozen'.ctx])
  BY DEF Posted, Sent

(* What was already sent under the posted key is what is posted.            *)
LEMMA PostedAgrees ==
  ASSUME IntakeInv, Posted, NEW b \in Body, Sent(frozen.key, b)
  PROVE  b = [msg |-> frozen.key, ctx |-> frozen'.ctx]
<1>1. frozen.key \in Key /\ frozen # Nothing
  <2>1. frozen.key \in 1 .. typed /\ frozen # Nothing /\ typed \in 0 .. MaxMessages
    BY PostedRequest DEF IntakeInv, IntakeTypeOK
  <2> QED
    BY <2>1, IntakeAssumption DEF Key
<1>2. b.msg = frozen.key
  BY <1>1 DEF IntakeInv, OneBodyPerKey
<1>3. frozen.ctx # 0 /\ phase # "freezing"
  BY <1>1 DEF IntakeInv, FrozenAgrees
<1>4. b.ctx = frozen.ctx /\ frozen'.ctx = frozen.ctx
  BY <1>1, <1>3 DEF IntakeInv, FrozenAgrees, Posted
<1> QED
  BY <1>2, <1>4 DEF Body

(* A step types the next message, posts, lets go of the frozen request or   *)
(* keeps it.                                                                *)
FrozenKept ==
  /\ UNCHANGED <<typed, frozen>>
  /\ phase' = phase \/ (phase # "freezing" /\ phase' # "freezing") \/ frozen = Nothing

FrozenDropped == UNCHANGED typed /\ frozen' = Nothing

LEMMA FrozenEffect ==
  ASSUME IntakeInv, [IntakeNext]_intakeVars
  PROVE  FrozenKept \/ SendFresh \/ FrozenDropped \/ Posted
<1>1. CASE ContextFetched \/ Resend
  BY <1>1 DEF ContextFetched, Resend, SendAllowed, Post, Posted, serverVars, IntakeInv, IntakeTypeOK
<1>2. CASE NothingToPost \/ NetworkFails \/ FollowEnds
  BY <1>2 DEF FrozenKept, NothingToPost, NetworkFails, FollowEnds
<1>3. ASSUME NEW r \in replies, ReplyArrives(r) PROVE FrozenKept \/ FrozenDropped
  <2>1. phase = "posting" /\ phase' = "idle" /\ UNCHANGED typed
    BY <1>3 DEF ReplyArrives
  <2>2. frozen' = Nothing \/ UNCHANGED frozen
    BY <1>3 DEF ReplyArrives, DropFrozen
  <2> QED
    BY <2>1, <2>2 DEF FrozenKept, FrozenDropped
<1>4. CASE ReloadPage
  BY <1>4 DEF ReloadPage, FrozenDropped
<1>8. CASE BootGoesOn
  <2>1. UNCHANGED <<typed, phase>>
    BY <1>8, BootStep DEF BootMoves
  <2> QED
    BY <1>8, <2>1, BootStep DEF FrozenKept, FrozenDropped
<1>5. CASE ContextChanges \/ DrainBegins \/ ServerRestarts \/ UNCHANGED intakeVars
  BY <1>5 DEF ContextChanges, DrainBegins, ServerRestarts, intakeVars, pageVars, FrozenKept
<1>6. ASSUME NEW q \in wire, Serve(q) \/ Lose(q) PROVE FrozenKept
  BY <1>6 DEF Serve, Lose, pageVars, FrozenKept
<1>7. ASSUME NEW i \in DOMAIN rows, RetryRow(i) \/ RunSettles(i) PROVE FrozenKept
  BY <1>7 DEF RetryRow, RunSettles, pageVars, FrozenKept
<1> QED
  BY <1>1, <1>2, <1>3, <1>4, <1>5, <1>6, <1>7, <1>8 DEF IntakeNext, PageStep, ServerStep, BootGoesOn

LEMMA BodyStep == IntakeInv /\ [IntakeNext]_intakeVars => OneBodyPerKey'
<1> SUFFICES ASSUME IntakeInv, [IntakeNext]_intakeVars,
                    NEW k \in Key, NEW b \in Body, Sent(k, b)'
             PROVE  /\ k <= typed' /\ b.msg = k
                    /\ \A c \in Body : Sent(k, c)' => c = b
  BY DEF OneBodyPerKey
<1>0. typed \in Nat /\ typed' \in Nat /\ typed' >= typed /\ Key \subseteq Nat
  <2>1. typed \in Nat /\ Key \subseteq Nat
    BY IntakeAssumption DEF IntakeInv, IntakeTypeOK, Key
  <2>2. typed' = typed \/ typed' = typed + 1
    BY FrozenEffect DEF FrozenKept, FrozenDropped, SendFresh, Posted
  <2> QED
    BY <2>1, <2>2
<1>1. CASE ~ Posted
  <2>1. Sent(k, b)
    BY <1>1, SentShrinks
  <2>2. \A c \in Body : Sent(k, c)' => Sent(k, c)
    BY <1>1, SentShrinks
  <2> QED
    BY <1>0, <2>1, <2>2 DEF IntakeInv, OneBodyPerKey
<1>2. CASE Posted
  <2> DEFINE mine == [msg |-> frozen.key, ctx |-> frozen'.ctx]
  <2>1. frozen.key \in 1 .. typed /\ mine \in Body
    BY <1>2, PostedRequest, <1>0 DEF Body
  <2>2. \A c \in Body : Sent(k, c)' => Sent(k, c) \/ (k = frozen.key /\ c = mine)
    BY <1>2, SentGrows
  <2>3. k = frozen.key => \A c \in Body : Sent(k, c) => c = mine
    BY <1>2, PostedAgrees
  <2>4. CASE k = frozen.key
    BY <1>0, <1>2, <2>1, <2>2, <2>3, <2>4 DEF Posted
  <2>5. CASE k # frozen.key
    BY <1>0, <2>2, <2>5 DEF IntakeInv, OneBodyPerKey
  <2> QED
    BY <2>4, <2>5
<1> QED
  BY <1>1, <1>2

LEMMA FrozenStep == IntakeInv /\ [IntakeNext]_intakeVars => FrozenAgrees'
<1> SUFFICES ASSUME IntakeInv, [IntakeNext]_intakeVars PROVE FrozenAgrees'
  OBVIOUS
<1>0. /\ typed \in 0 .. MaxMessages /\ FrozenAgrees /\ PageType'
      /\ frozen \in [key : 0 .. MaxMessages, ctx : Nat]
  BY PageTypeStep DEF IntakeInv, IntakeTypeOK
<1> USE IntakeAssumption
<1>1. CASE FrozenKept /\ ~ Posted
  <2>1. frozen # Nothing => frozen.key \in Key
    BY <1>0 DEF FrozenAgrees, Key
  <2>2. frozen # Nothing => \A b \in Body : Sent(frozen.key, b)' => Sent(frozen.key, b)
    <3> SUFFICES ASSUME frozen # Nothing, NEW b \in Body, Sent(frozen.key, b)'
                 PROVE  Sent(frozen.key, b)
      OBVIOUS
    <3>1. PICK k \in Key : k = frozen.key /\ k = frozen'.key
      BY <1>1, <2>1 DEF FrozenKept
    <3>2. Sent(k, b)'
      BY <3>1 DEF Sent
    <3>3. Sent(k, b)
      BY <1>1, <3>2, SentShrinks
    <3> QED
      BY <3>1, <3>3
  <2> QED
    BY <1>0, <1>1, <2>2 DEF FrozenKept, FrozenAgrees
<1>2. CASE SendFresh
  <2>1. PICK k \in Key : k = typed + 1
    BY <1>0, <1>2 DEF SendFresh, Key
  <2>2. frozen' = [key |-> k, ctx |-> 0] /\ phase' = "freezing" /\ typed' = k
    BY <1>2, <2>1 DEF SendFresh
  <2>3. ASSUME NEW b \in Body PROVE ~ Sent(k, b)'
    <3>1. ~ Sent(k, b)
      BY <1>0, <2>1 DEF IntakeInv, OneBodyPerKey
    <3>2. UNCHANGED <<wire, accepted>>
      BY <1>2 DEF SendFresh, netVars, serverVars
    <3> QED
      BY <3>1, <3>2 DEF Sent
  <2>4. \A b \in Body : ~ Sent(frozen.key, b)'
    BY <2>2, <2>3 DEF Sent
  <2> QED
    BY <1>0, <2>1, <2>2, <2>4 DEF FrozenAgrees, Key
<1>3. CASE FrozenDropped
  BY <1>3 DEF FrozenDropped, FrozenAgrees
<1>4. CASE Posted
  <2>1. PICK k \in Key : k = frozen.key /\ k \in 1 .. typed
    <3>1. frozen.key \in 1 .. typed
      BY <1>4, PostedRequest
    <3> QED
      BY <1>0, <3>1 DEF Key
  <2>2. frozen' = [key |-> k, ctx |-> frozen'.ctx] /\ phase' = "posting" /\ typed' = typed
    BY <1>4, <2>1 DEF Posted
  <2>3. frozen'.ctx # 0
    BY <1>4, PostedRequest
  <2>4. ASSUME NEW b \in Body, Sent(k, b)' PROVE b.ctx = frozen'.ctx
    <3>1. Sent(k, b) => b = [msg |-> frozen.key, ctx |-> frozen'.ctx]
      BY <1>4, <2>1, PostedAgrees
    <3>2. Sent(k, b) \/ b = [msg |-> frozen.key, ctx |-> frozen'.ctx]
      BY <1>4, <2>4, SentGrows
    <3> QED
      BY <3>1, <3>2
  <2>5. \A b \in Body : Sent(frozen.key, b)' => b.ctx = frozen'.ctx
    BY <2>2, <2>4 DEF Sent
  <2> QED
    BY <2>1, <2>2, <2>3, <2>5 DEF FrozenAgrees
<1> QED
  BY <1>1, <1>2, <1>3, <1>4, FrozenEffect

-----------------------------------------------------------------------------
(* The theorems.                                                            *)

LEMMA IntakeInitInv == IntakeInit => IntakeInv
<1> SUFFICES ASSUME IntakeInit PROVE IntakeInv
  OBVIOUS
<1>1. rows = << >> /\ Len(rows) = 0 /\ rows \in Seq(Turn)
  BY DEF IntakeInit
<1>2. \A k \in Key : accepted[k].row = 0
  BY DEF IntakeInit, NotStored
<1>3. accepted \in [Key -> [body : Body, row : 0 .. Len(rows)]]
  BY <1>1 DEF IntakeInit, NotStored, Body
<1>4. IntakeTypeOK
  <2>1. Nothing \in [key : 0 .. MaxMessages, ctx : Nat]
    BY IntakeAssumption DEF Nothing
  <2>2. /\ 0 \in 0 .. MaxMessages /\ 0 \in 0 .. MaxSends /\ 0 \in 0 .. MaxReloads
        /\ 0 \in 0 .. MaxStops /\ 0 \in 0 .. Len(rows)
    BY <1>1, IntakeAssumption
  <2>3. boot \in [at : BootSteps, key : 0 .. MaxMessages, run : 0 .. Len(rows)]
    BY <2>2 DEF IntakeInit, BootFrom, BootSteps
  <2> QED
    BY <1>1, <1>3, <2>1, <2>2, <2>3 DEF IntakeInit, IntakeTypeOK, Turn
<1>5. \A k \in Key : \A b \in Body : ~ Sent(k, b)
  BY <1>2 DEF IntakeInit, Sent
<1>6. OneBodyPerKey
  BY <1>5 DEF OneBodyPerKey
<1>7. FrozenAgrees /\ AskedKeyExists
  BY DEF IntakeInit, BootFrom, FrozenAgrees, AskedKeyExists
<1>8. Ledger
  BY <1>1, <1>2 DEF IntakeInit, Ledger
<1> QED
  BY <1>4, <1>6, <1>7, <1>8 DEF IntakeInv, IntakeInit

(* The invariant holds of every behaviour of the page and the server.       *)
THEOREM IntakeInvariance == IntakeSpec => []IntakeInv
<1>1. IntakeInv /\ [IntakeNext]_intakeVars => IntakeInv'
  <2> SUFFICES ASSUME IntakeInv, [IntakeNext]_intakeVars PROVE IntakeInv'
    OBVIOUS
  <2>1. PageType' /\ AskedKeyExists' /\ ServerType' /\ RunsExist'
    BY PageTypeStep, ServerTypeStep, OwnRunStep
  <2>2. IntakeTypeOK' /\ (context # 0)'
    BY <2>1 DEF IntakeTypeOK, PageType, ServerType, RunsExist, Turn
  <2> QED
    BY <2>1, <2>2, BodyStep, FrozenStep, LedgerStep DEF IntakeInv
<1> QED
  BY <1>1, IntakeInitInv, PTL DEF IntakeSpec

(* The variables of the intake have their types.                            *)
THEOREM IntakeTypeCorrect == IntakeSpec => []IntakeTypeOK
<1>1. IntakeInv => IntakeTypeOK
  BY DEF IntakeInv
<1> QED
  BY <1>1, IntakeInvariance, PTL

(* A key makes one Turn, every acceptance of it names that Turn, no resend  *)
(* conflicts and a refused request made nothing, whatever is lost, late,    *)
(* repeated, reloaded or restarted (postMessage and the frozen request).    *)
THEOREM IntakeSound == IntakeSpec => []IntakeSafe
<1>1. IntakeInv => IntakeSafe
  <2> SUFFICES ASSUME IntakeInv PROVE IntakeSafe
    OBVIOUS
  <2>0. Ledger /\ IntakeTypeOK /\ answered \subseteq Reply
    BY DEF IntakeInv, IntakeTypeOK
  <2> USE <2>0, RowFacts
  <2>1. OneTurnPerKey
    BY DEF OneTurnPerKey, Ledger
  <2>2. RepliesAgree
    BY DEF RepliesAgree, Ledger, Reply
  <2>3. NeverConflicts
    BY DEF NeverConflicts, Ledger
  <2>4. RefusedMadeNothing
    BY DEF RefusedMadeNothing, Ledger, Reply
  <2> QED
    BY <2>1, <2>2, <2>3, <2>4 DEF IntakeSafe
<1> QED
  BY <1>1, IntakeInvariance, PTL

-----------------------------------------------------------------------------
(* The authority of trials.                                                 *)

-----------------------------------------------------------------------------
(* The order of the queue.                                                  *)

(* A set of numbers has a least one.                                        *)
LEMMA HasLeast ==
  ASSUME NEW S, S \subseteq Nat, S # {}
  PROVE  \E e \in S : \A x \in S : e <= x
<1> DEFINE R == OpToRel(<, Nat)
<1>1. IsWellFoundedOn(R, Nat)
  BY NatLessThanWellFounded, Zenon
<1>2. \A a, b \in Nat : <<a, b>> \in R <=> a < b
  BY DEF OpToRel
<1> HIDE DEF R
<1>3. PICK e \in S : \A x \in S : ~(<<x, e>> \in R)
  BY <1>1, WFMin
<1>4. \A x \in S : e <= x
  <2> SUFFICES ASSUME NEW x \in S PROVE e <= x
    OBVIOUS
  <2>1. e \in Nat /\ x \in Nat
    OBVIOUS
  <2>2. ~(x < e)
    BY <1>2, <1>3, <2>1
  <2> QED
    BY <2>1, <2>2
<1> QED
  BY <1>4

(* The runner picks a row of its page.                                      *)
LEMMA OldestIsThere ==
  ASSUME NEW S \in SUBSET TrialExecs, S # {}
  PROVE  Oldest(S) \in S
<1>1. \E e \in S : \A x \in S : e <= x
  BY HasLeast, TrialAssumption
<1> QED
  BY <1>1 DEF Oldest

-----------------------------------------------------------------------------
(* The inductive invariant.                                                 *)

(* Where the runner looks after an execution it has claimed.                *)
Attended == {"starting", "identity", "waiting", "permit", "running", "settling",
             "reap", "leave"}

Unpermitted == {"starting", "identity", "waiting", "permit", "reap"}

(* The place of the runner agrees with the rows of its execution, recovery  *)
(* lists started workers only, and a server that is down has no runner.     *)
RunnerPlaced ==
  /\ runner.pc \in Attended \union {"resolve"} => runner.exec \in TrialExecs
  /\ runner.pc \in Attended => trial[runner.exec].grant \notin {"none", "queued"}
  /\ runner.pc \in Unpermitted => ~trial[runner.exec].permit
  /\ runner.pc \in {"running", "settling"} => trial[runner.exec].permit
  /\ runner.pc = "recover" => \A e \in runner.page : trial[e].boot
  /\ host = "down" <=> runner.pc = "down"

(* The runner has e in its hands.                                           *)
Attends(e) == runner.pc \in Attended /\ runner.exec = e

(* A stop that reached a live grant ended it, or left a mark the end of the *)
(* claim must see, or nobody works for the claim any more.                  *)
StopHeld(e) ==
  \/ trial[e].grant \in {"revoked", "interrupted"}
  \/ trial[e].grant = "claimed" /\ (trial[e].cancel \/ ~Attends(e))

(* The rows of one execution.                                               *)
Agree(r) ==
  /\ r.grant # "none" => r.prop = "granted"
  /\ r.permit => r.boot
  /\ r.boot => r.grant \notin {"none", "queued"}
  /\ r.outcome # "none" => r.grant \in {"consumed", "interrupted", "revoked"}
  /\ r.grant = "interrupted" => r.outcome \in {"observed", "quiescent"}
  /\ (r.outcome = "done") <=> (r.grant = "consumed")
  /\ r.grant = "consumed" => r.permit /\ ~r.cancel

(* A permitted launch whose claim ended left nothing running.               *)
EndedIsGone(e) ==
  trial[e].grant \in {"consumed", "interrupted"} /\ trial[e].permit => work[e].scope = "gone"

(* A permitted launch that may still run is in the hands of the runner or   *)
(* of recovery, is fenced or slipped, or waits for the server to come back. *)
Accounted(e) ==
  trial[e].permit /\ work[e].scope # "gone" =>
    \/ Attends(e) \/ e \in fences \union slipped \/ runner.pc = "down"
    \/ runner.pc = "recover" /\ e \in runner.page

(* The runner works on an alias without a fence.                            *)
Unfenced == runner.pc \in Attended => fences = {}

TrialInv ==
  /\ TrialTypeOK
  /\ \A e \in TrialExecs : Agree(trial[e]) /\ EndedIsGone(e) /\ Accounted(e)
  /\ \A e \in halted : StopHeld(e)
  /\ RunnerPlaced /\ Unfenced

-----------------------------------------------------------------------------
(* What a step does to the rows of e.                                       *)

Granting(r, s) ==
  \E v \in Nat : /\ r.prop \in {"none", "staged"} /\ r.grant = "none"
                 /\ s = [r EXCEPT !.prop = "granted", !.grant = "queued", !.gen = v]

Revoking(r, s) ==
  r.grant = "claimed" /\ s = [r EXCEPT !.grant = "revoked", !.cancel = TRUE]

Claiming(r, s) ==
  \E v \in Nat : /\ r.grant = "queued"
                 /\ s = [r EXCEPT !.grant = "claimed", !.gen = v]

Abandoning(r, s) ==
  \E v \in Nat : /\ r.grant = "queued"
                 /\ s = Quiesce([r EXCEPT !.grant = "claimed", !.gen = v])

Booting(r, s) == r.grant = "claimed" /\ s = [r EXCEPT !.boot = TRUE]

Permitting(r, s) ==
  r.grant = "claimed" /\ r.boot /\ s = [r EXCEPT !.permit = TRUE]

Recording(r, s) ==
  /\ r.permit /\ r.outcome = "none"
  /\ \/ /\ r.grant = "claimed" /\ ~r.cancel
        /\ s = [r EXCEPT !.outcome = "done", !.grant = "consumed"]
     \/ r.grant = "claimed" /\ s = [r EXCEPT !.outcome = "observed", !.grant = "interrupted"]
     \/ r.grant = "revoked" /\ s = [r EXCEPT !.outcome = "observed"]

RowEffect(e) ==
  LET r == trial[e]
      s == trial'[e]
  IN  \/ s = r
      \/ r.prop = "none" /\ s = [r EXCEPT !.prop = "staged"]
      \/ s = Expire(r)
      \/ s = Invalidate(r)
      \/ Granting(r, s)
      \/ Revoking(r, s)
      \/ Claiming(r, s) /\ runner.pc = "resolve" /\ runner.exec = e
      \/ Abandoning(r, s)
      \/ Booting(r, s)
      \/ /\ Permitting(r, s) /\ runner.pc = "permit" /\ runner.exec = e
         /\ runner'.pc \in {"running", "leave"}
      \/ Recording(r, s) /\ work[e].scope = "gone" /\ Attends(e)
      \/ /\ r.grant \notin {"none", "queued"} /\ s = Quiesce(r)
         /\ r.permit => work[e].scope = "gone"

(* Every such move keeps the rows in agreement.                             *)
LEMMA RowMoveAgrees ==
  ASSUME NEW r \in Rows, NEW s, Agree(r),
         \/ s = r
         \/ r.prop = "none" /\ s = [r EXCEPT !.prop = "staged"]
         \/ s = Expire(r) \/ s = Invalidate(r)
         \/ Granting(r, s) \/ Revoking(r, s) \/ Claiming(r, s) \/ Abandoning(r, s)
         \/ Booting(r, s) \/ Permitting(r, s) \/ Recording(r, s)
         \/ r.grant \notin {"none", "queued"} /\ s = Quiesce(r)
  PROVE  s \in Rows /\ Agree(s)
<1> USE DEF Rows, Agree
<1>1. CASE s = r \/ (r.prop = "none" /\ s = [r EXCEPT !.prop = "staged"])
  BY <1>1
<1>2. CASE s = Expire(r)
  BY <1>2 DEF Expire
<1>3. CASE s = Invalidate(r)
  BY <1>3 DEF Invalidate
<1>4. CASE Granting(r, s)
  BY <1>4 DEF Granting
<1>5. CASE Revoking(r, s)
  BY <1>5 DEF Revoking
<1>6. CASE Claiming(r, s)
  BY <1>6 DEF Claiming
<1>7. CASE Abandoning(r, s)
  BY <1>7 DEF Abandoning, Quiesce
<1>8. CASE Booting(r, s) \/ Permitting(r, s)
  BY <1>8 DEF Booting, Permitting
<1>9. CASE Recording(r, s)
  BY <1>9 DEF Recording
<1>10. CASE r.grant \notin {"none", "queued"} /\ s = Quiesce(r)
  BY <1>10 DEF Quiesce
<1> QED
  BY <1>1, <1>2, <1>3, <1>4, <1>5, <1>6, <1>7, <1>8, <1>9, <1>10

(* The owner's commands move rows in these ways.                            *)
LEMMA OwnerRows ==
  ASSUME TrialInv, OwnerStep, NEW x \in TrialExecs
  PROVE  RowEffect(x)
<1> USE DEF TrialInv, TrialTypeOK
<1>0. control.version \in Nat /\ trial[x] \in Rows
  OBVIOUS
<1>1. CASE SetControl
  <2>1. trial'[x] = trial[x] \/ Revoking(trial[x], trial'[x])
    BY <1>1 DEF SetControl, Revoking
  <2> QED
    BY <2>1 DEF RowEffect
<1>2. ASSUME NEW e \in TrialExecs,
             \/ StageTrial(e) \/ ApproveTrial(e) \/ DeriveGrant(e) \/ ExpireTrial(e)
             \/ EditScope(e) \/ Lapse(e) \/ PolicyChanges(e)
      PROVE  RowEffect(x)
  <2>1. CASE x # e
    <3>1. trial'[x] = trial[x]
      BY <1>2, <2>1 DEF StageTrial, ApproveTrial, DeriveGrant, ExpireTrial, EditScope, Lapse,
         PolicyChanges
    <3> QED
      BY <3>1 DEF RowEffect
  <2>2. CASE x = e
    <3>1. CASE StageTrial(e)
      BY <2>2, <3>1 DEF StageTrial, RowEffect
    <3>2. CASE ApproveTrial(e)
      <4>1. CASE trial' = [trial EXCEPT ![e].prop = "expired"] /\ trial[e].prop = "staged"
                 /\ trial[e].grant = "none"
        <5>1. trial'[x] = Expire(trial[x])
          BY <1>0, <2>2, <4>1 DEF Expire, Rows
        <5> QED
          BY <5>1 DEF RowEffect
      <4>2. CASE trial' = [trial EXCEPT ![e].prop = "granted", ![e].grant = "queued",
                                        ![e].gen = control.version]
                 /\ trial[e].prop = "staged" /\ trial[e].grant = "none"
        <5>1. trial'[x] = [trial[x] EXCEPT !.prop = "granted", !.grant = "queued",
                                           !.gen = control.version]
          BY <1>0, <2>2, <4>2 DEF Rows
        <5> QED
          BY <1>0, <2>2, <4>2, <5>1 DEF RowEffect, Granting
      <4> QED
        BY <3>2, <4>1, <4>2 DEF ApproveTrial
    <3>3. CASE DeriveGrant(e)
      <4>1. trial'[x] = [trial[x] EXCEPT !.prop = "granted", !.grant = "queued",
                                         !.gen = control.version]
            /\ trial[x].prop = "none"
        BY <1>0, <2>2, <3>3 DEF Rows, DeriveGrant
      <4>2. trial[x].grant = "none"
        BY <4>1 DEF Agree
      <4> QED
        BY <1>0, <4>1, <4>2 DEF RowEffect, Granting
    <3>4. CASE ExpireTrial(e)
      BY <2>2, <3>4 DEF ExpireTrial, RowEffect
    <3>5. CASE EditScope(e) \/ PolicyChanges(e)
      BY <2>2, <3>5 DEF EditScope, PolicyChanges, RowEffect
    <3>6. CASE Lapse(e)
      BY <3>6 DEF Lapse, RowEffect
    <3> QED
      BY <1>2, <3>1, <3>2, <3>3, <3>4, <3>5, <3>6
  <2> QED
    BY <2>1, <2>2
<1> QED
  BY <1>1, <1>2 DEF OwnerStep

(* So do the server's life and recovery.                                    *)
LEMMA LifeRows ==
  ASSUME TrialInv, LifeStep, NEW x \in TrialExecs
  PROVE  RowEffect(x)
<1> USE DEF TrialInv, TrialTypeOK, kernelVars, histories
<1>1. CASE PostMessage \/ ForegroundMoves \/ Shutdown \/ ProcessEnds \/ Recovered
  BY <1>1 DEF PostMessage, ForegroundMoves, Shutdown, ProcessEnds, Recovered, RowEffect
<1>2. CASE RestartServer
  BY <1>2 DEF RestartServer, RowEffect, Revoking
<1>3. ASSUME NEW e \in TrialExecs, RecoverWorker(e)
      PROVE  RowEffect(x)
  <2>1. CASE FenceAlias(e)
    BY <2>1 DEF FenceAlias, RowEffect
  <2>2. CASE work[e].scope = "gone" /\ trial' = [trial EXCEPT ![e] = Quiesce(@)]
    <3>1. CASE x # e
      BY <2>2, <3>1 DEF RowEffect
    <3>2. CASE x = e
      <4>1. trial[x].grant \notin {"none", "queued"}
        BY <1>3, <3>2 DEF RecoverWorker, RunnerPlaced, Agree
      <4> QED
        BY <2>2, <3>2, <4>1 DEF RowEffect
    <3> QED
      BY <3>1, <3>2
  <2>3. CASE Slips(e)
    BY <2>3 DEF Slips, RowEffect
  <2> QED
    BY <1>3, <2>1, <2>2, <2>3 DEF RecoverWorker
<1> QED
  BY <1>1, <1>2, <1>3 DEF LifeStep

(* And the runner.                                                          *)
LEMMA RunnerRows ==
  ASSUME TrialInv, RunnerStep, NEW x \in TrialExecs
  PROVE  RowEffect(x)
<1> USE DEF TrialInv, TrialTypeOK, kernelVars, histories
<1>0. control.version \in Nat /\ trial[x] \in Rows
  OBVIOUS
<1>a. ASSUME NEW e \in TrialExecs, trial' = [trial EXCEPT ![e] = Quiesce(@)],
             trial[e].grant \notin {"none", "queued"}, ~trial[e].permit
      PROVE  RowEffect(x)
  BY <1>a DEF RowEffect
<1>1. CASE PickNext \/ ResolveBlocked \/ AwaitScope \/ PollStops \/ SeeExit
  BY <1>1 DEF PickNext, ResolveBlocked, AwaitScope, PollStops, SeeExit, RowEffect
<1>2. CASE ClaimGrant
  <2>1. PICK e \in TrialExecs : e = runner.exec
    BY <1>2 DEF ClaimGrant, RunnerPlaced
  <2>2. PICK v \in Nat : v = control.version
    OBVIOUS
  <2>3. /\ runner.pc = "resolve" /\ trial[e].grant = "queued"
        /\ \/ trial' = [trial EXCEPT ![e] = [trial[e] EXCEPT !.grant = "claimed", !.gen = v]]
           \/ trial' = [trial EXCEPT
                          ![e] = Quiesce([trial[e] EXCEPT !.grant = "claimed", !.gen = v])]
    BY <1>2, <2>1, <2>2 DEF ClaimGrant, Claimable, AbortClaim
  <2>4. CASE x # e
    BY <2>3, <2>4 DEF RowEffect
  <2>5. CASE x = e
    BY <2>1, <2>3, <2>5 DEF RowEffect, Claiming, Abandoning
  <2> QED
    BY <2>4, <2>5
<1>3. CASE ClaimRefused
  BY <1>3 DEF ClaimRefused, RowEffect
<1>4. CASE SpawnBridge
  <2>1. runner.exec \in TrialExecs /\ trial[runner.exec].grant \notin {"none", "queued"}
        /\ ~trial[runner.exec].permit
    BY <1>4 DEF SpawnBridge, RunnerPlaced, Attended, Unpermitted
  <2>2. trial' = trial \/ trial' = [trial EXCEPT ![runner.exec] = Quiesce(@)]
    BY <1>4, <2>1 DEF SpawnBridge, AbortClaim
  <2> QED
    BY <1>a, <2>1, <2>2 DEF RowEffect
<1>5. CASE RegisterBoot
  <2>1. PICK e \in TrialExecs : e = runner.exec
    BY <1>5 DEF RegisterBoot, RunnerPlaced, Attended
  <2>2. trial' = trial \/ (trial[e].grant = "claimed" /\ trial' = [trial EXCEPT ![e].boot = TRUE])
    BY <1>5, <2>1 DEF RegisterBoot
  <2>3. trial'[x] = trial[x] \/ (x = e /\ trial'[x] = [trial[x] EXCEPT !.boot = TRUE])
    BY ZenonT(60), <2>2
  <2> QED
    BY <2>2, <2>3 DEF RowEffect, Booting
<1>6. CASE IssuePermit
  <2>1. PICK e \in TrialExecs : e = runner.exec
    BY <1>6 DEF IssuePermit, RunnerPlaced, Attended
  <2>2. /\ runner.pc = "permit"
        /\ \/ trial' = trial
           \/ /\ trial[e].grant = "claimed" /\ trial[e].boot
              /\ trial' = [trial EXCEPT ![e].permit = TRUE]
              /\ runner'.pc \in {"running", "leave"}
    BY <1>6, <2>1 DEF IssuePermit, Permittable, Move
  <2>3. trial'[x] = trial[x] \/ (x = e /\ trial'[x] = [trial[x] EXCEPT !.permit = TRUE])
    BY ZenonT(60), <2>2
  <2> QED
    BY <2>1, <2>2, <2>3 DEF RowEffect, Permitting
<1>7. CASE Settle
  <2>1. PICK e \in TrialExecs : e = runner.exec
    BY <1>7 DEF Settle, RunnerPlaced, Attended
  <2>2. trial[e].grant \notin {"none", "queued"} /\ trial[e].permit /\ Attends(e)
    BY <1>7, <2>1 DEF Settle, RunnerPlaced, Attended, Attends
  <2>3. CASE FenceAlias(e)
    BY <2>3 DEF FenceAlias, RowEffect
  <2>4. CASE work[e].scope = "gone" /\ trial' = [trial EXCEPT ![e] = Record(e)]
    <3>1. CASE x # e \/ trial[e].outcome # "none"
      BY <2>4, <3>1 DEF RowEffect, Record
    <3>2. CASE x = e /\ trial[e].outcome = "none"
      <4>1. trial[e].grant \in {"claimed", "revoked"} /\ trial[e] \in Rows
        BY <2>2, <3>2 DEF Agree, Rows
      <4>2. CASE trial[e].grant = "revoked"
        <5>1. Record(e) = [trial[e] EXCEPT !.outcome = "observed"]
          BY <3>2, <4>1, <4>2 DEF Record, Rows
        <5> QED
          BY <2>2, <2>4, <3>2, <4>2, <5>1 DEF RowEffect, Recording
      <4>3. CASE trial[e].grant = "claimed" /\ Judge(e) = "done"
        <5>1. Record(e) = [trial[e] EXCEPT !.outcome = "done", !.grant = "consumed"]
          BY <3>2, <4>1, <4>3 DEF Record, Rows
        <5>2. ~trial[e].cancel
          BY <4>3 DEF Judge
        <5> QED
          BY <2>2, <2>4, <3>2, <4>3, <5>1, <5>2 DEF RowEffect, Recording
      <4>4. CASE trial[e].grant = "claimed" /\ Judge(e) = "observed"
        <5>1. Record(e) = [trial[e] EXCEPT !.outcome = "observed", !.grant = "interrupted"]
          BY <3>2, <4>1, <4>4 DEF Record, Rows
        <5> QED
          BY <2>2, <2>4, <3>2, <4>4, <5>1 DEF RowEffect, Recording
      <4> QED
        BY <4>1, <4>2, <4>3, <4>4 DEF Judge
    <3> QED
      BY <3>1, <3>2
  <2>5. CASE Slips(e)
    BY <2>5 DEF Slips, RowEffect
  <2> QED
    BY <1>7, <2>1, <2>3, <2>4, <2>5 DEF Settle
<1>8. CASE Reap
  <2>1. /\ runner.exec \in TrialExecs /\ trial[runner.exec].grant \notin {"none", "queued"}
        /\ ~trial[runner.exec].permit
    BY <1>8 DEF Reap, RunnerPlaced, Attended, Unpermitted
  <2>2. trial' = trial \/ trial' = [trial EXCEPT ![runner.exec] = Quiesce(@)]
    BY <1>8, <2>1 DEF Reap, AbortClaim
  <2> QED
    BY <1>a, <2>1, <2>2 DEF RowEffect
<1>9. CASE LeaveUnrecorded
  BY <1>9 DEF LeaveUnrecorded, RowEffect
<1> QED
  BY <1>1, <1>2, <1>3, <1>4, <1>5, <1>6, <1>7, <1>8, <1>9 DEF RunnerStep

(* Every step.                                                              *)
LEMMA RowStep ==
  ASSUME TrialInv, TrialNext, NEW x \in TrialExecs
  PROVE  RowEffect(x)
<1>1. CASE \E e \in TrialExecs : BridgeMoves(e)
  BY <1>1 DEF BridgeMoves, kernelVars, histories, RowEffect
<1> QED
  BY <1>1, OwnerRows, LifeRows, RunnerRows DEF TrialNext

(* The rows agree and stay typed.                                           *)
LEMMA RowsStep ==
  ASSUME TrialInv, TrialNext, NEW x \in TrialExecs
  PROVE  trial'[x] \in Rows /\ Agree(trial'[x])
<1>1. trial[x] \in Rows /\ Agree(trial[x])
  BY DEF TrialInv, TrialTypeOK
<1>2. RowEffect(x)
  BY RowStep
<1> QED
  BY <1>1, <1>2, RowMoveAgrees DEF RowEffect

(* What the rows of an execution never lose.                                *)
LEMMA RowKeeps ==
  ASSUME NEW e \in TrialExecs, trial[e] \in Rows, RowEffect(e)
  PROVE  /\ trial[e].grant \notin {"none", "queued"} => trial'[e].grant \notin {"none", "queued"}
         /\ trial[e].boot => trial'[e].boot
         /\ trial[e].permit => trial'[e].permit
         /\ trial'[e].permit => \/ trial[e].permit
                                \/ /\ runner.pc = "permit" /\ runner.exec = e
                                   /\ runner'.pc \in {"running", "leave"}
         /\ trial[e].grant \in {"revoked", "interrupted"}
              => trial'[e].grant \in {"revoked", "interrupted"}
         /\ trial[e].grant = "claimed" /\ trial[e].cancel
              => \/ trial'[e].grant \in {"revoked", "interrupted"}
                 \/ trial'[e].grant = "claimed" /\ trial'[e].cancel
<1> DEFINE r == trial[e]
           s == trial'[e]
<1> USE DEF Rows
<1>1. CASE s = r \/ (r.prop = "none" /\ s = [r EXCEPT !.prop = "staged"])
  BY <1>1
<1>2. CASE s = Expire(r)
  BY <1>2 DEF Expire
<1>3. CASE s = Invalidate(r)
  BY <1>3 DEF Invalidate
<1>4. CASE Granting(r, s) \/ Revoking(r, s) \/ Claiming(r, s)
  BY <1>4 DEF Granting, Revoking, Claiming
<1>5. CASE Abandoning(r, s)
  BY <1>5 DEF Abandoning, Quiesce
<1>6. CASE Booting(r, s)
  BY <1>6 DEF Booting
<1>7. CASE /\ Permitting(r, s) /\ runner.pc = "permit" /\ runner.exec = e
           /\ runner'.pc \in {"running", "leave"}
  BY <1>7 DEF Permitting
<1>8. CASE Recording(r, s)
  BY <1>8 DEF Recording
<1>9. CASE s = Quiesce(r) /\ r.grant \notin {"none", "queued"}
  BY <1>9 DEF Quiesce
<1> QED
  BY <1>1, <1>2, <1>3, <1>4, <1>5, <1>6, <1>7, <1>8, <1>9 DEF RowEffect

-----------------------------------------------------------------------------
(* Types.                                                                   *)

(* The rows stay a function on the executions.                              *)
LEMMA RowsTyped ==
  ASSUME TrialInv, TrialNext
  PROVE  trial' \in [TrialExecs -> Rows]
<1>1. trial' = [x \in TrialExecs |-> trial'[x]]
  <2> USE DEF TrialInv, TrialTypeOK, kernelVars, histories
  <2>1. CASE OwnerStep
    BY <2>1 DEF OwnerStep, SetControl, StageTrial, ApproveTrial, DeriveGrant, ExpireTrial,
       EditScope, Lapse, PolicyChanges
  <2>2. CASE LifeStep
    BY <2>2 DEF LifeStep, PostMessage, ForegroundMoves, Shutdown, ProcessEnds, RestartServer,
       Recovered, RecoverWorker, Slips, FenceAlias
  <2>3. CASE RunnerStep
    BY <2>3 DEF RunnerStep, PickNext, ResolveBlocked, ClaimGrant, ClaimRefused, SpawnBridge,
       RegisterBoot, AwaitScope, IssuePermit, PollStops, SeeExit, Settle, FenceAlias, Reap,
       LeaveUnrecorded, AbortClaim, Slips
  <2>4. CASE \E e \in TrialExecs : BridgeMoves(e)
    BY <2>4 DEF BridgeMoves
  <2> QED
    BY SMTT(40), <2>1, <2>2, <2>3, <2>4 DEF TrialNext
<1> QED
  BY <1>1, RowsStep

(* What the owner's rows may hold, and what a bridge may be.                 *)
Saying == [ok : BOOLEAN, drift : BOOLEAN, lapsed : BOOLEAN, fresh : BOOLEAN]
Working == [proc : {"none", "live", "clean", "failed"}, scope : {"none", "active", "gone"}]

(* Editing a field of one of the owner's rows.                              *)
LEMMA SayingEdited ==
  ASSUME NEW o \in [TrialExecs -> Saying], NEW e \in TrialExecs, NEW b \in BOOLEAN
  PROVE  /\ [o EXCEPT ![e].drift = b] \in [TrialExecs -> Saying]
         /\ [o EXCEPT ![e].lapsed = b] \in [TrialExecs -> Saying]
         /\ [o EXCEPT ![e].fresh = b] \in [TrialExecs -> Saying]
         /\ [o EXCEPT ![e].ok = b, ![e].drift = TRUE] \in [TrialExecs -> Saying]
<1> DEFINE r == o[e]
<1>0. r \in Saying
  OBVIOUS
<1> HIDE DEF r
<1>1. /\ [r EXCEPT !.drift = b] \in Saying /\ [r EXCEPT !.lapsed = b] \in Saying
      /\ [r EXCEPT !.fresh = b] \in Saying
      /\ [r EXCEPT !.ok = b, !.drift = TRUE] \in Saying
  BY <1>0 DEF Saying
<1>2. /\ [o EXCEPT ![e].drift = b] = [o EXCEPT ![e] = [r EXCEPT !.drift = b]]
      /\ [o EXCEPT ![e].lapsed = b] = [o EXCEPT ![e] = [r EXCEPT !.lapsed = b]]
      /\ [o EXCEPT ![e].fresh = b] = [o EXCEPT ![e] = [r EXCEPT !.fresh = b]]
      /\ [o EXCEPT ![e].ok = b, ![e].drift = TRUE]
           = [o EXCEPT ![e] = [r EXCEPT !.ok = b, !.drift = TRUE]]
  BY DEF r
<1> QED
  BY <1>1, <1>2

(* What the owner's purposes and policies say.                              *)
LEMMA OwnerTyped ==
  ASSUME TrialInv, TrialNext
  PROVE  owner' \in [TrialExecs -> Saying]
<1>0. owner \in [TrialExecs -> Saying]
  BY DEF TrialInv, TrialTypeOK, Saying
<1>1. ASSUME NEW e \in TrialExecs,
             \/ StageTrial(e) \/ DeriveGrant(e) \/ EditScope(e) \/ Lapse(e) \/ PolicyChanges(e)
      PROVE  owner' \in [TrialExecs -> Saying]
  <2>1. PICK b \in BOOLEAN :
          \/ owner' = [owner EXCEPT ![e].drift = b]
          \/ owner' = [owner EXCEPT ![e].lapsed = b]
          \/ owner' = [owner EXCEPT ![e].fresh = b]
          \/ owner' = [owner EXCEPT ![e].ok = b, ![e].drift = TRUE]
    <3>1. CASE StageTrial(e) \/ DeriveGrant(e)
      <4>1. owner' = [owner EXCEPT ![e].drift = FALSE]
        BY <3>1 DEF StageTrial, DeriveGrant
      <4> QED
        BY <4>1
    <3>2. CASE EditScope(e)
      BY <3>2 DEF EditScope
    <3>3. CASE Lapse(e)
      <4>1. owner' = [owner EXCEPT ![e].lapsed = TRUE]
        BY <3>3 DEF Lapse
      <4> QED
        BY <4>1
    <3>4. CASE PolicyChanges(e)
      <4>1. owner' = [owner EXCEPT ![e].fresh = FALSE]
        BY <3>4 DEF PolicyChanges
      <4> QED
        BY <4>1
    <3> QED
      BY <1>1, <3>1, <3>2, <3>3, <3>4
  <2>2. /\ [owner EXCEPT ![e].drift = b] \in [TrialExecs -> Saying]
        /\ [owner EXCEPT ![e].lapsed = b] \in [TrialExecs -> Saying]
        /\ [owner EXCEPT ![e].fresh = b] \in [TrialExecs -> Saying]
        /\ [owner EXCEPT ![e].ok = b, ![e].drift = TRUE] \in [TrialExecs -> Saying]
    BY <1>0, SayingEdited
  <2> QED
    BY <2>1, <2>2, Zenon
<1>2. CASE owner' = owner
  BY <1>0, <1>2
<1>3. ASSUME NEW e \in TrialExecs, ApproveTrial(e) \/ ExpireTrial(e) \/ BridgeMoves(e)
      PROVE  owner' = owner
  BY <1>3 DEF ApproveTrial, ExpireTrial, BridgeMoves, kernelVars, histories
<1>4. LifeStep \/ SetControl => owner' = owner
  BY DEF SetControl, LifeStep, PostMessage, ForegroundMoves, Shutdown, ProcessEnds,
     RestartServer, Recovered, RecoverWorker, Slips, kernelVars, histories
<1>5. RunnerStep => owner' = owner
  BY DEF RunnerStep, PickNext, ResolveBlocked, ClaimGrant, ClaimRefused, SpawnBridge,
     RegisterBoot, AwaitScope, IssuePermit, PollStops, SeeExit, Settle, Reap, LeaveUnrecorded,
       AbortClaim, Slips, kernelVars, histories
<1> QED
  BY <1>1, <1>2, <1>3, <1>4, <1>5 DEF TrialNext, OwnerStep

(* The autonomy control row.                                                *)
LEMMA ControlTyped ==
  ASSUME TrialInv, TrialNext
  PROVE  control' \in [paused : BOOLEAN, version : Nat]
<1>0. control \in [paused : BOOLEAN, version : Nat]
  BY DEF TrialInv, TrialTypeOK
<1>a. \A p \in BOOLEAN :
        [paused |-> p, version |-> control.version + 1] \in [paused : BOOLEAN, version : Nat]
  BY <1>0
<1>1. CASE SetControl
  <2>1. PICK p \in BOOLEAN : control' = [paused |-> p, version |-> control.version + 1]
    BY <1>1 DEF SetControl
  <2> QED
    BY <1>a, <2>1, Zenon
<1>2. CASE RestartServer
  <2>1. control' = control \/ control' = [paused |-> TRUE, version |-> control.version + 1]
    BY <1>2 DEF RestartServer
  <2> QED
    BY <1>0, <1>a, <2>1
<1>3. CASE control' = control
  BY <1>0, <1>3
<1>4. ASSUME NEW e \in TrialExecs,
             \/ StageTrial(e) \/ ApproveTrial(e) \/ DeriveGrant(e) \/ ExpireTrial(e)
             \/ EditScope(e) \/ Lapse(e) \/ PolicyChanges(e) \/ BridgeMoves(e)
      PROVE  control' = control
  BY <1>4 DEF StageTrial, ApproveTrial, DeriveGrant, ExpireTrial, EditScope, Lapse,
     PolicyChanges, BridgeMoves, kernelVars, histories
<1>5. LifeStep => RestartServer \/ control' = control
  BY DEF LifeStep, PostMessage, ForegroundMoves, Shutdown, ProcessEnds, Recovered,
     RecoverWorker, kernelVars, histories
<1>6. RunnerStep => control' = control
  BY DEF RunnerStep, PickNext, ResolveBlocked, ClaimGrant, ClaimRefused, SpawnBridge,
     RegisterBoot, AwaitScope, IssuePermit, PollStops, SeeExit, Settle, Reap, LeaveUnrecorded,
       AbortClaim, Slips, kernelVars, histories
<1> QED
  BY <1>1, <1>2, <1>3, <1>4, <1>5, <1>6 DEF TrialNext, OwnerStep

(* The fences and the histories, which only grow; a fence is set by         *)
(* recovery and at the end of a run.                                        *)
Fencing ==
  /\ fences \subseteq fences' /\ slipped \subseteq slipped'
  /\ fences' = fences \/ runner.pc = "recover" \/ runner'.pc = "idle"
  /\ fences' \subseteq TrialExecs /\ halted' \subseteq TrialExecs
  /\ slipped' \subseteq TrialExecs

LEMMA FencesTyped ==
  ASSUME TrialInv, TrialNext
  PROVE  Fencing
<1>0. fences \subseteq TrialExecs /\ halted \subseteq TrialExecs /\ slipped \subseteq TrialExecs
  BY DEF TrialInv, TrialTypeOK
<1>a. ASSUME UNCHANGED <<fences, slipped>>, halted' \subseteq TrialExecs
      PROVE  Fencing
  BY <1>0, <1>a DEF Fencing
<1>1. CASE SetControl
  <2>1. UNCHANGED <<fences, slipped>> /\ halted' \subseteq TrialExecs
    BY <1>0, <1>1 DEF SetControl
  <2> QED
    BY <1>a, <2>1
<1>2. CASE RestartServer
  <2>1. UNCHANGED fences /\ halted' \subseteq TrialExecs
    BY <1>0, <1>2 DEF RestartServer
  <2>2. slipped \subseteq slipped' /\ slipped' \subseteq TrialExecs
    BY <1>0, <1>2 DEF RestartServer
  <2> QED
    BY <1>0, <2>1, <2>2 DEF Fencing
<1>3. ASSUME NEW e \in TrialExecs,
             \/ StageTrial(e) \/ ApproveTrial(e) \/ DeriveGrant(e) \/ ExpireTrial(e)
             \/ EditScope(e) \/ Lapse(e) \/ PolicyChanges(e) \/ BridgeMoves(e)
      PROVE  Fencing
  <2>1. UNCHANGED <<fences, slipped>> /\ halted' \subseteq TrialExecs
    BY <1>0, <1>3 DEF StageTrial, ApproveTrial, DeriveGrant, ExpireTrial, EditScope, Lapse,
       PolicyChanges, BridgeMoves, kernelVars, histories
  <2> QED
    BY <1>a, <2>1
<1>b. ASSUME NEW e \in TrialExecs, runner.pc = "recover" \/ runner'.pc = "idle",
             \/ UNCHANGED <<fences, histories>>
             \/ FenceAlias(e) /\ UNCHANGED slipped
             \/ Slips(e)
      PROVE  Fencing
  BY <1>0, <1>b DEF Fencing, FenceAlias, Slips, histories
<1>4. ASSUME NEW e \in TrialExecs, RecoverWorker(e)
      PROVE  Fencing
  BY <1>b, <1>4 DEF RecoverWorker
<1>5. CASE PostMessage \/ ForegroundMoves \/ Shutdown \/ ProcessEnds \/ Recovered
  <2>1. UNCHANGED <<fences, slipped, halted>>
    BY <1>5 DEF PostMessage, ForegroundMoves, Shutdown, ProcessEnds, Recovered, kernelVars, histories
  <2> QED
    BY <1>0, <1>a, <2>1
<1>6. CASE Settle
  <2>1. runner.exec \in TrialExecs
    BY <1>6 DEF Settle, TrialInv, RunnerPlaced, Attended
  <2>2. runner'.pc = "idle"
    BY <1>6 DEF Settle, BackToIdle, TrialInv, TrialTypeOK
  <2> QED
    BY <1>b, <1>6, <2>1, <2>2 DEF Settle
<1>7. CASE LeaveUnrecorded
  <2>1. runner.exec \in TrialExecs
    BY <1>7 DEF LeaveUnrecorded, TrialInv, RunnerPlaced, Attended
  <2> QED
    BY <1>0, <1>7, <2>1 DEF LeaveUnrecorded, Fencing
<1>8. CASE RunnerStep /\ ~Settle /\ ~LeaveUnrecorded
  <2>1. UNCHANGED <<fences, slipped, halted>>
    BY <1>8 DEF RunnerStep, PickNext, ResolveBlocked, ClaimGrant, ClaimRefused, SpawnBridge,
       RegisterBoot, AwaitScope, IssuePermit, PollStops, SeeExit, Reap, kernelVars, histories
  <2> QED
    BY <1>0, <1>a, <2>1
<1> QED
  BY <1>1, <1>2, <1>3, <1>4, <1>5, <1>6, <1>7, <1>8 DEF TrialNext, OwnerStep, LifeStep

(* The bounds only shrink.                                                  *)
LEMMA QuotaTyped ==
  ASSUME TrialInv, TrialNext
  PROVE  quota' \in Quotas
<1>0. quota \in Quotas
  BY DEF TrialInv, TrialTypeOK
<1>1. CASE quota' = quota
  BY <1>0, <1>1
<1>2. CASE quota.edits > 0 /\ quota' = [quota EXCEPT !.edits = @ - 1]
  BY <1>0, <1>2 DEF Quotas
<1>3. CASE quota.controls > 0 /\ quota' = [quota EXCEPT !.controls = @ - 1]
  BY <1>0, <1>3 DEF Quotas
<1>4. CASE quota.posts > 0 /\ quota' = [quota EXCEPT !.posts = @ - 1]
  BY <1>0, <1>4 DEF Quotas
<1>5. CASE quota.ends > 0 /\ quota' = [quota EXCEPT !.ends = @ - 1]
  BY SMTT(40), <1>0, <1>5 DEF Quotas
<1>f. CASE Swallowed
  BY SMTT(40), <1>0, <1>f DEF Quotas, Swallowed
<1>6. CASE OwnerStep
  BY <1>1, <1>2, <1>3, <1>6 DEF OwnerStep, SetControl, StageTrial, ApproveTrial, DeriveGrant,
     ExpireTrial, EditScope, Lapse, PolicyChanges, worldVars, siteVars
<1>7. CASE LifeStep
  BY <1>1, <1>4, <1>5, <1>f, <1>7 DEF LifeStep, PostMessage, ForegroundMoves, Shutdown, ProcessEnds,
     RestartServer, Recovered, RecoverWorker, Slips, worldVars, siteVars
<1>8. CASE RunnerStep
  BY <1>1, <1>f, <1>8 DEF RunnerStep, PickNext, ResolveBlocked, ClaimGrant, ClaimRefused, SpawnBridge,
     RegisterBoot, AwaitScope, IssuePermit, PollStops, SeeExit, Settle, Reap, LeaveUnrecorded,
       AbortClaim, Slips, worldVars, siteVars
<1>9. CASE \E e \in TrialExecs : BridgeMoves(e)
  BY <1>1, <1>9 DEF BridgeMoves
<1> QED
  BY <1>6, <1>7, <1>8, <1>9 DEF TrialNext

(* The engine and the host.                                                 *)
LEMMA HostTyped ==
  ASSUME TrialInv, TrialNext
  PROVE  busy' \in BOOLEAN /\ host' \in {"up", "draining", "down"}
<1>0. busy \in BOOLEAN /\ host \in {"up", "draining", "down"}
  BY DEF TrialInv, TrialTypeOK
<1>1. OwnerStep => UNCHANGED <<busy, host>>
  BY DEF OwnerStep, SetControl, StageTrial, ApproveTrial, DeriveGrant, ExpireTrial,
     EditScope, Lapse, PolicyChanges, worldVars, siteVars
<1>2. LifeStep => busy' \in {busy, FALSE, TRUE} /\ host' \in {host, "up", "draining", "down"}
  BY <1>0 DEF LifeStep, PostMessage, ForegroundMoves, Shutdown, ProcessEnds,
     RestartServer, Recovered, RecoverWorker, Slips, worldVars, siteVars
<1>3. RunnerStep => UNCHANGED <<busy, host>>
  BY DEF RunnerStep, PickNext, ResolveBlocked, ClaimGrant, ClaimRefused, SpawnBridge,
     RegisterBoot, AwaitScope, IssuePermit, PollStops, SeeExit, Settle, Reap, LeaveUnrecorded,
       AbortClaim, Slips, worldVars, siteVars
<1>4. (\E e \in TrialExecs : BridgeMoves(e)) => UNCHANGED <<busy, host>>
  BY DEF BridgeMoves
<1> QED
  BY <1>0, <1>1, <1>2, <1>3, <1>4 DEF TrialNext

(* The bridge and its scope: a scope that is gone stays gone.               *)
LEMMA WorkTyped ==
  ASSUME TrialInv, TrialNext
  PROVE  /\ work' \in [TrialExecs -> Working]
         /\ \A x \in TrialExecs : work[x].scope = "gone" => work'[x].scope = "gone"
<1>0. work \in [TrialExecs -> Working]
  BY DEF TrialInv, TrialTypeOK, Working
<1>a. ASSUME NEW e \in TrialExecs, NEW w,
             w \in {[work[e] EXCEPT !.proc = p] : p \in {"live", "clean", "failed"}}
                   \union {[work[e] EXCEPT !.scope = p] : p \in {"active", "gone"}},
             work[e].scope = "gone" => w.scope = "gone",
             work' = [work EXCEPT ![e] = w]
      PROVE  /\ work' \in [TrialExecs -> Working]
             /\ \A x \in TrialExecs : work[x].scope = "gone" => work'[x].scope = "gone"
  <2>1. w \in Working
    BY <1>0, <1>a DEF Working
  <2> QED
    BY <1>0, <1>a, <2>1
<1>b. work' = work => /\ work' \in [TrialExecs -> Working]
                      /\ \A x \in TrialExecs : work[x].scope = "gone" => work'[x].scope = "gone"
  BY SMTT(40), <1>0
<1>1. OwnerStep \/ LifeStep => work' = work
  BY DEF OwnerStep, SetControl, StageTrial, ApproveTrial, DeriveGrant, ExpireTrial,
     EditScope, Lapse, PolicyChanges, LifeStep, PostMessage, ForegroundMoves, Shutdown,
     ProcessEnds, RestartServer, Recovered, RecoverWorker, Slips, worldVars, siteVars
<1>2. RunnerStep => work' = work \/ SpawnBridge
  BY DEF RunnerStep, PickNext, ResolveBlocked, ClaimGrant, ClaimRefused,
     RegisterBoot, AwaitScope, IssuePermit, PollStops, SeeExit, Settle, Reap, LeaveUnrecorded,
       AbortClaim, Slips, worldVars, siteVars
<1>3. CASE SpawnBridge
  <2>1. PICK e \in TrialExecs : e = runner.exec
    BY <1>3 DEF SpawnBridge, TrialInv, RunnerPlaced, Attended
  <2>2. work' = work \/ work' = [work EXCEPT ![e].proc = "live"]
    BY <1>3, <2>1 DEF SpawnBridge
  <2>3. CASE work' = [work EXCEPT ![e].proc = "live"]
    <3> DEFINE w == [work[e] EXCEPT !.proc = "live"]
    <3>1. work' = [work EXCEPT ![e] = w]
      BY <2>3
    <3>2. w.scope = work[e].scope
      BY <1>0 DEF Working
    <3> QED
      BY <1>a, <3>1, <3>2
  <2> QED
    BY <1>b, <2>2, <2>3
<1>4. ASSUME NEW e \in TrialExecs, BridgeMoves(e)
      PROVE  /\ work' \in [TrialExecs -> Working]
             /\ \A x \in TrialExecs : work[x].scope = "gone" => work'[x].scope = "gone"
  <2>1. \/ work[e].scope = "none" /\ work' = [work EXCEPT ![e].scope = "active"]
        \/ work[e].scope = "active" /\ work' = [work EXCEPT ![e].scope = "gone"]
        \/ \E end \in {"failed", "clean"} : work' = [work EXCEPT ![e].proc = end]
    BY <1>4 DEF BridgeMoves
  <2>2. CASE work[e].scope = "none" /\ work' = [work EXCEPT ![e].scope = "active"]
    <3> DEFINE w == [work[e] EXCEPT !.scope = "active"]
    <3>1. work' = [work EXCEPT ![e] = w]
      BY <2>2
    <3> QED
      BY <1>a, <2>2, <3>1
  <2>3. CASE work[e].scope = "active" /\ work' = [work EXCEPT ![e].scope = "gone"]
    <3> DEFINE w == [work[e] EXCEPT !.scope = "gone"]
    <3>1. work' = [work EXCEPT ![e] = w]
      BY <2>3
    <3> QED
      BY <1>a, <2>3, <3>1
  <2>4. ASSUME NEW end \in {"failed", "clean"}, work' = [work EXCEPT ![e].proc = end]
        PROVE  /\ work' \in [TrialExecs -> Working]
               /\ \A x \in TrialExecs : work[x].scope = "gone" => work'[x].scope = "gone"
    <3> DEFINE w == [work[e] EXCEPT !.proc = end]
    <3>1. work' = [work EXCEPT ![e] = w]
      BY <2>4
    <3>2. w.scope = work[e].scope
      BY <1>0 DEF Working
    <3> QED
      BY <1>a, <3>1, <3>2
  <2> QED
    BY <2>1, <2>2, <2>3, <2>4
<1> QED
  BY <1>b, <1>1, <1>2, <1>3, <1>4 DEF TrialNext

-----------------------------------------------------------------------------
(* The runner.                                                              *)

Running == [pc : Places, exec : TrialExecs \union {NoExec},
            page : SUBSET TrialExecs, latch : BOOLEAN]

Relays == {"none", "open", "permitted", "revoked"}

(* The runner goes nowhere, leaves, or looks at the next row of its page.   *)
LEMMA RunnerLeaves ==
  ASSUME runner \in Running, BackToIdle
  PROVE  runner' \in Running /\ runner'.pc = "idle"
  BY DEF BackToIdle, Running, Places

LEMMA RunnerLooks ==
  ASSUME runner \in Running, NextCandidate
  PROVE  /\ runner' \in Running
         /\ runner'.pc = "idle" \/ (runner'.pc = runner.pc /\ runner'.exec \in TrialExecs)
<1>1. CASE runner' = [runner EXCEPT !.pc = "idle", !.exec = NoExec, !.page = {}]
  BY <1>1 DEF Running, Places
<1>2. CASE /\ runner.page # {}
           /\ runner' = [runner EXCEPT !.exec = Oldest(runner.page),
                                       !.page = @ \ {Oldest(runner.page)}]
  <2>1. runner.page \in SUBSET TrialExecs
    BY DEF Running
  <2>2. PICK o \in TrialExecs : o = Oldest(runner.page)
    BY <1>2, <2>1, OldestIsThere
  <2>3. runner' = [runner EXCEPT !.exec = o, !.page = @ \ {o}]
    BY <1>2, <2>2
  <2> QED
    BY <2>3 DEF Running
<1> QED
  BY <1>1, <1>2 DEF NextCandidate

LEMMA RunnerMovesTo ==
  ASSUME runner \in Running, NEW place \in Places, Move(place)
  PROVE  /\ runner' \in Running
         /\ runner'.pc = place /\ runner'.exec = runner.exec /\ runner'.page = runner.page
  BY DEF Move, Running

LEMMA RunnerLatches ==
  ASSUME runner \in Running, runner' = [runner EXCEPT !.latch = TRUE]
  PROVE  /\ runner' \in Running
         /\ runner'.pc = runner.pc /\ runner'.exec = runner.exec /\ runner'.page = runner.page
  BY DEF Running

(* What a step of the runner itself does to its locals, its relay, its host.*)
RunnerKeeps(e) ==
  /\ runner'.exec = e /\ runner'.page = runner.page
  /\ \/ runner'.pc = runner.pc
     \/ runner.pc = "starting" /\ runner'.pc = "identity"
     \/ runner.pc = "identity" /\ runner'.pc \in {"waiting", "reap"}
     \/ runner.pc = "waiting" /\ runner'.pc \in {"permit", "reap"}
     \/ runner.pc = "permit" /\ runner'.pc \in {"reap", "leave"}
     \/ runner.pc = "permit" /\ runner'.pc = "running" /\ trial'[e].permit
     \/ runner.pc = "running" /\ runner'.pc = "settling"

(* An execution the runner puts down was never permitted, has ended, or is  *)
(* fenced or slipped.                                                       *)
PutDown(e) ==
  runner.pc \in Unpermitted \/ work[e].scope = "gone" \/ e \in fences' \union slipped'

RunnerEffect ==
  \/ runner'.pc = "idle" /\ (runner.pc \in Attended => PutDown(runner.exec))
  \/ /\ runner.pc \in {"idle", "resolve"}
     /\ runner'.pc = "resolve" /\ runner'.exec \in TrialExecs
  \/ /\ runner.pc = "resolve" /\ runner'.pc = "starting" /\ runner'.exec \in TrialExecs
     /\ runner'.exec = runner.exec /\ fences' = {} /\ trial[runner.exec].grant = "queued"
     /\ trial'[runner'.exec].grant = "claimed" /\ ~trial'[runner'.exec].permit
  \/ runner.pc \in Attended /\ RunnerKeeps(runner.exec) /\ fences' = fences

LEMMA RunnerStepEffect ==
  ASSUME TrialInv, RunnerStep
  PROVE  /\ runner' \in Running /\ relay' \in Relays
         /\ RunnerEffect
         /\ host' = host /\ runner.pc # "down" /\ runner.pc # "recover"
<1>0. runner \in Running /\ relay \in Relays
  BY DEF TrialInv, TrialTypeOK, Running, Relays
<1>1. host' = host /\ runner.pc # "down" /\ runner.pc # "recover"
  BY DEF RunnerStep, PickNext, ResolveBlocked, ClaimGrant, ClaimRefused, SpawnBridge,
     RegisterBoot, AwaitScope, IssuePermit, PollStops, SeeExit, Settle, Reap, LeaveUnrecorded,
       AbortClaim, Slips, worldVars, siteVars
<1>2. relay' \in Relays
  BY <1>0 DEF RunnerStep, PickNext, ResolveBlocked, ClaimGrant, ClaimRefused, SpawnBridge,
     RegisterBoot, AwaitScope, IssuePermit, PollStops, SeeExit, Settle, Reap, LeaveUnrecorded,
       AbortClaim, Slips, GiveUp, Relays
<1>3. runner' \in Running /\ RunnerEffect
  <2>1. CASE PickNext
    <3> DEFINE queue == {e \in TrialExecs : trial[e].grant = "queued"}
    <3>1. queue \in SUBSET TrialExecs /\ queue # {}
      BY <2>1 DEF PickNext
    <3>2. PICK o \in TrialExecs : o = Oldest(queue)
      BY <3>1, OldestIsThere
    <3>3. /\ runner' = [pc |-> "resolve", exec |-> o, page |-> queue \ {o}, latch |-> FALSE]
          /\ runner.pc = "idle"
      BY <2>1, <3>2 DEF PickNext
    <3> QED
      BY <3>1, <3>3 DEF Running, Places, RunnerEffect
  <2>2. CASE ResolveBlocked \/ ClaimRefused
    <3>1. runner.pc = "resolve" /\ (NextCandidate \/ BackToIdle)
      BY <2>2 DEF ResolveBlocked, ClaimRefused
    <3> QED
      BY <1>0, <3>1, RunnerLooks, RunnerLeaves DEF RunnerEffect, Attended
  <2>3. CASE ClaimGrant
    <3>1. PICK e \in TrialExecs : e = runner.exec
      BY <2>3 DEF ClaimGrant, TrialInv, RunnerPlaced
    <3>2. CASE BackToIdle
      <4>1. runner.pc \notin Attended
        BY <2>3 DEF ClaimGrant, Attended
      <4> QED
        BY <1>0, <3>2, <4>1, RunnerLeaves DEF RunnerEffect
    <3>3. CASE ~BackToIdle
      <4>1. /\ trial' = [trial EXCEPT ![e] = [trial[e] EXCEPT !.grant = "claimed",
                                                              !.gen = control.version]]
            /\ runner' = [runner EXCEPT !.pc = "starting", !.page = {}]
            /\ runner.pc = "resolve" /\ trial[e].grant = "queued" /\ fences' = {}
        BY <2>3, <3>1, <3>3 DEF ClaimGrant, Claimable
      <4>2. trial \in [TrialExecs -> Rows] /\ Agree(trial[e])
        BY DEF TrialInv, TrialTypeOK
      <4>3. ~trial[e].permit
        BY <4>1, <4>2 DEF Agree
      <4>4. trial'[e].grant = "claimed" /\ ~trial'[e].permit
        BY <4>1, <4>2, <4>3 DEF Rows
      <4>5. runner' \in Running /\ runner'.pc = "starting" /\ runner'.exec = e
        BY <1>0, <3>1, <4>1 DEF Running, Places
      <4> QED
        BY <3>1, <4>1, <4>4, <4>5 DEF RunnerEffect
    <3> QED
      BY <3>2, <3>3
  <2>4. CASE SpawnBridge
    <3>1. runner.pc = "starting" /\ (Move("identity") \/ BackToIdle) /\ fences' = fences
      BY <2>4 DEF SpawnBridge
    <3>2. CASE Move("identity")
      BY <1>0, <3>1, <3>2, RunnerMovesTo DEF RunnerEffect, RunnerKeeps, Attended, Places
    <3>3. CASE BackToIdle
      BY <1>0, <3>1, <3>3, RunnerLeaves DEF RunnerEffect, PutDown, Unpermitted
    <3> QED
      BY <3>1, <3>2, <3>3
  <2>5. CASE RegisterBoot
    <3>1. runner.pc = "identity" /\ (Move("waiting") \/ Move("reap")) /\ fences' = fences
      BY <2>5 DEF RegisterBoot, GiveUp
    <3> QED
      BY <1>0, <3>1, RunnerMovesTo DEF RunnerEffect, RunnerKeeps, Attended, Places
  <2>6. CASE AwaitScope
    <3>1. runner.pc = "waiting" /\ (Move("permit") \/ Move("reap")) /\ fences' = fences
      BY <2>6 DEF AwaitScope, GiveUp, kernelVars
    <3> QED
      BY <1>0, <3>1, RunnerMovesTo DEF RunnerEffect, RunnerKeeps, Attended, Places
  <2>7. CASE IssuePermit
    <3>1. PICK e \in TrialExecs : e = runner.exec
      BY <2>7 DEF IssuePermit, TrialInv, RunnerPlaced, Attended
    <3>2. /\ runner.pc = "permit" /\ fences' = fences
          /\ \/ Move("leave") \/ Move("reap")
             \/ Move("running") /\ trial' = [trial EXCEPT ![e].permit = TRUE]
      BY <2>7, <3>1 DEF IssuePermit, GiveUp
    <3>3. trial' = [trial EXCEPT ![e].permit = TRUE] => trial'[e].permit
      BY DEF TrialInv, TrialTypeOK, Rows
    <3>4. CASE Move("leave") \/ Move("reap")
      BY <1>0, <3>2, <3>4, RunnerMovesTo DEF RunnerEffect, RunnerKeeps, Attended, Places
    <3>5. CASE Move("running") /\ trial'[e].permit
      BY <1>0, <3>1, <3>2, <3>5, RunnerMovesTo DEF RunnerEffect, RunnerKeeps, Attended, Places
    <3> QED
      BY <3>2, <3>3, <3>4, <3>5
  <2>8. CASE PollStops
    <3>1. runner.pc = "running" /\ runner' = [runner EXCEPT !.latch = TRUE] /\ fences' = fences
      BY <2>8 DEF PollStops, kernelVars
    <3> QED
      BY <1>0, <3>1, RunnerLatches DEF RunnerEffect, RunnerKeeps, Attended
  <2>9. CASE SeeExit
    <3>1. runner.pc = "running" /\ Move("settling") /\ fences' = fences
      BY <2>9 DEF SeeExit, kernelVars
    <3> QED
      BY <1>0, <3>1, RunnerMovesTo DEF RunnerEffect, RunnerKeeps, Attended, Places
  <2>10. CASE Settle \/ Reap \/ LeaveUnrecorded
    <3>1. BackToIdle
      BY <2>10 DEF Settle, Reap, LeaveUnrecorded
    <3>2. PutDown(runner.exec)
      BY <2>10 DEF Settle, Reap, LeaveUnrecorded, FenceAlias, Slips, PutDown, Unpermitted
    <3> QED
      BY <1>0, <3>1, <3>2, RunnerLeaves DEF RunnerEffect
  <2> QED
    BY <2>1, <2>2, <2>3, <2>4, <2>5, <2>6, <2>7, <2>8, <2>9, <2>10 DEF RunnerStep
<1> QED
  BY <1>1, <1>2, <1>3

(* What the other steps do to the runner and its host.                      *)
RunnerStays ==
  /\ runner'.pc = runner.pc /\ runner'.exec = runner.exec /\ runner'.page = runner.page
  /\ host' = "down" <=> host = "down"

Started == {e \in TrialExecs : trial[e].grant = "claimed" /\ trial[e].boot}

OtherEffect ==
  \/ RunnerStays
  \/ ProcessEnds /\ runner'.pc = "down"
  \/ /\ RestartServer /\ runner'.pc = "recover"
     /\ \/ runner'.page = Started
        \/ runner'.page = {} /\ Started \subseteq fences' \union slipped'
  \/ /\ \E e \in TrialExecs : RecoverWorker(e) /\ runner'.page = runner.page \ {e}
     /\ runner.pc = "recover" /\ runner'.pc = "recover" /\ host' = host
  \/ Recovered /\ runner.pc = "recover" /\ runner.page = {} /\ runner'.pc = "idle"
     /\ host' = host

LEMMA OtherStepEffect ==
  ASSUME TrialInv, OwnerStep \/ LifeStep \/ \E e \in TrialExecs : BridgeMoves(e)
  PROVE  runner' \in Running /\ relay' \in Relays /\ OtherEffect
<1>0. runner \in Running /\ relay \in Relays
  BY DEF TrialInv, TrialTypeOK, Running, Relays
<1>1. CASE OwnerStep
  <2>1. UNCHANGED <<runner, relay, host>>
    BY <1>1 DEF OwnerStep, SetControl, StageTrial, ApproveTrial, DeriveGrant, ExpireTrial,
       EditScope, Lapse, PolicyChanges, runnerVars, worldVars, siteVars
  <2> QED
    BY SMTT(40), <1>0, <2>1 DEF OtherEffect, RunnerStays
<1>2. CASE \E e \in TrialExecs : BridgeMoves(e)
  <2>1. UNCHANGED <<runner, relay, host>>
    BY <1>2 DEF BridgeMoves, runnerVars
  <2> QED
    BY SMTT(40), <1>0, <2>1 DEF OtherEffect, RunnerStays
<1>3. CASE PostMessage \/ Shutdown
  <2>1. /\ runner' = [runner EXCEPT !.latch = TRUE] /\ relay' \in {relay, "revoked"}
        /\ host' = "down" <=> host = "down"
    BY <1>3 DEF PostMessage, Shutdown, Preempt, Listening, siteVars
  <2> QED
    BY <1>0, <2>1, RunnerLatches DEF OtherEffect, RunnerStays, Relays
<1>4. CASE ForegroundMoves
  <2>1. UNCHANGED <<runner, relay, host>>
    BY <1>4 DEF ForegroundMoves, runnerVars
  <2> QED
    BY SMTT(40), <1>0, <2>1 DEF OtherEffect, RunnerStays
<1>5. CASE ProcessEnds
  BY <1>5 DEF ProcessEnds, Idle, Running, Relays, Places, OtherEffect
<1>6. CASE RestartServer
  <2>1. PICK list \in {Started, {}} :
          /\ runner' = [pc |-> "recover", exec |-> NoExec, page |-> list, latch |-> FALSE]
          /\ list = Started \/ Started \subseteq fences' \union slipped'
    BY <1>6 DEF RestartServer, Idle, Started
  <2>2. relay' = relay /\ Started \in SUBSET TrialExecs
    BY <1>6 DEF RestartServer, Started
  <2>3. runner' \in Running /\ runner'.pc = "recover" /\ runner'.page = list
    BY <2>1, <2>2 DEF Running, Places
  <2> QED
    BY <1>0, <1>6, <2>1, <2>2, <2>3 DEF OtherEffect
<1>7. ASSUME NEW e \in TrialExecs, RecoverWorker(e)
      PROVE  runner' \in Running /\ relay' \in Relays /\ OtherEffect
  <2>1. /\ runner.pc = "recover" /\ runner' = [runner EXCEPT !.page = @ \ {e}]
        /\ UNCHANGED <<relay, host>>
    BY <1>7 DEF RecoverWorker, worldVars, siteVars
  <2>2. runner' \in Running /\ runner'.pc = "recover" /\ runner'.page = runner.page \ {e}
    BY <1>0, <2>1 DEF Running
  <2> QED
    BY <1>0, <1>7, <2>1, <2>2 DEF OtherEffect
<1>8. CASE Recovered
  BY <1>0, <1>8 DEF Recovered, worldVars, siteVars, Running, Places, OtherEffect
<1> QED
  BY <1>1, <1>2, <1>3, <1>4, <1>5, <1>6, <1>7, <1>8 DEF LifeStep

(* The runner's place agrees with the rows after the step.                  *)
LEMMA PlacedStep ==
  ASSUME TrialInv, TrialNext
  PROVE  RunnerPlaced'
<1>0. /\ runner \in Running /\ trial \in [TrialExecs -> Rows] /\ RunnerPlaced
      /\ \A e \in TrialExecs : Agree(trial[e])
  BY DEF TrialInv, TrialTypeOK, Running
<1>1. \A e \in TrialExecs :
        /\ trial[e].grant \notin {"none", "queued"} => trial'[e].grant \notin {"none", "queued"}
        /\ trial[e].boot => trial'[e].boot
        /\ trial[e].permit => trial'[e].permit
        /\ trial'[e].permit => \/ trial[e].permit
                               \/ /\ runner.pc = "permit" /\ runner.exec = e
                                  /\ runner'.pc \in {"running", "leave"}
  BY <1>0, RowStep, RowKeeps
<1>2. CASE RunnerStep
  <2>0. /\ runner' \in Running /\ RunnerEffect
        /\ host' = host /\ host # "down" /\ runner.pc # "recover"
    BY <1>0, <1>2, RunnerStepEffect DEF RunnerPlaced
  <2>1. CASE runner'.pc = "idle"
    BY <2>0, <2>1 DEF RunnerPlaced, Attended, Unpermitted
  <2>2. CASE runner'.pc = "resolve" /\ runner'.exec \in TrialExecs
    BY <2>0, <2>2 DEF RunnerPlaced, Attended, Unpermitted
  <2>3. CASE /\ runner'.pc = "starting" /\ runner'.exec \in TrialExecs
             /\ trial'[runner'.exec].grant = "claimed" /\ ~trial'[runner'.exec].permit
    BY <2>0, <2>3 DEF RunnerPlaced, Attended, Unpermitted
  <2>4. CASE runner.pc \in Attended /\ RunnerKeeps(runner.exec)
    <3>1. PICK e \in TrialExecs : e = runner.exec
      BY <1>0, <2>4 DEF RunnerPlaced
    <3>2. runner'.exec = e /\ trial[e].grant \notin {"none", "queued"}
      BY <1>0, <2>4, <3>1 DEF RunnerPlaced, RunnerKeeps
    <3>3. trial'[e].grant \notin {"none", "queued"}
      BY <1>1, <3>2
    <3>4. runner'.pc \in Unpermitted => ~trial'[e].permit
      <4>1. runner'.pc \in Unpermitted =>
              runner.pc \in Unpermitted /\ runner'.pc \notin {"running", "leave"}
        BY <2>4, <3>1 DEF RunnerKeeps, Unpermitted, Attended
      <4> QED
        BY <1>0, <1>1, <3>1, <4>1 DEF RunnerPlaced
    <3>5. runner'.pc \in {"running", "settling"} => trial'[e].permit
      <4>1. runner'.pc \in {"running", "settling"} =>
              trial'[e].permit \/ runner.pc \in {"running", "settling"}
        BY <2>4, <3>1 DEF RunnerKeeps
      <4> QED
        BY <1>0, <1>1, <3>1, <4>1 DEF RunnerPlaced
    <3>6. runner'.pc \in Attended
      BY <2>4 DEF RunnerKeeps, Attended
    <3> QED
      BY <2>0, <3>2, <3>3, <3>4, <3>5, <3>6 DEF RunnerPlaced, Attended
  <2> QED
    BY <2>0, <2>1, <2>2, <2>3, <2>4 DEF RunnerEffect
<1>3. CASE OwnerStep \/ LifeStep \/ \E e \in TrialExecs : BridgeMoves(e)
  <2>0. runner' \in Running /\ OtherEffect
    BY <1>3, OtherStepEffect
  <2>1. CASE RunnerStays
    <3>1. runner.pc \in Attended \union {"resolve"} => runner.exec \in TrialExecs
      BY <1>0 DEF RunnerPlaced
    <3>2. runner.pc = "recover" => \A e \in runner.page : e \in TrialExecs /\ trial'[e].boot
      BY <1>0, <1>1 DEF RunnerPlaced, Running
    <3>3. runner.pc \in Attended =>
            /\ trial'[runner.exec].grant \notin {"none", "queued"}
            /\ runner.pc \in Unpermitted => ~trial'[runner.exec].permit
            /\ runner.pc \in {"running", "settling"} => trial'[runner.exec].permit
      <4> SUFFICES ASSUME runner.pc \in Attended
                   PROVE  /\ trial'[runner.exec].grant \notin {"none", "queued"}
                          /\ runner.pc \in Unpermitted => ~trial'[runner.exec].permit
                          /\ runner.pc \in {"running", "settling"} => trial'[runner.exec].permit
        OBVIOUS
      <4>1. PICK e \in TrialExecs : e = runner.exec
        BY <3>1
      <4>2. ~(runner.pc = "permit" /\ runner'.pc \in {"running", "leave"})
        BY <2>1 DEF RunnerStays
      <4> QED
        BY <1>0, <1>1, <4>1, <4>2 DEF RunnerPlaced
    <3> QED
      BY <1>0, <2>1, <3>1, <3>2, <3>3 DEF RunnerPlaced, RunnerStays, Attended, Unpermitted
  <2>2. CASE ProcessEnds /\ runner'.pc = "down"
    BY <2>2 DEF ProcessEnds, RunnerPlaced, Attended, Unpermitted
  <2>3. CASE RestartServer /\ runner'.pc = "recover" /\ runner'.page \in {Started, {}}
    <3>1. \A e \in runner'.page : trial'[e].boot
      BY <1>1, <2>3 DEF Started
    <3> QED
      BY <2>3, <3>1 DEF RestartServer, RunnerPlaced, Attended, Unpermitted
  <2>4. CASE /\ \E e \in TrialExecs : RecoverWorker(e) /\ runner'.page = runner.page \ {e}
             /\ runner.pc = "recover" /\ runner'.pc = "recover" /\ host' = host
    <3>1. runner'.page \subseteq runner.page /\ runner.page \subseteq TrialExecs
      BY <1>0, <2>4 DEF Running
    <3> QED
      BY <1>0, <1>1, <2>4, <3>1 DEF RunnerPlaced, Attended, Unpermitted
  <2>5. CASE runner.pc = "recover" /\ runner'.pc = "idle" /\ host' = host
    BY <1>0, <2>5 DEF RunnerPlaced, Attended, Unpermitted
  <2> QED
    BY <2>0, <2>1, <2>2, <2>3, <2>4, <2>5 DEF OtherEffect
<1> QED
  BY <1>2, <1>3 DEF TrialNext

-----------------------------------------------------------------------------
(* Stops.                                                                   *)

(* An invalidation that reaches a live grant ends it or asks for the cancel.*)
LEMMA InvalidationMarks ==
  ASSUME NEW r \in Rows, Live(r)
  PROVE  \/ Invalidate(r).grant = "revoked"
         \/ Invalidate(r).grant = "claimed" /\ Invalidate(r).cancel
  BY DEF Rows, Live, Invalidate

(* A stop that reaches e in this step is held by what the step writes.      *)
LEMMA NewStopHeld ==
  ASSUME TrialInv, TrialNext, NEW e \in halted', e \notin halted
  PROVE  StopHeld(e)'
<1>0. trial \in [TrialExecs -> Rows] /\ trial' \in [TrialExecs -> Rows]
  BY RowsTyped DEF TrialInv, TrialTypeOK
<1>1. ASSUME e \in TrialExecs, Live(trial[e]), trial'[e] = Invalidate(trial[e])
      PROVE  StopHeld(e)'
  BY <1>0, <1>1, InvalidationMarks DEF StopHeld
<1>2. ASSUME NEW x, FenceAlias(x)
      PROVE  StopHeld(e)'
  BY <1>0, <1>1, <1>2 DEF FenceAlias
<1>3. CASE SetControl
  <2>1. e \in TrialExecs /\ trial[e].grant = "claimed"
        /\ trial'[e] = [trial[e] EXCEPT !.grant = "revoked", !.cancel = TRUE]
    BY <1>3 DEF SetControl
  <2> QED
    BY <1>0, <2>1 DEF StopHeld, Rows
<1>4. ASSUME NEW x \in TrialExecs, EditScope(x) \/ PolicyChanges(x)
      PROVE  StopHeld(e)'
  <2>1. e = x /\ Live(trial[x]) /\ trial' = [trial EXCEPT ![x] = Invalidate(@)]
    BY <1>4 DEF EditScope, PolicyChanges
  <2> QED
    BY <1>0, <1>1, <2>1
<1>5. CASE RestartServer
  <2>1. e \in TrialExecs /\ trial[e].grant = "claimed"
    BY <1>5 DEF RestartServer
  <2>2. CASE trial[e].boot
    <3>1. trial'[e] = trial[e]
      BY <1>5, <2>1, <2>2 DEF RestartServer
    <3>2. runner'.pc = "recover"
      BY <1>5 DEF RestartServer, Idle
    <3> QED
      BY <2>1, <3>1, <3>2 DEF StopHeld, Attends, Attended
  <2>3. CASE ~trial[e].boot
    <3>1. trial'[e] = [trial[e] EXCEPT !.grant = "revoked", !.cancel = TRUE]
      BY <1>5, <2>1, <2>3 DEF RestartServer
    <3> QED
      BY <1>0, <2>1, <3>1 DEF StopHeld, Rows
  <2> QED
    BY <2>2, <2>3
<1>6. ASSUME NEW x \in TrialExecs, RecoverWorker(x)
      PROVE  StopHeld(e)'
  BY <1>2, <1>6 DEF RecoverWorker, Slips, histories
<1>7. CASE Settle
  BY <1>2, <1>7 DEF Settle, Slips, histories
<1>8. ASSUME NEW x \in TrialExecs,
             \/ StageTrial(x) \/ ApproveTrial(x) \/ DeriveGrant(x) \/ ExpireTrial(x)
             \/ Lapse(x) \/ BridgeMoves(x)
      PROVE  FALSE
  BY <1>8 DEF StageTrial, ApproveTrial, DeriveGrant, ExpireTrial, Lapse, BridgeMoves, kernelVars,
       histories
<1>9. ~(PostMessage \/ ForegroundMoves \/ Shutdown \/ ProcessEnds \/ Recovered)
  BY DEF PostMessage, ForegroundMoves, Shutdown, ProcessEnds, Recovered, kernelVars, histories
<1>10. RunnerStep => Settle
  BY DEF RunnerStep, PickNext, ResolveBlocked, ClaimGrant, ClaimRefused, SpawnBridge,
     RegisterBoot, AwaitScope, IssuePermit, PollStops, SeeExit, Reap, LeaveUnrecorded,
       AbortClaim, kernelVars, histories
<1> QED
  BY <1>3, <1>4, <1>5, <1>6, <1>7, <1>8, <1>9, <1>10 DEF TrialNext, OwnerStep, LifeStep

(* Only a claim puts an execution in the hands of the runner.               *)
LEMMA AttendsStep ==
  ASSUME TrialInv, TrialNext, NEW e \in TrialExecs, Attends(e)'
  PROVE  Attends(e) \/ trial[e].grant = "queued"
<1>1. CASE RunnerStep
  BY <1>1, RunnerStepEffect DEF RunnerEffect, RunnerKeeps, Attends, Attended
<1>2. CASE OwnerStep \/ LifeStep \/ \E x \in TrialExecs : BridgeMoves(x)
  BY <1>2, OtherStepEffect DEF OtherEffect, RunnerStays, Attends, Attended
<1> QED
  BY <1>1, <1>2 DEF TrialNext

(* A claim that nobody works for is not recorded.                           *)
LEMMA HeldUnattended ==
  ASSUME TrialInv, TrialNext, NEW e \in TrialExecs,
         trial[e].grant = "claimed", ~Attends(e)
  PROVE  StopHeld(e)'
<1> DEFINE r == trial[e]
           s == trial'[e]
<1>0. r \in Rows /\ Agree(r) /\ RowEffect(e)
  BY RowStep DEF TrialInv, TrialTypeOK
<1>1. ~Attends(e)'
  BY AttendsStep
<1>2. s.grant \in {"claimed", "revoked", "interrupted"}
  <2> USE DEF Rows
  <2>1. CASE s = r \/ s = Expire(r) \/ s = Invalidate(r)
    BY <1>0, <2>1 DEF Expire, Invalidate
  <2>2. CASE s = Quiesce(r) \/ Revoking(r, s)
    BY <1>0, <2>2 DEF Quiesce, Revoking
  <2>3. CASE Booting(r, s) \/ Permitting(r, s)
    BY <1>0, <2>3 DEF Booting, Permitting
  <2>4. CASE r.prop = "none" \/ Granting(r, s) \/ Claiming(r, s) \/ Abandoning(r, s)
    BY <1>0, <2>4 DEF Agree, Granting, Claiming, Abandoning
  <2> QED
    BY <1>0, <2>1, <2>2, <2>3, <2>4 DEF RowEffect
<1> QED
  BY <1>1, <1>2 DEF StopHeld

(* Every stop is held after the step.                                       *)
LEMMA StopsStep ==
  ASSUME TrialInv, TrialNext, NEW e \in halted'
  PROVE  StopHeld(e)'
<1>1. CASE e \notin halted
  BY <1>1, NewStopHeld
<1>2. CASE e \in halted
  <2>1. StopHeld(e) /\ e \in TrialExecs /\ trial[e] \in Rows
    BY <1>2 DEF TrialInv, TrialTypeOK
  <2>2. CASE trial[e].grant = "claimed" /\ ~Attends(e)
    BY <2>1, <2>2, HeldUnattended
  <2>3. CASE \/ trial[e].grant \in {"revoked", "interrupted"}
             \/ trial[e].grant = "claimed" /\ trial[e].cancel
    BY <2>1, <2>3, RowStep, RowKeeps DEF StopHeld
  <2> QED
    BY <2>1, <2>2, <2>3 DEF StopHeld
<1> QED
  BY <1>1, <1>2

(* A permitted launch whose claim has ended left nothing running.           *)
LEMMA GoneStep ==
  ASSUME TrialInv, TrialNext, NEW e \in TrialExecs
  PROVE  EndedIsGone(e)'
<1> DEFINE r == trial[e]
           s == trial'[e]
<1>0. r \in Rows /\ EndedIsGone(e) /\ RowEffect(e) /\ Agree(r)
  BY RowStep DEF TrialInv, TrialTypeOK
<1>1. work[e].scope = "gone" => work'[e].scope = "gone"
  BY WorkTyped
<1>2. s.grant \in {"consumed", "interrupted"} /\ s.permit => work[e].scope = "gone"
  <2> USE DEF Rows, EndedIsGone, Agree
  <2>1. CASE s = r \/ (r.prop = "none" /\ s = [r EXCEPT !.prop = "staged"])
    BY <1>0, <2>1
  <2>2. CASE s = Expire(r) \/ s = Invalidate(r)
    BY <1>0, <2>2 DEF Expire, Invalidate
  <2>3. CASE Granting(r, s) \/ Revoking(r, s) \/ Claiming(r, s)
    BY <1>0, <2>3 DEF Granting, Revoking, Claiming
  <2>4. CASE Abandoning(r, s)
    BY <1>0, <2>4 DEF Abandoning, Quiesce
  <2>5. CASE Booting(r, s)
    BY <1>0, <2>5 DEF Booting
  <2>6. CASE Permitting(r, s)
    BY <1>0, <2>6 DEF Permitting
  <2>7. CASE work[e].scope = "gone"
    BY <2>7
  <2>8. CASE s = Quiesce(r) /\ (r.permit => work[e].scope = "gone")
    BY <1>0, <2>8 DEF Quiesce
  <2> QED
    BY <1>0, <2>1, <2>2, <2>3, <2>4, <2>5, <2>6, <2>7, <2>8 DEF RowEffect
<1> QED
  BY <1>1, <1>2 DEF EndedIsGone

-----------------------------------------------------------------------------
(* Loose work.                                                              *)

(* No fence stands while the runner has an execution in its hands.          *)
LEMMA UnfencedStep ==
  ASSUME TrialInv, TrialNext
  PROVE  Unfenced'
<1>0. Unfenced /\ Fencing
  BY FencesTyped DEF TrialInv
<1>1. CASE RunnerStep
  BY <1>0, <1>1, RunnerStepEffect DEF RunnerEffect, Unfenced, Attended
<1>2. CASE OwnerStep \/ LifeStep \/ \E e \in TrialExecs : BridgeMoves(e)
  <2>1. OtherEffect
    BY <1>2, OtherStepEffect
  <2>2. CASE RunnerStays
    BY <1>0, <2>2 DEF Fencing, RunnerStays, Unfenced, Attended
  <2> QED
    BY <2>1, <2>2 DEF OtherEffect, RunnerStays, Unfenced, Attended
<1> QED
  BY <1>1, <1>2 DEF TrialNext

(* No step loses sight of a permitted launch that may still run.            *)
LEMMA AccountedStep ==
  ASSUME TrialInv, TrialNext, NEW e \in TrialExecs
  PROVE  Accounted(e)'
<1> SUFFICES ASSUME trial'[e].permit, work'[e].scope # "gone"
             PROVE  \/ Attends(e)' \/ e \in fences' \union slipped' \/ runner'.pc = "down"
                    \/ runner'.pc = "recover" /\ e \in runner'.page
  BY DEF Accounted
<1>0. /\ Accounted(e) /\ Fencing /\ Agree(trial[e]) /\ EndedIsGone(e)
      /\ trial[e] \in Rows /\ RunnerPlaced
  BY FencesTyped DEF TrialInv, TrialTypeOK
<1>1. work[e].scope # "gone"
  BY WorkTyped
<1>2. \/ trial[e].permit
      \/ runner.pc = "permit" /\ runner.exec = e /\ runner'.pc \in {"running", "leave"}
  BY <1>0, RowStep, RowKeeps
<1>3. CASE e \in fences \union slipped
  BY <1>0, <1>3 DEF Fencing
<1>4. CASE RunnerStep
  <2>1. RunnerEffect /\ runner.pc # "down" /\ runner.pc # "recover"
    BY <1>4, RunnerStepEffect
  <2>2. Attends(e) \/ e \in fences \union slipped
    BY <1>0, <1>1, <1>2, <2>1 DEF Accounted, Attends, Attended
  <2>3. CASE Attends(e)
    <3>1. CASE runner'.pc = "idle" /\ PutDown(runner.exec)
      <4>1. runner.pc \notin Unpermitted
        BY <1>0, <1>2, <2>3, <3>1 DEF RunnerPlaced, Attends
      <4> QED
        BY <1>1, <2>3, <3>1, <4>1 DEF PutDown, Attends
    <3>2. CASE RunnerKeeps(runner.exec)
      BY <2>3, <3>2 DEF RunnerKeeps, Attends, Attended
    <3> QED
      BY <2>1, <2>3, <3>1, <3>2 DEF RunnerEffect, Attends, Attended
  <2> QED
    BY <1>3, <2>2, <2>3
<1>5. CASE OwnerStep \/ LifeStep \/ \E x \in TrialExecs : BridgeMoves(x)
  <2>1. OtherEffect
    BY <1>5, OtherStepEffect
  <2>2. trial[e].permit
    BY <1>2, <2>1 DEF OtherEffect, RunnerStays
  <2>3. CASE RunnerStays
    BY <1>0, <1>1, <1>3, <2>2, <2>3 DEF Accounted, RunnerStays, Attends
  <2>4. CASE RestartServer
    <3>1. trial[e].grant \in {"claimed", "revoked"} /\ trial[e].boot
      BY <1>0, <1>1, <2>2 DEF Agree, EndedIsGone, Rows
    <3>2. trial[e].grant = "revoked" => e \in fences' \union slipped'
      BY <2>2, <2>4 DEF RestartServer
    <3>3. trial[e].grant = "claimed" => e \in Started
      BY <3>1 DEF Started
    <3>4. \/ runner'.pc = "recover" /\ runner'.page = Started
          \/ Started \subseteq fences' \union slipped'
      BY <2>4 DEF RestartServer, Idle, Started
    <3> QED
      BY <3>1, <3>2, <3>3, <3>4
  <2>5. ASSUME NEW x \in TrialExecs, RecoverWorker(x), runner'.page = runner.page \ {x},
               runner'.pc = "recover"
        PROVE  e \in fences' \union slipped' \/ e \in runner'.page
    <3>1. runner.pc = "recover"
      BY <2>5 DEF RecoverWorker
    <3>2. e \in runner.page \/ e \in fences \union slipped
      BY <1>0, <1>1, <2>2, <3>1 DEF Accounted, Attends, Attended
    <3>3. CASE e = x
      BY <1>1, <2>5, <3>3 DEF RecoverWorker, FenceAlias, Slips
    <3> QED
      BY <1>0, <2>5, <3>2, <3>3 DEF Fencing
  <2>6. CASE Recovered /\ runner.pc = "recover" /\ runner.page = {}
    BY <1>0, <1>1, <1>3, <2>2, <2>6 DEF Accounted, Attends, Attended
  <2> QED
    BY <2>1, <2>3, <2>4, <2>5, <2>6 DEF OtherEffect
<1> QED
  BY <1>4, <1>5 DEF TrialNext

-----------------------------------------------------------------------------
(* The theorems.                                                            *)

LEMMA TrialStarts ==
  ASSUME TrialInit
  PROVE  TrialInv
<1> USE DEF TrialInit
<1>1. NewRow \in Rows /\ Agree(NewRow)
  BY DEF NewRow, Rows, Agree
<1>2. TrialTypeOK
  BY <1>1, TrialAssumption DEF TrialTypeOK, Idle, Places
<1>3. \A e \in TrialExecs : Agree(trial[e]) /\ EndedIsGone(e) /\ Accounted(e)
  BY <1>1 DEF EndedIsGone, Accounted, NewRow
<1>4. RunnerPlaced /\ Unfenced
  BY DEF RunnerPlaced, Unfenced, Idle, Attended, Unpermitted
<1> QED
  BY <1>2, <1>3, <1>4 DEF TrialInv

LEMMA TrialSteps ==
  ASSUME TrialInv, [TrialNext]_trialVars
  PROVE  TrialInv'
<1>1. CASE TrialNext
  <2>1. runner' \in Running /\ relay' \in Relays
    BY <1>1, RunnerStepEffect, OtherStepEffect DEF TrialNext
  <2>2. TrialTypeOK'
    BY <1>1, <2>1, RowsTyped, OwnerTyped, ControlTyped, FencesTyped, QuotaTyped, HostTyped,
       WorkTyped DEF TrialTypeOK, Saying, Working, Running, Relays, Fencing
  <2>3. \A e \in TrialExecs : Agree(trial'[e]) /\ EndedIsGone(e)' /\ Accounted(e)'
    BY <1>1, RowsStep, GoneStep, AccountedStep
  <2>4. \A e \in halted' : StopHeld(e)'
    BY <1>1, StopsStep
  <2>5. RunnerPlaced' /\ Unfenced'
    BY <1>1, PlacedStep, UnfencedStep
  <2> QED
    BY <2>2, <2>3, <2>4, <2>5 DEF TrialInv
<1>2. CASE UNCHANGED trialVars
  BY <1>2 DEF trialVars, histories, TrialInv, TrialTypeOK, EndedIsGone, Accounted, StopHeld,
     Attends, RunnerPlaced, Unfenced
<1> QED
  BY <1>1, <1>2

(* The rows of the authority tables, the place of the runner and the marks  *)
(* a stop leaves stay consistent through every interleaving of the owner's  *)
(* commands, the runner, recovery, crashes and the bridge.                  *)
THEOREM TrialInvariance == TrialSpec => []TrialInv
<1>1. TrialInit => TrialInv
  BY TrialStarts
<1>2. TrialInv /\ [TrialNext]_trialVars => TrialInv'
  BY TrialSteps
<1> QED
  BY <1>1, <1>2, PTL DEF TrialSpec

(* Every variable of the model keeps its type.                              *)
THEOREM TrialTypeCorrect == TrialSpec => []TrialTypeOK
<1>1. TrialInv => TrialTypeOK
  BY DEF TrialInv
<1> QED
  BY <1>1, TrialInvariance, PTL

(* The authority promises of the kernel's trial tables: the rows of an      *)
(* execution tell one story, a stop that reached a live grant is final      *)
(* however late the worker's result arrives, and a permitted launch that    *)
(* may still run is in the hands of the runner or of recovery, or is fenced *)
(* and has nothing launched beside it, but for the three cases that slip.   *)
THEOREM TrialSound == TrialSpec => []TrialSafe
<1>1. TrialInv => TrialSafe
  <2> SUFFICES ASSUME TrialInv PROVE TrialSafe
    OBVIOUS
  <2>1. RowsAgree
    BY DEF TrialInv, Agree, RowsAgree
  <2>2. StopIsFinal
    BY DEF TrialInv, TrialTypeOK, StopHeld, Agree, StopIsFinal
  <2>3. LooseWorkIsFenced
    <3> SUFFICES ASSUME NEW e \in TrialExecs, trial[e].permit, work[e].scope = "active",
                        e \notin slipped, host # "down", runner.exec # e
                 PROVE  IF runner.pc = "recover" THEN e \in runner.page \union fences
                        ELSE e \in fences /\ runner.pc \in {"idle", "resolve"}
      BY DEF LooseWorkIsFenced
    <3>1. e \in fences \/ (runner.pc = "recover" /\ e \in runner.page)
      BY DEF TrialInv, Accounted, Attends, RunnerPlaced
    <3>2. runner.pc \in Attended => fences = {}
      BY DEF TrialInv, Unfenced
    <3>3. runner.pc \in Places /\ runner.pc # "down"
      BY DEF TrialInv, TrialTypeOK, RunnerPlaced
    <3> QED
      BY <3>1, <3>2, <3>3 DEF Places, Attended
  <2> QED
    BY <2>1, <2>2, <2>3 DEF TrialSafe
<1> QED
  BY <1>1, TrialInvariance, PTL
=============================================================================
