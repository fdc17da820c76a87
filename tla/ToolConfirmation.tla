-------------------------- MODULE ToolConfirmation --------------------------
(***************************************************************************)
(* The voice gate of the broker (consumeOrRecordConfirmation in             *)
(* packages/kernel/src/broker.ts): a dictated write is refused first and    *)
(* may pass, byte for byte the same, in the user's next turn.               *)
(*                                                                          *)
(* One session.  A key is a tool with the hash of its arguments.  A Run is  *)
(* known by its place in `runs`, a turn by its seq.  At most one Run is     *)
(* active at a time (RunEngine proves it).                                  *)
(***************************************************************************)
EXTENDS Naturals, Sequences

CONSTANTS
  Keys,         \* tool name and args hash
  Ttl,          \* PROPOSAL_TTL_MS, in ticks
  MaxTurns,     \* bound: turns of the session
  MaxRuns,      \* bound: Runs of the session
  MaxAttempts,  \* bound: dictated writes attempted
  MaxTime,      \* bound: the clock
  None          \* no row

ASSUME ConfirmationAssumption ==
  /\ Ttl \in Nat
  /\ MaxTurns \in Nat
  /\ MaxRuns \in Nat
  /\ MaxAttempts \in Nat
  /\ MaxTime \in Nat
  /\ None \notin [blocked : Nat, created : Nat]

VARIABLES
  turns,     \* turns by seq: the kind of their input
  runs,      \* runs: the turn they answer and their status
  pending,   \* the unconsumed row of tool_confirmations, per key
  attempts,  \* ghost: the attempts the gate decided, in order
  clock

gateVars == <<turns, runs, pending, attempts, clock>>

Row == [blocked : Nat, created : Nat]

GateTypeOK ==
  /\ turns \in Seq({"user_text", "companion_text"})
  /\ runs \in Seq([turn : 1 .. Len(turns), status : {"running", "completed", "failed"}])
  /\ pending \in [Keys -> Row \union {None}]
  /\ \A k \in Keys : pending[k] # None => pending[k].blocked \in 1 .. Len(runs)
  /\ attempts \in Seq([key : Keys, run : 1 .. Len(runs), at : Nat, passed : BOOLEAN])
  /\ clock \in 0 .. MaxTime

GateInit ==
  /\ turns = << >>
  /\ runs = << >>
  /\ pending = [k \in Keys |-> None]
  /\ attempts = << >>
  /\ clock = 0

Current == Len(runs)
Active == runs # << >> /\ runs[Current].status = "running"

-----------------------------------------------------------------------------
(* The session: posts, retries, the end of a Run (failed stands for every   *)
(* end but completion), time.                                               *)

PostTurn(kind) ==
  /\ ~ Active
  /\ Len(turns) < MaxTurns
  /\ Len(runs) < MaxRuns
  /\ turns' = Append(turns, kind)
  /\ runs' = Append(runs, [turn |-> Len(turns) + 1, status |-> "running"])
  /\ UNCHANGED <<pending, attempts, clock>>

RetryTurn(t) ==
  /\ ~ Active
  /\ Len(runs) < MaxRuns
  /\ runs' = Append(runs, [turn |-> t, status |-> "running"])
  /\ UNCHANGED <<turns, pending, attempts, clock>>

RunEnds(status) ==
  /\ Active
  /\ runs' = [runs EXCEPT ![Current].status = status]
  /\ UNCHANGED <<turns, pending, attempts, clock>>

Tick ==
  /\ clock < MaxTime
  /\ clock' = clock + 1
  /\ UNCHANGED <<turns, runs, pending, attempts>>

-----------------------------------------------------------------------------
(* The gate.                                                                *)

(* Turns of the user strictly between turns s and t.                        *)
UserTurnsBetween(s, t) ==
  {u \in 1 .. Len(turns) : s < u /\ u < t /\ turns[u] = "user_text"}

(* Mutant: the end of the blocking Run does not matter.                     *)
IsReplyToAny(b) ==
  /\ runs[Current].turn > runs[b].turn
  /\ UserTurnsBetween(runs[b].turn, runs[Current].turn) = {}

(* The current Run answers the user's next turn after that of Run b, which  *)
(* completed.                                                               *)
IsReplyTo(b) ==
  /\ runs[b].status = "completed"
  /\ runs[Current].turn > runs[b].turn
  /\ UserTurnsBetween(runs[b].turn, runs[Current].turn) = {}

RowLive(row) == clock - row.created <= Ttl

Decided(k, passed) ==
  attempts' = Append(attempts, [key |-> k, run |-> Current, at |-> clock, passed |-> passed])

(* Mutant: a confirmed row stays.                                           *)
ConsumeRowKeeping(k) ==
  /\ pending[k] # None
  /\ RowLive(pending[k])
  /\ pending[k].blocked # Current
  /\ UNCHANGED pending
  /\ Decided(k, IsReplyTo(pending[k].blocked))

(* A live row of another Run: it is consumed by the reply to that Run;      *)
(* anything else is refused and the row stays.                              *)
ConsumeRow(k) ==
  /\ pending[k] # None
  /\ RowLive(pending[k])
  /\ pending[k].blocked # Current
  /\ IF IsReplyTo(pending[k].blocked)
     THEN /\ pending' = [pending EXCEPT ![k] = None]
          /\ Decided(k, TRUE)
     ELSE /\ UNCHANGED pending
          /\ Decided(k, FALSE)

(* The second attempt of one Run.                                           *)
RepeatInRun(k) ==
  /\ pending[k] # None
  /\ pending[k].blocked = Current
  /\ UNCHANGED pending
  /\ Decided(k, FALSE)

(* Mutant: the row names the Run to come.                                   *)
RecordRowNextTurn(k) ==
  /\ \/ pending[k] = None
     \/ pending[k] # None /\ ~ RowLive(pending[k]) /\ pending[k].blocked # Current
  /\ pending' = [pending EXCEPT ![k] = [blocked |-> Current + 1, created |-> clock]]
  /\ Decided(k, FALSE)

(* No row, or a stale one of another Run: this attempt becomes the one to   *)
(* confirm.                                                                 *)
RecordRow(k) ==
  /\ \/ pending[k] = None
     \/ pending[k] # None /\ ~ RowLive(pending[k]) /\ pending[k].blocked # Current
  /\ pending' = [pending EXCEPT ![k] = [blocked |-> Current, created |-> clock]]
  /\ Decided(k, FALSE)

Attempt(k) ==
  /\ Active
  /\ turns[runs[Current].turn] = "user_text"
  /\ Len(attempts) < MaxAttempts
  /\ ConsumeRow(k) \/ RepeatInRun(k) \/ RecordRow(k)
  /\ UNCHANGED <<turns, runs, clock>>

(* A Run that does not answer the user's text cannot pass or record.        *)
AttemptElsewhere(k) ==
  /\ Active
  /\ turns[runs[Current].turn] # "user_text"
  /\ Len(attempts) < MaxAttempts
  /\ Decided(k, FALSE)
  /\ UNCHANGED <<turns, runs, pending, clock>>

GateNext ==
  \/ \E kind \in {"user_text", "companion_text"} : PostTurn(kind)
  \/ \E t \in 1 .. Len(turns) : RetryTurn(t)
  \/ \E status \in {"completed", "failed"} : RunEnds(status)
  \/ Tick
  \/ \E k \in Keys : Attempt(k) \/ AttemptElsewhere(k)

GateSpec == GateInit /\ [][GateNext]_gateVars

-----------------------------------------------------------------------------
(* Properties, stated on the attempts and not on the table.                 *)

(* A write passes only as the reply to a refusal of the same call: the      *)
(* refused Run completed, so its answer asked the user; the user has said   *)
(* nothing else in between; and at most the time to live has passed         *)
(* (consumeOrRecordConfirmation).                                           *)
PassedWasAsked ==
  \A j \in 1 .. Len(attempts) :
    attempts[j].passed =>
      \E i \in 1 .. (j - 1) :
        LET asked == runs[attempts[i].run]
            reply == runs[attempts[j].run]
        IN /\ attempts[i].key = attempts[j].key
           /\ ~ attempts[i].passed
           /\ asked.status = "completed"
           /\ asked.turn < reply.turn
           /\ UserTurnsBetween(asked.turn, reply.turn) = {}
           /\ attempts[j].at - attempts[i].at <= Ttl

(* One refusal buys one write: between two writes of the same call there is *)
(* a refusal in a Run of its own, whatever is retried                       *)
(* (consumed_at, one use).                                                  *)
AskedOncePerWrite ==
  \A i, j \in 1 .. Len(attempts) :
    (i < j /\ attempts[i].passed /\ attempts[j].passed
       /\ attempts[i].key = attempts[j].key) =>
      \E n \in (i + 1) .. (j - 1) :
        /\ attempts[n].key = attempts[i].key
        /\ ~ attempts[n].passed
        /\ attempts[n].run # attempts[j].run

(* The gate is sound: both of the above.                                    *)
ConfirmationSafe == PassedWasAsked /\ AskedOncePerWrite
=============================================================================
