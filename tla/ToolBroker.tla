----------------------------- MODULE ToolBroker -----------------------------
(***************************************************************************)
(* The broker every tool call of a Run goes through                         *)
(* (packages/kernel/src/broker.ts): request budget, refusal, deduplication, *)
(* two levels of slots, the handler and its normalizer under one deadline,  *)
(* the audit row and the two events of a call.                              *)
(*                                                                          *)
(* One action is the code between two awaits.  The values of pc are those   *)
(* awaits.  A tool and its validated arguments are a key.  The two          *)
(* cumulative output budgets are one counter, a delivered result costs 1.   *)
(***************************************************************************)
EXTENDS Naturals, Sequences, FiniteSets

CONSTANTS
  Calls,        \* logical calls (tool_calls rows)
  Runs,         \* Runs that were picked up
  Keys,         \* deduplication keys
  MaxRequests,  \* budgets.maxToolRequestsPerRun
  MaxPerRun,    \* budgets.maxConcurrentPerRun
  MaxProcess,   \* budgets.maxConcurrentProcess
  MaxOutput,    \* budgets.maxModelFacingOutputBytesPerRun, in results
  MaxFaults,    \* bound: storage failures
  MaxAborts,    \* bound: calls that time out or are aborted
  None          \* SQL NULL, or no value

ASSUME BrokerAssumption ==
  /\ MaxRequests \in Nat
  /\ MaxPerRun \in Nat \ {0}
  /\ MaxProcess \in Nat \ {0}
  /\ MaxOutput \in Nat
  /\ MaxFaults \in Nat
  /\ MaxAborts \in Nat
  /\ None \notin Calls
  /\ "process" \notin Runs

(* What a call asked for, and an entry of the deduplication table.          *)
Request == [run : Runs, key : Keys, refresh : BOOLEAN, leader : Calls \union {None}]
Entry == [leader : Calls, done : BOOLEAN]

(* NULL is no object and no string.                                         *)
ASSUME NoneAssumption ==
  None \notin Request \union Entry \union {"succeeded", "failed", "cancelled"}

VARIABLES
  \* The database.
  running,   \* Runs whose status is running
  used,      \* runs.tool_requests_used
  life,      \* tool_calls.lifecycle_status
  row,       \* the outcome columns of tool_calls
  journal,   \* the tool events of a Run
  \* The broker.
  req,       \* the request of a call, and the call it coalesced with
  dedup,     \* the deduplication table of a Run
  spent,     \* cumulative output delivered to a Run
  slot,      \* the per-run slots and the process slot
  \* One call.
  pc,        \* the await a call is at
  signal,    \* abortKind
  work,      \* its handler, then its normalizer
  detached,  \* calls that no longer await their work, which holds its slots
  settled,   \* what the call will settle to, or did
  \* Bounds.
  faults

auditVars == <<life, row, journal, settled, faults>>
callVars == <<signal, work, detached>>
vars == <<running, used, req, dedup, spent, slot, pc, auditVars, callVars>>

Slots == Runs \union {"process"}
Capacity(s) == IF s = "process" THEN MaxProcess ELSE MaxPerRun

Final ==
  [actual : {None, "succeeded", "failed", "denied", "deduplicated", "timed_out", "cancelled"},
   reported : {None, "succeeded", "failed", "cancelled"},
   disposition : {"none", "accepted", "discarded"},
   reused : Calls \union {None}]

Outcome(actual, reported, disposition) ==
  [actual |-> actual, reported |-> reported, disposition |-> disposition, reused |-> None]

Blank == Outcome(None, None, "none")
Success == Outcome("succeeded", "succeeded", "accepted")
Reuse(c) == [Outcome("deduplicated", None, "accepted") EXCEPT !.reused = c]

(* Timed out or cancelled, by the kind of abort.                            *)
Aborted(c, reported, disposition) ==
  Outcome(IF signal[c] = "timeout" THEN "timed_out" ELSE "cancelled", reported, disposition)

Requested(c) == [type |-> "tool.requested", call |-> c, final |-> None]
Completed(c, final) == [type |-> "tool.completed", call |-> c, final |-> final]
Event == [type : {"tool.requested", "tool.completed"}, call : Calls, final : Final \union {None}]

Waits == {"run slot", "run slot held", "process slot", "slots held",
          "handler", "normalizer", "leader"}
Over == {"returned", "threw"}

TypeOK ==
  /\ running \subseteq Runs
  /\ used \in [Runs -> 0 .. MaxRequests]
  /\ life \in [Calls -> {"none", "requested", "running", "finished"}]
  /\ row \in [Calls -> Final]
  /\ journal \in [Runs -> Seq(Event)]
  /\ req \in [Calls -> Request \union {None}]
  /\ dedup \in [Runs -> [Keys -> Entry \union {None}]]
  /\ spent \in [Runs -> 0 .. MaxOutput]
  /\ slot \in [Slots -> [active : Nat, waiters : Seq(Calls)]]
  /\ pc \in [Calls -> {"new", "landing"} \union Waits \union Over]
  /\ signal \in [Calls -> {"none", "timeout", "cancel"}]
  /\ work \in [Calls -> {"none", "handler", "value", "failed", "cancelled",
                         "normalizer", "normalized", "rejected"}]
  /\ detached \subseteq Calls
  /\ settled \in [Calls -> Final]
  /\ faults \in 0 .. MaxFaults

Init ==
  /\ running = Runs
  /\ used = [r \in Runs |-> 0]
  /\ life = [c \in Calls |-> "none"]
  /\ row = [c \in Calls |-> Blank]
  /\ journal = [r \in Runs |-> << >>]
  /\ req = [c \in Calls |-> None]
  /\ dedup = [r \in Runs |-> [k \in Keys |-> None]]
  /\ spent = [r \in Runs |-> 0]
  /\ slot = [s \in Slots |-> [active |-> 0, waiters |-> << >>]]
  /\ pc = [c \in Calls |-> "new"]
  /\ signal = [c \in Calls |-> "none"]
  /\ work = [c \in Calls |-> "none"]
  /\ detached = {}
  /\ settled = [c \in Calls |-> Blank]
  /\ faults = 0

-----------------------------------------------------------------------------
(* The audit.                                                               *)

(* The row as INSERT left it, when the call throws before finishing it.     *)
Throws(c) ==
  /\ faults < MaxFaults
  /\ faults' = faults + 1
  /\ life' = [life EXCEPT ![c] = IF @ = "none" THEN "requested" ELSE @]
  /\ pc' = [pc EXCEPT ![c] = "threw"]
  /\ UNCHANGED <<row, settled>>

(* Mutant: the row is updated outside the transaction that appends the      *)
(* event, and survives its failure.                                         *)
CommitFinishedInTwo(c, r, final, log) ==
  \/ /\ life' = [life EXCEPT ![c] = "finished"]
     /\ row' = [row EXCEPT ![c] = final]
     /\ journal' = [journal EXCEPT ![r] =
                      IF r \in running THEN Append(log, Completed(c, final)) ELSE log]
     /\ settled' = [settled EXCEPT ![c] = final]
     /\ pc' = [pc EXCEPT ![c] = "returned"]
     /\ UNCHANGED faults
  \/ /\ r \in running
     /\ faults < MaxFaults
     /\ faults' = faults + 1
     /\ life' = [life EXCEPT ![c] = "finished"]
     /\ row' = [row EXCEPT ![c] = final]
     /\ pc' = [pc EXCEPT ![c] = "threw"]
     /\ journal' = [journal EXCEPT ![r] = log]
     /\ UNCHANGED settled

(* commitFinished: row and event together while the Run is running, the row *)
(* alone once it is not; a storage failure rolls both back and throws.  log *)
(* is the journal of the Run so far.                                        *)
CommitFinished(c, r, final, log) ==
  \/ /\ life' = [life EXCEPT ![c] = "finished"]
     /\ row' = [row EXCEPT ![c] = final]
     /\ journal' = [journal EXCEPT ![r] =
                      IF r \in running THEN Append(log, Completed(c, final)) ELSE log]
     /\ settled' = [settled EXCEPT ![c] = final]
     /\ pc' = [pc EXCEPT ![c] = "returned"]
     /\ UNCHANGED faults
  \/ /\ r \in running
     /\ Throws(c)
     /\ journal' = [journal EXCEPT ![r] = log]

(* Mutant: reuse is free.                                                   *)
DeliverReuseFree(c, r, leader, log) ==
  /\ CommitFinished(c, r, Reuse(leader), log)
  /\ UNCHANGED spent

(* reserveCumulative, then the result of `leader` or the refusal of it.     *)
DeliverReuse(c, r, leader, log) ==
  \/ /\ spent[r] < MaxOutput
     /\ spent' = [spent EXCEPT ![r] = @ + 1]
     /\ CommitFinished(c, r, Reuse(leader), log)
  \/ /\ spent[r] >= MaxOutput
     /\ \E d \in {"none", "discarded"} :
          CommitFinished(c, r, Outcome("failed", "succeeded", d), log)
     /\ UNCHANGED spent

-----------------------------------------------------------------------------
(* Slots.                                                                   *)

Granted(p) == IF p = "run slot" THEN "run slot held" ELSE "slots held"

(* Slot.acquire by c.                                                       *)
Acquire(s, c) ==
  IF slot[s].active < Capacity(s)
  THEN /\ slot' = [slot EXCEPT ![s].active = @ + 1]
       /\ pc' = [pc EXCEPT ![c] = IF s = "process" THEN "slots held" ELSE "run slot held"]
  ELSE /\ slot' = [slot EXCEPT ![s].waiters = Append(@, c)]
       /\ pc' = [pc EXCEPT ![c] = IF s = "process" THEN "process slot" ELSE "run slot"]

(* Slot.release: the first waiter's grant counts itself in, and only        *)
(* without a waiter is the count lowered.                                   *)
Released(q) ==
  IF q.waiters # << >>
  THEN [active |-> q.active + 1, waiters |-> Tail(q.waiters)]
  ELSE [active |-> IF q.active = 0 THEN 0 ELSE q.active - 1, waiters |-> << >>]

(* c releases the slots S and goes on at next.                              *)
Release(S, c, next) ==
  LET woken == {Head(slot[s].waiters) : s \in {t \in S : slot[t].waiters # << >>}}
  IN /\ slot' = [s \in Slots |-> IF s \in S THEN Released(slot[s]) ELSE slot[s]]
     /\ pc' = [d \in Calls |-> IF d \in woken THEN Granted(pc[d])
                               ELSE IF d = c THEN next ELSE pc[d]]

Both(c) == {req[c].run, "process"}

-----------------------------------------------------------------------------
(* invokeInternal up to its first await.                                    *)

Arrives(c, r, k, refresh, leader) ==
  /\ pc[c] = "new"
  /\ req' = [req EXCEPT ![c] = [run |-> r, key |-> k, refresh |-> refresh, leader |-> leader]]

(* Mutant: the increment is not conditional.                                *)
ReserveBudgetAlways(r) ==
  used' = [used EXCEPT ![r] = @ + 1]

ReserveBudget(r) ==
  /\ used[r] < MaxRequests
  /\ used' = [used EXCEPT ![r] = @ + 1]

(* The bound on aborts.                                                     *)
MayAbort == Cardinality({c \in Calls : signal[c] # "none"}) < MaxAborts

Inflight(c) == [leader |-> c, done |-> FALSE]

(* The budget is exhausted: a row, and a completed event if running.        *)
InvokeOverBudget(c, r, k) ==
  /\ used[r] >= MaxRequests
  /\ Arrives(c, r, k, FALSE, None)
  /\ CommitFinished(c, r, Outcome("failed", None, "none"), journal[r])
  /\ UNCHANGED <<running, used, dedup, spent, slot, callVars>>

InvokeNotRunning(c, r, k) ==
  /\ r \notin running
  /\ ReserveBudget(r)
  /\ Arrives(c, r, k, FALSE, None)
  /\ CommitFinished(c, r, Outcome("cancelled", None, "none"), journal[r])
  /\ UNCHANGED <<running, dedup, spent, slot, callVars>>

(* Mutant: the failure to persist the requested event is swallowed.         *)
InvokeUnrecordedLeads(c, r, k) ==
  /\ r \in running
  /\ ReserveBudget(r)
  /\ Arrives(c, r, k, FALSE, None)
  /\ Acquire(r, c)
  /\ life' = [life EXCEPT ![c] = "requested"]
  /\ UNCHANGED <<running, dedup, spent, journal, row, settled, faults, callVars>>

(* The requested event does not persist: nothing further happens.           *)
InvokeUnrecorded(c, r, k) ==
  /\ r \in running
  /\ ReserveBudget(r)
  /\ Arrives(c, r, k, FALSE, None)
  /\ Throws(c)
  /\ UNCHANGED <<running, dedup, spent, slot, journal, callVars>>

(* Invalid, unknown, not allowed, not read-only, or to be confirmed first.  *)
InvokeRefused(c, r, k) ==
  /\ r \in running
  /\ ReserveBudget(r)
  /\ Arrives(c, r, k, FALSE, None)
  /\ CommitFinished(c, r, Outcome("denied", None, "none"), Append(journal[r], Requested(c)))
  /\ UNCHANGED <<running, dedup, spent, slot, callVars>>

(* An earlier success with the same key is reused.                          *)
InvokeReuses(c, r, k) ==
  /\ r \in running
  /\ dedup[r][k] # None
  /\ dedup[r][k].done
  /\ ReserveBudget(r)
  /\ Arrives(c, r, k, FALSE, None)
  /\ DeliverReuse(c, r, dedup[r][k].leader, Append(journal[r], Requested(c)))
  /\ UNCHANGED <<running, dedup, slot, callVars>>

(* A call with the same key is in flight: await its promise.                *)
InvokeCoalesces(c, r, k) ==
  /\ r \in running
  /\ dedup[r][k] # None
  /\ ~ dedup[r][k].done
  /\ ReserveBudget(r)
  /\ Arrives(c, r, k, FALSE, dedup[r][k].leader)
  /\ life' = [life EXCEPT ![c] = "requested"]
  /\ journal' = [journal EXCEPT ![r] = Append(@, Requested(c))]
  /\ pc' = [pc EXCEPT ![c] = "leader"]
  /\ UNCHANGED <<running, dedup, spent, slot, row, settled, faults, callVars>>

(* The call leads: it registers its entry, over whatever was there, and     *)
(* asks for the slot of the Run, unless its caller has aborted already.     *)
InvokeLeads(c, r, k, refresh) ==
  /\ r \in running
  /\ refresh \/ dedup[r][k] = None
  /\ ReserveBudget(r)
  /\ Arrives(c, r, k, refresh, None)
  /\ life' = [life EXCEPT ![c] = "requested"]
  /\ journal' = [journal EXCEPT ![r] = Append(@, Requested(c))]
  /\ dedup' = [dedup EXCEPT ![r][k] = Inflight(c)]
  /\ \/ /\ Acquire(r, c)
        /\ UNCHANGED signal
     \/ /\ MayAbort
        /\ signal' = [signal EXCEPT ![c] = "cancel"]
        /\ pc' = [pc EXCEPT ![c] = "run slot"]
        /\ UNCHANGED slot
  /\ UNCHANGED <<running, spent, row, settled, faults, work, detached>>

-----------------------------------------------------------------------------
(* executePhysical.                                                         *)

(* Mutant: a queued call does not listen to its signal.                     *)
AbortUnlessQueued(c, kind) ==
  /\ pc[c] \in Waits \ {"run slot", "process slot"}
  /\ signal[c] = "none"
  /\ MayAbort
  /\ signal' = [signal EXCEPT ![c] = kind]
  /\ UNCHANGED <<running, used, req, dedup, spent, slot, pc, auditVars, work, detached>>

(* indexOf and splice: the queue w without the grant of c.                  *)
Spliced(w, c) ==
  IF \E i \in 1 .. Len(w) : w[i] = c
  THEN LET index == CHOOSE i \in 1 .. Len(w) : w[i] = c
       IN [j \in 1 .. (Len(w) - 1) |-> IF j < index THEN w[j] ELSE w[j + 1]]
  ELSE w

(* The deadline passes, or the caller aborts: a queued call leaves its      *)
(* queue, a call at any other await finds out when it resumes.              *)
Abort(c, kind) ==
  /\ pc[c] \in Waits
  /\ signal[c] = "none"
  /\ MayAbort
  /\ signal' = [signal EXCEPT ![c] = kind]
  /\ slot' = [s \in Slots |-> [slot[s] EXCEPT !.waiters = Spliced(@, c)]]
  /\ UNCHANGED <<running, used, req, dedup, spent, pc, auditVars, work, detached>>

Settles(c, final) == settled' = [settled EXCEPT ![c] = final]

(* Resumption of a queued call that was aborted.                            *)
QueueAborted(c) ==
  /\ signal[c] # "none"
  /\ \/ /\ pc[c] = "run slot"
        /\ pc' = [pc EXCEPT ![c] = "landing"]
        /\ UNCHANGED slot
     \/ /\ pc[c] = "process slot"
        /\ Release({req[c].run}, c, "landing")
  /\ Settles(c, Aborted(c, None, "none"))
  /\ UNCHANGED <<running, used, req, dedup, spent, life, row, journal, faults, callVars>>

TakeProcessSlot(c) ==
  /\ pc[c] = "run slot held"
  /\ \/ /\ signal[c] = "none"
        /\ Acquire("process", c)
        /\ UNCHANGED settled
     \/ /\ signal[c] # "none"
        /\ Release({req[c].run}, c, "landing")
        /\ Settles(c, Aborted(c, None, "none"))
  /\ UNCHANGED <<running, used, req, dedup, spent, life, row, journal, faults, callVars>>

(* Mutant: the status of the Run is not read again after the queue.         *)
MayStartUnchecked(c) == signal[c] = "none"

MayStart(c) == req[c].run \in running /\ signal[c] = "none"

(* Both slots are held: the row is marked running and the handler starts.   *)
StartHandler(c) ==
  /\ pc[c] = "slots held"
  /\ MayStart(c)
  /\ life' = [life EXCEPT ![c] = "running"]
  /\ work' = [work EXCEPT ![c] = "handler"]
  /\ pc' = [pc EXCEPT ![c] = "handler"]
  /\ UNCHANGED <<running, used, req, dedup, spent, slot, row, journal, settled, faults,
                 signal, detached>>

DoNotStart(c) ==
  /\ pc[c] = "slots held"
  /\ ~ MayStart(c)
  /\ Release(Both(c), c, "landing")
  /\ Settles(c, Aborted(c, None, "none"))
  /\ UNCHANGED <<running, used, req, dedup, spent, life, row, journal, faults, callVars>>

(* Marking the row fails: the exception leaves executePhysical past every   *)
(* release, and runLeaderCall past every change of the table.               *)
StartFails(c) ==
  /\ pc[c] = "slots held"
  /\ MayStart(c)
  /\ Throws(c)
  /\ UNCHANGED <<running, used, req, dedup, spent, slot, journal, callVars>>

(* The handler or the normalizer settles while the call awaits it.          *)
WorkSettles(c) ==
  /\ c \notin detached
  /\ \/ work[c] = "handler" /\ \E w \in {"value", "failed", "cancelled"} :
                                 work' = [work EXCEPT ![c] = w]
     \/ work[c] = "normalizer" /\ \E w \in {"normalized", "rejected"} :
                                    work' = [work EXCEPT ![c] = w]
  /\ UNCHANGED <<running, used, req, dedup, spent, slot, pc, auditVars, signal, detached>>

(* Mutant: a late report also becomes the outcome.                          *)
LateReportSettles(c, w) ==
  row' = [row EXCEPT ![c].actual = IF w = "value" THEN "succeeded" ELSE w,
                     ![c].disposition = "discarded"]

(* lateReport: fills an unset report only.                                  *)
LateReport(c, w) ==
  row' = IF row[c].reported = None
         THEN [row EXCEPT ![c].reported = IF w = "value" THEN "succeeded" ELSE w,
                          ![c].disposition = "discarded"]
         ELSE row

(* Detached work settles: a handler reports, and the slots are released.    *)
DetachedSettles(c) ==
  /\ c \in detached
  /\ detached' = detached \ {c}
  /\ \/ /\ work[c] = "handler"
        /\ \E w \in {"value", "failed", "cancelled"} :
             work' = [work EXCEPT ![c] = w] /\ LateReport(c, w)
     \/ /\ work[c] = "normalizer"
        /\ work' = [work EXCEPT ![c] = "normalized"]
        /\ UNCHANGED row
  /\ Release(Both(c), c, pc[c])
  /\ UNCHANGED <<running, used, req, dedup, spent, life, journal, settled, faults, signal>>

(* Mutant: an abandoned handler gives its slots back at once.               *)
DetachHandlerReleases(c) ==
  /\ pc[c] = "handler"
  /\ signal[c] # "none"
  /\ Settles(c, Aborted(c, None, "none"))
  /\ Release(Both(c), c, "landing")
  /\ UNCHANGED <<running, used, req, dedup, spent, life, row, journal, faults, callVars>>

(* The race is resumed after an abort.  A handler that is still out keeps   *)
(* the slots; one that has settled reports late at once, before the call    *)
(* lands.                                                                   *)
DetachHandler(c) ==
  /\ pc[c] = "handler"
  /\ signal[c] # "none"
  /\ Settles(c, Aborted(c, None, "none"))
  /\ \/ /\ work[c] = "handler"
        /\ detached' = detached \union {c}
        /\ pc' = [pc EXCEPT ![c] = "landing"]
        /\ UNCHANGED <<slot, row>>
     \/ /\ work[c] # "handler"
        /\ LateReport(c, work[c])
        /\ Release(Both(c), c, "landing")
        /\ UNCHANGED detached
  /\ UNCHANGED <<running, used, req, dedup, spent, life, journal, faults, signal, work>>

(* The handler threw, or reported that it cancelled.                        *)
HandlerFailed(c) ==
  /\ pc[c] = "handler"
  /\ signal[c] = "none"
  /\ work[c] \in {"failed", "cancelled"}
  /\ Settles(c, Outcome(work[c], work[c], "none"))
  /\ Release(Both(c), c, "landing")
  /\ UNCHANGED <<running, used, req, dedup, spent, life, row, journal, faults, callVars>>

Normalize(c) ==
  /\ pc[c] = "handler"
  /\ signal[c] = "none"
  /\ work[c] = "value"
  /\ work' = [work EXCEPT ![c] = "normalizer"]
  /\ pc' = [pc EXCEPT ![c] = "normalizer"]
  /\ UNCHANGED <<running, used, req, dedup, spent, slot, auditVars, signal, detached>>

DetachNormalizer(c) ==
  /\ pc[c] = "normalizer"
  /\ signal[c] # "none"
  /\ Settles(c, Aborted(c, "succeeded", "discarded"))
  /\ \/ /\ work[c] = "normalizer"
        /\ detached' = detached \union {c}
        /\ pc' = [pc EXCEPT ![c] = "landing"]
        /\ UNCHANGED slot
     \/ /\ work[c] # "normalizer"
        /\ Release(Both(c), c, "landing")
        /\ UNCHANGED detached
  /\ UNCHANGED <<running, used, req, dedup, spent, life, row, journal, faults, signal, work>>

(* The output is valid, or is refused: rejected by the normalizer, not in   *)
(* the schema, or over a per-call bound.                                    *)
OutputChecked(c) ==
  /\ pc[c] = "normalizer"
  /\ signal[c] = "none"
  /\ \/ /\ work[c] = "normalized"
        /\ \/ Settles(c, Success)
           \/ Settles(c, Outcome("failed", "succeeded", "discarded"))
     \/ /\ work[c] \in {"normalized", "rejected"}
        /\ Settles(c, Outcome("failed", "succeeded", "none"))
  /\ Release(Both(c), c, "landing")
  /\ UNCHANGED <<running, used, req, dedup, spent, life, row, journal, faults, callVars>>

-----------------------------------------------------------------------------
(* runLeaderCall after executePhysical.                                     *)

(* Mutant: the entry is replaced whoever registered it.                     *)
ReplaceAny(c, e) == [dedup EXCEPT ![req[c].run][req[c].key] = e]

(* The table with c's own in-flight entry replaced by e.                    *)
Replace(c, e) ==
  LET r == req[c].run
      k == req[c].key
  IN IF dedup[r][k] = Inflight(c) THEN [dedup EXCEPT ![r][k] = e] ELSE dedup

(* Mutant: a failed entry stays in the table as finished.                   *)
LandFailedCached(c) ==
  /\ pc[c] = "landing"
  /\ settled[c] # Success
  /\ CommitFinished(c, req[c].run, settled[c], journal[req[c].run])
  /\ dedup' = Replace(c, [leader |-> c, done |-> TRUE])
  /\ UNCHANGED <<running, used, req, spent, slot, callVars>>

(* Nothing to deliver: physical failure, the Run has left, or over budget.  *)
LandFailed(c) ==
  LET r == req[c].run
  IN /\ pc[c] = "landing"
     /\ \/ /\ settled[c] # Success
           /\ CommitFinished(c, r, settled[c], journal[r])
        \/ /\ settled[c] = Success
           /\ r \notin running
           /\ CommitFinished(c, r, Outcome("cancelled", "succeeded", "discarded"), journal[r])
        \/ /\ settled[c] = Success
           /\ r \in running
           /\ spent[r] >= MaxOutput
           /\ \E d \in {"none", "discarded"} :
                CommitFinished(c, r, Outcome("failed", "succeeded", d), journal[r])
     /\ dedup' = Replace(c, None)
     /\ UNCHANGED <<running, used, req, spent, slot, callVars>>

(* A success: the entry is published once the audit is committed.           *)
LandAccepted(c) ==
  LET r == req[c].run
  IN /\ pc[c] = "landing"
     /\ settled[c] = Success
     /\ r \in running
     /\ spent[r] < MaxOutput
     /\ spent' = [spent EXCEPT ![r] = @ + 1]
     /\ CommitFinished(c, r, Success, journal[r])
     /\ dedup' = Replace(c, IF pc'[c] = "returned" THEN [leader |-> c, done |-> TRUE] ELSE None)
     /\ UNCHANGED <<running, used, req, slot, callVars>>

(* Mutant: the status of the Run is not read again after the wait.          *)
FollowerResumesBlind(c) ==
  LET leader == req[c].leader
  IN /\ pc[c] = "leader"
     /\ signal[c] = "none"
     /\ pc[leader] = "returned"
     /\ settled[leader] = Success
     /\ DeliverReuse(c, req[c].run, leader, journal[req[c].run])
     /\ UNCHANGED <<running, used, req, dedup, slot, callVars>>

(* A coalesced call resumes: by its own abort, by the rejection of the      *)
(* leader's promise, or by what the leader settled to.                      *)
FollowerResumes(c) ==
  LET r == req[c].run
      leader == req[c].leader
  IN /\ pc[c] = "leader"
     /\ \/ /\ signal[c] # "none"
           /\ CommitFinished(c, r, Aborted(c, None, "none"), journal[r])
           /\ UNCHANGED spent
        \/ /\ signal[c] = "none"
           /\ \/ pc[leader] = "threw"
              \/ pc[leader] = "returned" /\ r \notin running
           /\ CommitFinished(c, r, Outcome("cancelled", None, "none"), journal[r])
           /\ UNCHANGED spent
        \/ /\ signal[c] = "none"
           /\ pc[leader] = "returned"
           /\ r \in running
           /\ settled[leader] = Success
           /\ DeliverReuse(c, r, leader, journal[r])
        \/ /\ signal[c] = "none"
           /\ pc[leader] = "returned"
           /\ r \in running
           /\ settled[leader] # Success
           /\ CommitFinished(c, r, [settled[leader] EXCEPT !.disposition = "none"], journal[r])
           /\ UNCHANGED spent
     /\ UNCHANGED <<running, used, req, dedup, slot, callVars>>

-----------------------------------------------------------------------------
(* The Run is cancelled, fails or completes: the engine's doing.            *)
RunLeaves(r) ==
  /\ r \in running
  /\ running' = running \ {r}
  /\ UNCHANGED <<used, req, dedup, spent, slot, pc, auditVars, callVars>>

Invoke(c) ==
  \E r \in Runs, k \in Keys :
    \/ InvokeOverBudget(c, r, k)
    \/ InvokeNotRunning(c, r, k)
    \/ InvokeUnrecorded(c, r, k)
    \/ InvokeRefused(c, r, k)
    \/ InvokeReuses(c, r, k)
    \/ InvokeCoalesces(c, r, k)
    \/ \E refresh \in BOOLEAN : InvokeLeads(c, r, k, refresh)

(* The continuations of a call: each runs once what it awaits is there.     *)
Resume(c) ==
  \/ QueueAborted(c)
  \/ TakeProcessSlot(c)
  \/ StartHandler(c)
  \/ DoNotStart(c)
  \/ StartFails(c)
  \/ DetachHandler(c)
  \/ HandlerFailed(c)
  \/ Normalize(c)
  \/ DetachNormalizer(c)
  \/ OutputChecked(c)
  \/ LandFailed(c)
  \/ LandAccepted(c)
  \/ FollowerResumes(c)

Next ==
  \/ \E c \in Calls : Invoke(c)
  \/ \E c \in Calls : Resume(c)
  \/ \E c \in Calls, kind \in {"timeout", "cancel"} : Abort(c, kind)
  \/ \E c \in Calls : WorkSettles(c)
  \/ \E c \in Calls : DetachedSettles(c)
  \/ \E r \in Runs : RunLeaves(r)

Spec == Init /\ [][Next]_vars

(* The event loop does not stop while a continuation or a deadline is due;  *)
(* handlers may hang for ever.                                              *)
Fairness ==
  WF_vars(\E c \in Calls : Resume(c) \/ Abort(c, "timeout"))

FairSpec == Spec /\ Fairness

-----------------------------------------------------------------------------
(* Properties.                                                              *)

Position(r, type, c) ==
  {i \in 1 .. Len(journal[r]) : journal[r][i].type = type /\ journal[r][i].call = c}

WasRequested(c) ==
  req[c] # None /\ Position(req[c].run, "tool.requested", c) # {}

(* Handlers and normalizers in progress, abandoned ones included, never     *)
(* exceed the cap of their Run or that of the process (Slot, and the        *)
(* detached path of executePhysical, which keeps the slots).                *)
CapsRespected ==
  LET busy == {c \in Calls : work[c] \in {"handler", "normalizer"}}
  IN /\ Cardinality(busy) <= MaxProcess
     /\ \A r \in Runs : Cardinality({c \in busy : req[c].run = r}) <= MaxPerRun

(* The journal and the rows tell one story: a call has at most one          *)
(* completed event, in the journal of its own Run; its row is finished with *)
(* what the event says, up to a report that came later; and a row finished  *)
(* without an event belongs to a Run that is no longer running              *)
(* (commitFinished, lateReport).                                            *)
AuditAgrees ==
  \A c \in Calls, r \in Runs :
    LET done == Position(r, "tool.completed", c)
    IN /\ Cardinality(done) <= 1
       /\ \A i \in done :
            LET final == journal[r][i].final
            IN /\ req[c].run = r
               /\ life[c] = "finished"
               /\ \/ row[c] = final
                  \/ /\ final.reported = None
                     /\ \E w \in {"succeeded", "failed", "cancelled"} :
                          row[c] = [final EXCEPT !.reported = w, !.disposition = "discarded"]
       /\ (life[c] = "finished" /\ req[c].run = r /\ done = {}) => r \notin running

(* No handler ever starts without a durable tool.requested event of its     *)
(* call (appendRequested: durable or reject).                               *)
WorkWasRequested ==
  \A c \in Calls : work[c] # "none" => WasRequested(c)

(* A reused result is that of a call of the same Run and key whose success  *)
(* is in the audit: no failed, discarded or uncommitted result is ever      *)
(* served again (runLeaderCall publishes after its commit).                 *)
ReuseIsGrounded ==
  \A c \in Calls :
    row[c].reused # None =>
      LET l == row[c].reused
      IN /\ req[l].run = req[c].run
         /\ req[l].key = req[c].key
         /\ life[l] = "finished"
         /\ row[l] = Success

(* A refresh is never undone by what it was to replace: a call does not     *)
(* reuse a result requested before a refresh that was requested before the  *)
(* call itself, however the three finish (runLeaderCall touches only its    *)
(* own entry).                                                              *)
RefreshIsHonoured ==
  \A c, x \in Calls :
    (row[c].reused # None /\ WasRequested(x) /\ req[x].refresh
       /\ req[x].run = req[c].run /\ req[x].key = req[c].key) =>
      LET r == req[c].run
          at(d) == CHOOSE i \in Position(r, "tool.requested", d) : TRUE
      IN ~ (at(row[c].reused) < at(x) /\ at(x) < at(c))

(* What a Run was given, reused results included, stays within its          *)
(* cumulative budget (reserveCumulative).                                   *)
OutputWithinBudget ==
  \A r \in Runs :
    Cardinality({c \in Calls : req[c] # None /\ req[c].run = r
                                 /\ row[c].disposition = "accepted"}) <= MaxOutput

(* The broker's books and bounds: the caps hold for detached handlers too,  *)
(* the journal and the rows tell one story, no work runs unrecorded.        *)
BrokerSafe ==
  /\ CapsRespected
  /\ AuditAgrees
  /\ WorkWasRequested

(* Reuse is sound: what is served again was a committed success, a refresh  *)
(* is not undone, the budget counts reused results, and the audit agrees.   *)
ReuseSafe ==
  /\ ReuseIsGrounded
  /\ RefreshIsHonoured
  /\ OutputWithinBudget
  /\ AuditAgrees

(* A Run that has left running gets no event, no accepted result and no     *)
(* handler started, whatever was under way when it left.                    *)
NothingAfterRunLeft ==
  [][\A r \in Runs \ running :
       /\ journal'[r] = journal[r]
       /\ \A c \in Calls :
            (req'[c] # None /\ req'[c].run = r) =>
              /\ row'[c].disposition = "accepted" => row[c].disposition = "accepted"
              /\ work'[c] = "handler" => work[c] = "handler"]_vars

(* Every call ends, even when handlers hang and slots stay held: the        *)
(* deadline covers the queues, the handler, the normalizer and the wait for *)
(* a leader.                                                                *)
EveryCallReturns ==
  \A c \in Calls : pc[c] # "new" ~> pc[c] \in Over

Holders(s) ==
  {c \in Calls : /\ req[c] # None
                 /\ s \in Both(c)
                 /\ \/ pc[c] \in {"slots held", "handler", "normalizer"}
                    \/ c \in detached
                    \/ s # "process" /\ pc[c] \in {"run slot held", "process slot"}}

(* "excess physical calls queue FIFO (per-run order preserved), never       *)
(* dropped for exceeding the caps" (broker.ts:26): only a call in excess of *)
(* the cap queues.  Violated: a release that wakes a waiter counts the      *)
(* waiter in and the releaser not out.                                      *)
OnlyExcessQueues ==
  \A s \in Slots : slot[s].waiters # << >> => Cardinality(Holders(s)) >= Capacity(s)
=============================================================================
