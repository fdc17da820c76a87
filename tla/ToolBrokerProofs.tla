-------------------------- MODULE ToolBrokerProofs --------------------------
(***************************************************************************)
(* Theorems about ToolBroker, for any number of calls, Runs and keys and    *)
(* any budgets.                                                             *)
(***************************************************************************)
EXTENDS ToolBroker, FiniteSetTheorems, SequenceTheorems, TLAPS

-----------------------------------------------------------------------------
(* The inductive invariant.                                                 *)

(* The waits and landings of a call that is under way.                      *)
Asked == Waits \union {"landing"}

(* Where a waiter of a slot waits.                                          *)
Place(s) == IF s = "process" THEN "process slot" ELSE "run slot"

(* A row says what its event says, up to a report that came later.          *)
Said(final, r) ==
  \/ r = final
  \/ /\ final.reported = None
     /\ \E w \in {"succeeded", "failed", "cancelled"} :
          r = [final EXCEPT !.reported = w, !.disposition = "discarded"]

(* A call that was not made yet has nothing.                                *)
FreshCall(c) ==
  /\ req[c] = None <=> pc[c] = "new"
  /\ pc[c] = "new" => /\ life[c] = "none" /\ work[c] = "none" /\ row[c] = Blank
                      /\ settled[c] = Blank /\ signal[c] = "none"

(* Where a call is, against its row, its work and what it settled to.       *)
CallInv(c) ==
  /\ life[c] = "finished" <=> pc[c] = "returned"
  /\ work[c] # "none" => pc[c] \in {"handler", "normalizer", "landing"} \union Over
  /\ c \in detached => pc[c] \in {"landing"} \union Over /\ work[c] \in {"handler", "normalizer"}
  /\ work[c] = "handler" => c \in detached \/ pc[c] = "handler"
  /\ work[c] = "normalizer" => c \in detached \/ pc[c] = "normalizer"
  /\ pc[c] = "handler" => work[c] \in {"handler", "value", "failed", "cancelled"}
  /\ pc[c] = "normalizer" => work[c] \in {"normalizer", "normalized", "rejected"}
  /\ pc[c] = "returned" => Said(settled[c], row[c])
  /\ pc[c] # "returned" => row[c].disposition # "accepted" /\ row[c].reused = None
  /\ pc[c] = "landing" => \/ settled[c] = Success
                          \/ settled[c].disposition # "accepted" /\ settled[c].reused = None

CallsInv == \A c \in Calls : FreshCall(c) /\ CallInv(c)

(* A call under way, one that did work and one that was given a result has  *)
(* its requested event.                                                     *)
TracedInv ==
  \A c \in Calls :
    (pc[c] \in Asked \/ work[c] # "none" \/ row[c].reused # None) => WasRequested(c)

(* An event is the only one of its type of a call, in the journal of the    *)
(* call's own Run; a completed one says what the call settled to; and only  *)
(* a Run that has left is not told of a finished call.                      *)
JournalInv ==
  /\ \A r \in Runs, c \in Calls, type \in {"tool.requested", "tool.completed"} :
       /\ Position(r, type, c) # {} => req[c] # None /\ req[c].run = r
       /\ \A i, j \in Position(r, type, c) : i = j
  /\ \A r \in Runs, c \in Calls : \A i \in Position(r, "tool.completed", c) :
       life[c] = "finished" /\ journal[r][i].final = settled[c]
  /\ \A c \in Calls :
       (life[c] = "finished" /\ Position(req[c].run, "tool.completed", c) = {})
         => req[c].run \notin running

(* l is a call of the Run and key of c.                                     *)
Kin(l, c) == req[l] # None /\ req[l].run = req[c].run /\ req[l].key = req[c].key

(* l leads: it is no reuse, and asked durably.                              *)
Leads(l) == WasRequested(l) /\ pc[l] # "leader" /\ settled[l].reused = None

Published(l) == pc[l] = "returned" /\ settled[l] = Success

(* No refresh was requested between l and c.                                *)
NotOvertaken(l, c) ==
  \A x \in Calls :
    (req[x] # None /\ req[x].refresh /\ Kin(x, c)) =>
      \A i \in Position(req[c].run, "tool.requested", l),
         j \in Position(req[c].run, "tool.requested", x),
         m \in Position(req[c].run, "tool.requested", c) : ~ (i < j /\ j < m)

(* No refresh of the key was requested after l.                             *)
Newest(l, r, k) ==
  \A x \in Calls :
    (req[x] # None /\ req[x].refresh /\ req[x].run = r /\ req[x].key = k) =>
      \A i \in Position(r, "tool.requested", l),
         j \in Position(r, "tool.requested", x) : j <= i

DedupInv ==
  \A r \in Runs, k \in Keys :
    dedup[r][k] # None =>
      LET l == dedup[r][k].leader
      IN /\ req[l].run = r /\ req[l].key = k
         /\ Leads(l) /\ Newest(l, r, k)
         /\ dedup[r][k].done => Published(l)

FollowInv ==
  \A c \in Calls :
    pc[c] = "leader" =>
      LET l == req[c].leader
      IN l \in Calls /\ Kin(l, c) /\ Leads(l) /\ NotOvertaken(l, c)

ReuseInv ==
  \A c \in Calls :
    row[c].reused # None =>
      LET l == row[c].reused
      IN Kin(l, c) /\ Leads(l) /\ Published(l) /\ NotOvertaken(l, c)

AcceptedOf(r) ==
  {c \in Calls : req[c] # None /\ req[c].run = r /\ row[c].disposition = "accepted"}

BudgetInv ==
  \A r \in Runs : IsFiniteSet(AcceptedOf(r)) /\ Cardinality(AcceptedOf(r)) <= spent[r]

(* A queue holds calls that wait for that slot and were not aborted, each   *)
(* once.                                                                    *)
QueueInv ==
  \A s \in Slots :
    /\ \A i, j \in 1 .. Len(slot[s].waiters) :
         slot[s].waiters[i] = slot[s].waiters[j] => i = j
    /\ \A i \in 1 .. Len(slot[s].waiters) :
         LET c == slot[s].waiters[i]
         IN pc[c] = Place(s) /\ signal[c] = "none" /\ s \in Both(c)

(* The count of a slot may exceed its holders, who never exceed its         *)
(* capacity.                                                                *)
HoldInv ==
  \A s \in Slots : /\ IsFiniteSet(Holders(s))
                   /\ Cardinality(Holders(s)) <= slot[s].active
                   /\ Cardinality(Holders(s)) <= Capacity(s)

BrokerInv ==
  /\ TypeOK /\ CallsInv
  /\ TracedInv /\ JournalInv
  /\ DedupInv /\ FollowInv /\ ReuseInv
  /\ BudgetInv
  /\ QueueInv /\ HoldInv

-----------------------------------------------------------------------------
(* Types.                                                                   *)

(* What the type invariant says of the functions of a call.                 *)
LEMMA CallTypes ==
  ASSUME TypeOK
  PROVE  /\ life \in [Calls -> {"none", "requested", "running", "finished"}]
         /\ row \in [Calls -> Final]
         /\ req \in [Calls -> Request \union {None}]
         /\ pc \in [Calls -> {"new", "landing"} \union Waits \union Over]
         /\ signal \in [Calls -> {"none", "timeout", "cancel"}]
         /\ work \in [Calls -> {"none", "handler", "value", "failed", "cancelled",
                                "normalizer", "normalized", "rejected"}]
         /\ detached \subseteq Calls
         /\ settled \in [Calls -> Final]
  BY Zenon DEF TypeOK

(* What it says of the Runs and the slots.                                  *)
LEMMA RunTypes ==
  ASSUME TypeOK
  PROVE  /\ running \subseteq Runs
         /\ used \in [Runs -> 0 .. MaxRequests]
         /\ journal \in [Runs -> Seq(Event)]
         /\ dedup \in [Runs -> [Keys -> Entry \union {None}]]
         /\ spent \in [Runs -> 0 .. MaxOutput]
         /\ slot \in [Slots -> [active : Nat, waiters : Seq(Calls)]]
         /\ faults \in 0 .. MaxFaults
  BY Zenon DEF TypeOK

(* The outcomes a call can settle to.                                       *)
LEMMA OutcomeType ==
  ASSUME NEW a \in {None, "succeeded", "failed", "denied", "deduplicated", "timed_out",
                    "cancelled"},
         NEW p \in {None, "succeeded", "failed", "cancelled"},
         NEW d \in {"none", "accepted", "discarded"}
  PROVE  /\ Outcome(a, p, d) \in Final
         /\ Outcome(a, p, d).disposition = d
         /\ Outcome(a, p, d).reported = p
         /\ Outcome(a, p, d).reused = None
  BY DEF Outcome, Final

LEMMA AbortedType ==
  ASSUME NEW c, NEW p \in {None, "succeeded", "failed", "cancelled"},
         NEW d \in {"none", "accepted", "discarded"}
  PROVE  /\ Aborted(c, p, d) \in Final
         /\ Aborted(c, p, d).disposition = d
         /\ Aborted(c, p, d).reused = None
  BY DEF Aborted, Outcome, Final

LEMMA FixedOutcomes ==
  /\ Blank \in Final /\ Blank.disposition = "none" /\ Blank.reused = None
  /\ Success \in Final /\ Success.disposition = "accepted" /\ Success.reused = None
  /\ Success.reported = "succeeded"
  /\ \A c \in Calls : Reuse(c) \in Final /\ Reuse(c).disposition = "accepted"
                        /\ Reuse(c).reused = c
  /\ \A c \in Calls : c # None
  BY BrokerAssumption DEF Blank, Success, Reuse, Outcome, Final

(* A requested and a completed event.                                       *)
LEMMA EventType ==
  ASSUME NEW c \in Calls
  PROVE  /\ Requested(c) \in Event
         /\ Requested(c).type = "tool.requested" /\ Requested(c).call = c
         /\ \A f \in Final : /\ Completed(c, f) \in Event
                             /\ Completed(c, f).type = "tool.completed"
                             /\ Completed(c, f).call = c /\ Completed(c, f).final = f
  BY DEF Requested, Completed, Event

(* A call that was made has a request with these fields.                    *)
LEMMA RequestType ==
  ASSUME TypeOK, NEW c \in Calls, req[c] # None
  PROVE  /\ req[c] \in Request
         /\ req[c].run \in Runs /\ req[c].key \in Keys /\ req[c].refresh \in BOOLEAN
         /\ req[c].leader \in Calls \union {None}
  BY CallTypes DEF Request

LEMMA ArrivalType ==
  ASSUME NEW r \in Runs, NEW k \in Keys, NEW b \in BOOLEAN, NEW l \in Calls \union {None}
  PROVE  LET q == [run |-> r, key |-> k, refresh |-> b, leader |-> l]
         IN q \in Request /\ q # None /\ q.run = r /\ q.key = k /\ q.refresh = b /\ q.leader = l
  BY NoneAssumption DEF Request

LEMMA EntryType ==
  ASSUME NEW c \in Calls, NEW b \in BOOLEAN
  PROVE  LET e == [leader |-> c, done |-> b]
         IN e \in Entry /\ e # None /\ e.leader = c /\ e.done = b
  BY NoneAssumption DEF Entry

-----------------------------------------------------------------------------
(* The effect of the parts of a step.                                       *)

(* A call other than the actor is only ever woken.                          *)
Moved(d) ==
  \/ pc'[d] = pc[d]
  \/ pc[d] = "run slot" /\ pc'[d] = "run slot held"
  \/ pc[d] = "process slot" /\ pc'[d] = "slots held"

(* What a step of c leaves alone in the other calls.                        *)
OthersKeep(c) ==
  \A d \in Calls \ {c} :
    /\ Moved(d)
    /\ req'[d] = req[d] /\ life'[d] = life[d] /\ row'[d] = row[d]
    /\ settled'[d] = settled[d] /\ work'[d] = work[d] /\ signal'[d] = signal[d]
    /\ d \in detached' <=> d \in detached

LEMMA ThrowsEffect ==
  ASSUME TypeOK, NEW c \in Calls, Throws(c)
  PROVE  /\ life' \in [Calls -> {"none", "requested", "running", "finished"}]
         /\ pc' \in [Calls -> {"new", "landing"} \union Waits \union Over]
         /\ faults' \in 0 .. MaxFaults
         /\ row' = row /\ settled' = settled
         /\ life'[c] = (IF life[c] = "none" THEN "requested" ELSE life[c])
         /\ pc'[c] = "threw"
         /\ \A d \in Calls \ {c} : life'[d] = life[d] /\ pc'[d] = pc[d]
<1>1. /\ life \in [Calls -> {"none", "requested", "running", "finished"}]
      /\ pc \in [Calls -> {"new", "landing"} \union Waits \union Over]
      /\ faults \in 0 .. MaxFaults
  BY CallTypes, RunTypes
<1>2. faults' \in 0 .. MaxFaults
  BY <1>1, BrokerAssumption DEF Throws
<1>3. "threw" \in Over
  BY DEF Over
<1>. QED
  BY <1>1, <1>2, <1>3 DEF Throws

(* The row and the event of a finished call.                                *)
Ends(c, r, final, log) ==
  /\ life'[c] = "finished" /\ row'[c] = final /\ settled'[c] = final /\ pc'[c] = "returned"
  /\ journal'[r] = (IF r \in running THEN Append(log, Completed(c, final)) ELSE log)

(* The failure to write them.                                               *)
Fails(c, r, log) ==
  /\ r \in running
  /\ life'[c] = (IF life[c] = "none" THEN "requested" ELSE life[c])
  /\ row'[c] = row[c] /\ settled'[c] = settled[c] /\ pc'[c] = "threw"
  /\ journal'[r] = log

LEMMA CommitEffect ==
  ASSUME TypeOK, NEW c \in Calls, NEW r \in Runs, NEW final \in Final, NEW log \in Seq(Event),
         CommitFinished(c, r, final, log)
  PROVE  /\ life' \in [Calls -> {"none", "requested", "running", "finished"}]
         /\ row' \in [Calls -> Final]
         /\ settled' \in [Calls -> Final]
         /\ pc' \in [Calls -> {"new", "landing"} \union Waits \union Over]
         /\ journal' \in [Runs -> Seq(Event)]
         /\ faults' \in 0 .. MaxFaults
         /\ \A q \in Runs \ {r} : journal'[q] = journal[q]
         /\ \A d \in Calls \ {c} : /\ life'[d] = life[d] /\ row'[d] = row[d]
                                   /\ settled'[d] = settled[d] /\ pc'[d] = pc[d]
         /\ Ends(c, r, final, log) \/ Fails(c, r, log)
<1>1. /\ life \in [Calls -> {"none", "requested", "running", "finished"}]
      /\ pc \in [Calls -> {"new", "landing"} \union Waits \union Over]
      /\ row \in [Calls -> Final] /\ settled \in [Calls -> Final]
      /\ journal \in [Runs -> Seq(Event)]
      /\ faults \in 0 .. MaxFaults
  BY CallTypes, RunTypes
<1>2. Append(log, Completed(c, final)) \in Seq(Event)
  BY EventType
<1>3. "returned" \in Over
  BY DEF Over
<1>4. CASE r \in running /\ Throws(c) /\ journal' = [journal EXCEPT ![r] = log]
  BY <1>1, <1>4, ThrowsEffect DEF Fails
<1>5. CASE /\ life' = [life EXCEPT ![c] = "finished"]
           /\ row' = [row EXCEPT ![c] = final]
           /\ journal' = [journal EXCEPT ![r] =
                            IF r \in running THEN Append(log, Completed(c, final)) ELSE log]
           /\ settled' = [settled EXCEPT ![c] = final]
           /\ pc' = [pc EXCEPT ![c] = "returned"]
           /\ UNCHANGED faults
  <2>1. PICK j \in Seq(Event) :
          j = IF r \in running THEN Append(log, Completed(c, final)) ELSE log
    BY <1>2
  <2>2. journal' = [journal EXCEPT ![r] = j]
    BY <1>5, <2>1
  <2>. QED
    BY <1>1, <1>3, <1>5, <2>1, <2>2 DEF Ends
<1>. QED
  BY <1>4, <1>5 DEF CommitFinished

-----------------------------------------------------------------------------
(* Slots and their queues.                                                  *)

NotQueued(c) ==
  \A s \in Slots : \A i \in 1 .. Len(slot[s].waiters) : slot[s].waiters[i] # c

LEMMA Waiting ==
  ASSUME QueueInv, NEW s \in Slots, NEW i \in 1 .. Len(slot[s].waiters), NEW d,
         d = slot[s].waiters[i]
  PROVE  pc[d] = Place(s) /\ signal[d] = "none" /\ s \in Both(d)
  BY Zenon DEF QueueInv

(* A call that does not wait for a slot, or was aborted, is in no queue.    *)
LEMMA OutOfQueue ==
  ASSUME TypeOK, QueueInv, NEW c \in Calls,
         pc[c] \notin {"run slot", "process slot"} \/ signal[c] # "none"
  PROVE  NotQueued(c)
<1>1. SUFFICES ASSUME NEW s \in Slots, NEW i \in 1 .. Len(slot[s].waiters),
                      slot[s].waiters[i] = c
               PROVE  FALSE
  BY DEF NotQueued
<1>2. pc[c] = Place(s) /\ signal[c] = "none"
  BY <1>1, Waiting
<1>. QED
  BY <1>2 DEF Place

LEMMA SlotTypes ==
  ASSUME TypeOK, NEW s \in Slots
  PROVE  /\ slot[s] \in [active : Nat, waiters : Seq(Calls)]
         /\ slot[s].active \in Nat
         /\ slot[s].waiters \in Seq(Calls)
         /\ Len(slot[s].waiters) \in Nat
         /\ \A i \in 1 .. Len(slot[s].waiters) : slot[s].waiters[i] \in Calls
         /\ Capacity(s) \in Nat \ {0}
<1>1. slot \in [Slots -> [active : Nat, waiters : Seq(Calls)]]
  BY RunTypes
<1>2. /\ slot[s] \in [active : Nat, waiters : Seq(Calls)]
      /\ slot[s].active \in Nat
      /\ slot[s].waiters \in Seq(Calls)
  BY <1>1
<1>3. Capacity(s) \in Nat \ {0}
  BY BrokerAssumption DEF Capacity
<1>. QED
  BY <1>2, <1>3, LenProperties, ElementOfSeq

(* Nobody waits in two queues.                                              *)
LEMMA OneQueue ==
  ASSUME TypeOK, QueueInv, NEW s \in Slots, NEW t \in Slots,
         NEW i \in 1 .. Len(slot[s].waiters), NEW j \in 1 .. Len(slot[t].waiters),
         slot[s].waiters[i] = slot[t].waiters[j]
  PROVE  s = t /\ i = j
<1>. DEFINE c == slot[s].waiters[i]
<1>1. /\ pc[c] = Place(s) /\ s \in Both(c)
      /\ pc[c] = Place(t) /\ t \in Both(c)
  BY DEF QueueInv
<1>2. s = t
  BY <1>1, BrokerAssumption DEF Place, Both, Slots
<1>. QED
  BY <1>2 DEF QueueInv

LEMMA Appended ==
  ASSUME NEW T, NEW w \in Seq(T), NEW e \in T, NEW v, v = Append(w, e)
  PROVE  /\ v \in Seq(T)
         /\ Len(w) \in Nat /\ Len(v) \in Nat /\ Len(v) = Len(w) + 1
         /\ \A i \in 1 .. Len(v) : i \in 1 .. Len(w) \/ i = Len(w) + 1
         /\ \A i \in 1 .. Len(w) : i \in 1 .. Len(v) /\ v[i] = w[i]
         /\ Len(w) + 1 \in 1 .. Len(v) /\ v[Len(w) + 1] = e
<1>1. Append(w, e) \in Seq(T) /\ Len(Append(w, e)) = Len(w) + 1
  BY AppendProperties
<1>2. \A i \in 1 .. Len(w) : Append(w, e)[i] = w[i]
  BY AppendProperties
<1>3. Append(w, e)[Len(w) + 1] = e
  BY AppendProperties
<1>4. Len(w) \in Nat
  BY LenProperties
<1>5. /\ \A i \in 1 .. (Len(w) + 1) : i \in 1 .. Len(w) \/ i = Len(w) + 1
      /\ \A i \in 1 .. Len(w) : i \in 1 .. (Len(w) + 1)
      /\ Len(w) + 1 \in 1 .. (Len(w) + 1)
  BY <1>4
<1>6. Len(w) + 1 \in Nat
  BY <1>4
<1>. QED
  BY <1>1, <1>2, <1>3, <1>4, <1>5, <1>6

LEMMA HeadIsFirst ==
  ASSUME NEW T, NEW w \in Seq(T), w # << >>
  PROVE  /\ 1 \in 1 .. Len(w) /\ Head(w) = w[1] /\ Len(w) \in Nat \ {0}
         /\ Tail(w) \in Seq(T) /\ Len(Tail(w)) = Len(w) - 1
         /\ \A i \in 1 .. Len(Tail(w)) : i + 1 \in 1 .. Len(w) /\ Tail(w)[i] = w[i + 1]
  BY HeadTailProperties, EmptySeq, LenProperties

(* The first waiter of a released slot.                                     *)
First(S, d) ==
  \E s \in S : slot[s].waiters # << >> /\ d = Head(slot[s].waiters)

(* Slot.acquire.                                                            *)
LEMMA AcquireEffect ==
  ASSUME TypeOK, NEW s \in Slots, NEW c \in Calls, Acquire(s, c)
  PROVE  /\ slot' \in [Slots -> [active : Nat, waiters : Seq(Calls)]]
         /\ pc' \in [Calls -> {"new", "landing"} \union Waits \union Over]
         /\ \A t \in Slots \ {s} : slot'[t] = slot[t]
         /\ \A d \in Calls \ {c} : pc'[d] = pc[d]
         /\ \/ /\ slot[s].active < Capacity(s)
               /\ slot'[s].active = slot[s].active + 1
               /\ slot'[s].waiters = slot[s].waiters
               /\ pc'[c] = IF s = "process" THEN "slots held" ELSE "run slot held"
            \/ /\ slot'[s].active = slot[s].active
               /\ slot'[s].waiters = Append(slot[s].waiters, c)
               /\ pc'[c] = Place(s)
<1>1. slot \in [Slots -> [active : Nat, waiters : Seq(Calls)]]
  BY RunTypes
<1>2. /\ slot[s] \in [active : Nat, waiters : Seq(Calls)]
      /\ slot[s].active \in Nat /\ slot[s].waiters \in Seq(Calls)
  BY SlotTypes
<1>3. PICK a \in Nat, w \in Seq(Calls) : slot[s] = [active |-> a, waiters |-> w]
  BY <1>2
<1>4. pc \in [Calls -> {"new", "landing"} \union Waits \union Over]
  BY CallTypes
<1>5. {"slots held", "run slot held", "process slot", "run slot"} \subseteq Waits
  BY DEF Waits
<1>6. CASE slot[s].active < Capacity(s)
  <2>1. slot' = [slot EXCEPT ![s].active = @ + 1]
    BY <1>6 DEF Acquire
  <2>2. slot' = [slot EXCEPT ![s] = [active |-> a + 1, waiters |-> w]]
    <3>1. slot' = [slot EXCEPT ![s] = [slot[s] EXCEPT !.active = slot[s].active + 1]]
      BY Zenon, <2>1
    <3>2. [slot[s] EXCEPT !.active = slot[s].active + 1] = [active |-> a + 1, waiters |-> w]
      BY <1>3
    <3>. QED
      BY Zenon, <3>1, <3>2
  <2>3. pc' = [pc EXCEPT ![c] = IF s = "process" THEN "slots held" ELSE "run slot held"]
    BY <1>6 DEF Acquire
  <2>4. slot' \in [Slots -> [active : Nat, waiters : Seq(Calls)]]
    BY <1>1, <2>2
  <2>5. /\ slot'[s].active = slot[s].active + 1
        /\ slot'[s].waiters = slot[s].waiters
        /\ \A t \in Slots \ {s} : slot'[t] = slot[t]
    BY <1>1, <1>3, <2>2
  <2>. QED
    BY <1>4, <1>5, <1>6, <2>3, <2>4, <2>5
<1>7. CASE ~ (slot[s].active < Capacity(s))
  <2>1. slot' = [slot EXCEPT ![s].waiters = Append(@, c)]
    BY <1>7 DEF Acquire
  <2>2. PICK v : v = Append(w, c)
    OBVIOUS
  <2>3. v \in Seq(Calls)
    BY <2>2
  <2>4. slot' = [slot EXCEPT ![s] = [active |-> a, waiters |-> v]]
    <3>1. slot' = [slot EXCEPT ![s] = [slot[s] EXCEPT !.waiters = Append(slot[s].waiters, c)]]
      BY Zenon, <2>1
    <3>2. [slot[s] EXCEPT !.waiters = v] = [active |-> a, waiters |-> v]
      BY <1>3
    <3>3. Append(slot[s].waiters, c) = v
      BY <1>3, <2>2
    <3>. QED
      BY Zenon, <3>1, <3>2, <3>3
  <2>5. pc' = [pc EXCEPT ![c] = IF s = "process" THEN "process slot" ELSE "run slot"]
    BY <1>7 DEF Acquire
  <2>6. slot' \in [Slots -> [active : Nat, waiters : Seq(Calls)]]
    BY <1>1, <2>3, <2>4
  <2>7. /\ slot'[s].active = slot[s].active
        /\ slot'[s].waiters = Append(slot[s].waiters, c)
        /\ \A t \in Slots \ {s} : slot'[t] = slot[t]
    BY <1>1, <1>3, <2>2, <2>4
  <2>. QED
    BY <1>4, <1>5, <2>5, <2>6, <2>7 DEF Place
<1>. QED
  BY <1>6, <1>7

(* Slot.release of the slots S by c, which is in no queue.                  *)
LEMMA ReleaseEffect ==
  ASSUME TypeOK, QueueInv, NEW S \in SUBSET Slots, NEW c \in Calls, NotQueued(c),
         NEW next \in {"new", "landing"} \union Waits \union Over,
         Release(S, c, next)
  PROVE  /\ slot' \in [Slots -> [active : Nat, waiters : Seq(Calls)]]
         /\ pc' \in [Calls -> {"new", "landing"} \union Waits \union Over]
         /\ pc'[c] = next
         /\ \A d \in Calls \ {c} : Moved(d)
         /\ \A d \in Calls \ {c} : ~ First(S, d) => pc'[d] = pc[d]
         /\ \A s \in Slots \ S : slot'[s] = slot[s]
         /\ \A s \in S : slot'[s] = Released(slot[s])
<1>. DEFINE woken == {Head(slot[s].waiters) : s \in {t \in S : slot[t].waiters # << >>}}
<1>1. /\ slot' = [s \in Slots |-> IF s \in S THEN Released(slot[s]) ELSE slot[s]]
      /\ pc' = [d \in Calls |-> IF d \in woken THEN Granted(pc[d])
                                ELSE IF d = c THEN next ELSE pc[d]]
  BY DEF Release
<1>2. pc \in [Calls -> {"new", "landing"} \union Waits \union Over]
  BY CallTypes
<1>3. \A d \in Calls : d \in woken <=> First(S, d)
  BY DEF First
<1>4. ASSUME NEW d \in Calls, First(S, d)
      PROVE  d # c /\ (pc[d] = "run slot" \/ pc[d] = "process slot")
  <2>1. PICK s \in S : slot[s].waiters # << >> /\ d = Head(slot[s].waiters)
    BY <1>4 DEF First
  <2>2. slot[s].waiters \in Seq(Calls)
    BY SlotTypes
  <2>3. 1 \in 1 .. Len(slot[s].waiters) /\ d = slot[s].waiters[1]
    BY <2>1, <2>2, HeadIsFirst
  <2>4. pc[d] = Place(s)
    BY <2>3, Waiting
  <2>5. d # c
    BY Zenon, <2>3 DEF NotQueued
  <2>. QED
    BY <2>4, <2>5 DEF Place
<1>5. \A d \in Calls : First(S, d) => /\ pc'[d] = Granted(pc[d]) /\ Granted(pc[d]) \in Waits
  BY <1>1, <1>3, <1>4 DEF Granted, Waits
<1>6. ~ First(S, c)
  BY <1>4
<1>7. \A d \in Calls : pc'[d] \in {"new", "landing"} \union Waits \union Over
  BY <1>1, <1>2, <1>3, <1>5
<1>8. pc' \in [Calls -> {"new", "landing"} \union Waits \union Over]
  BY <1>1, <1>7
<1>9. \A d \in Calls \ {c} : Moved(d)
  BY <1>1, <1>3, <1>4, <1>5 DEF Moved, Granted
<1>10. \A s \in Slots : Released(slot[s]) \in [active : Nat, waiters : Seq(Calls)]
  <2>1. SUFFICES ASSUME NEW s \in Slots
                 PROVE  Released(slot[s]) \in [active : Nat, waiters : Seq(Calls)]
    OBVIOUS
  <2>2. slot[s].active \in Nat /\ slot[s].waiters \in Seq(Calls)
    BY SlotTypes
  <2>3. slot[s].waiters # << >> => Tail(slot[s].waiters) \in Seq(Calls)
    BY <2>2, HeadIsFirst
  <2>. QED
    BY <2>2, <2>3 DEF Released
<1>11. slot \in [Slots -> [active : Nat, waiters : Seq(Calls)]]
  BY RunTypes
<1>12. slot' \in [Slots -> [active : Nat, waiters : Seq(Calls)]]
  BY <1>1, <1>10, <1>11
<1>. QED
  BY <1>1, <1>3, <1>6, <1>8, <1>9, <1>12

-----------------------------------------------------------------------------
(* Counting.                                                                *)

LEMMA CardSub ==
  ASSUME NEW S, IsFiniteSet(S), NEW T, T \subseteq S
  PROVE  /\ IsFiniteSet(T) /\ Cardinality(T) \in Nat /\ Cardinality(S) \in Nat
         /\ Cardinality(T) <= Cardinality(S)
  BY FS_Subset, FS_CardinalityType

LEMMA CardAdd ==
  ASSUME NEW S, IsFiniteSet(S), NEW c, NEW T, T \subseteq S \union {c}
  PROVE  /\ IsFiniteSet(T) /\ Cardinality(T) \in Nat /\ Cardinality(S) \in Nat
         /\ Cardinality(T) <= Cardinality(S) + 1
<1>1. /\ IsFiniteSet(S \union {c}) /\ Cardinality(S) \in Nat
      /\ Cardinality(S \union {c}) <= Cardinality(S) + 1
  BY FS_AddElement, FS_CardinalityType
<1>2. /\ IsFiniteSet(T) /\ Cardinality(T) \in Nat /\ Cardinality(S \union {c}) \in Nat
      /\ Cardinality(T) <= Cardinality(S \union {c})
  BY <1>1, CardSub
<1>. QED
  BY <1>1, <1>2

LEMMA CardDrop ==
  ASSUME NEW S, IsFiniteSet(S), NEW c \in S, NEW T, T \subseteq S \ {c}
  PROVE  /\ IsFiniteSet(T) /\ Cardinality(T) \in Nat /\ Cardinality(S) \in Nat
         /\ Cardinality(T) + 1 <= Cardinality(S)
<1>1. /\ IsFiniteSet(S \ {c}) /\ Cardinality(S) \in Nat
      /\ Cardinality(S \ {c}) = Cardinality(S) - 1
  BY FS_RemoveElement, FS_CardinalityType
<1>2. /\ IsFiniteSet(T) /\ Cardinality(T) \in Nat /\ Cardinality(S \ {c}) \in Nat
      /\ Cardinality(T) <= Cardinality(S \ {c})
  BY <1>1, CardSub
<1>. QED
  BY <1>1, <1>2

LEMMA CardSwap ==
  ASSUME NEW S, IsFiniteSet(S), NEW c \in S, NEW h, NEW T, T \subseteq (S \ {c}) \union {h}
  PROVE  /\ IsFiniteSet(T) /\ Cardinality(T) \in Nat /\ Cardinality(S) \in Nat
         /\ Cardinality(T) <= Cardinality(S)
<1>1. /\ IsFiniteSet(S \ {c}) /\ Cardinality(S \ {c}) \in Nat /\ Cardinality(S) \in Nat
      /\ Cardinality(S \ {c}) + 1 <= Cardinality(S)
  BY CardDrop
<1>2. /\ IsFiniteSet(T) /\ Cardinality(T) \in Nat
      /\ Cardinality(T) <= Cardinality(S \ {c}) + 1
  BY <1>1, CardAdd
<1>. QED
  BY <1>1, <1>2

-----------------------------------------------------------------------------
(* A step and the slots.                                                    *)

(* d is a holder of s.                                                      *)
LEMMA HoldersDef ==
  ASSUME NEW s, NEW d
  PROVE  /\ d \in Holders(s) <=>
              /\ d \in Calls /\ req[d] # None /\ s \in {req[d].run, "process"}
              /\ \/ pc[d] \in {"slots held", "handler", "normalizer"}
                 \/ d \in detached
                 \/ s # "process" /\ pc[d] \in {"run slot held", "process slot"}
         /\ d \in Holders(s)' <=>
              /\ d \in Calls /\ req'[d] # None /\ s \in {req'[d].run, "process"}
              /\ \/ pc'[d] \in {"slots held", "handler", "normalizer"}
                 \/ d \in detached'
                 \/ s # "process" /\ pc'[d] \in {"run slot held", "process slot"}
  BY Zenon DEF Holders, Both

(* A call that did not move holds what it held.                             *)
LEMMA HoldsOn ==
  ASSUME NEW s, NEW c, NEW d \in Calls \ {c}, OthersKeep(c), pc'[d] = pc[d]
  PROVE  d \in Holders(s)' <=> d \in Holders(s)
<1>1. req'[d] = req[d] /\ (d \in detached' <=> d \in detached)
  BY Zenon DEF OthersKeep
<1>. QED
  BY <1>1, HoldersDef

LEMMA HoldTypes ==
  ASSUME TypeOK, HoldInv, NEW s \in Slots
  PROVE  /\ IsFiniteSet(Holders(s)) /\ Cardinality(Holders(s)) \in Nat
         /\ Cardinality(Holders(s)) <= slot[s].active
         /\ Cardinality(Holders(s)) <= Capacity(s)
         /\ slot[s].active \in Nat /\ Capacity(s) \in Nat
  BY FS_CardinalityType, SlotTypes DEF HoldInv

(* No slot is taken: the holders of a slot stay or go.                      *)
LEMMA HoldKept ==
  ASSUME TypeOK, HoldInv,
         \A s \in Slots : slot'[s].active = slot[s].active /\ Holders(s)' \subseteq Holders(s)
  PROVE  HoldInv'
<1>1. SUFFICES ASSUME NEW s \in Slots
               PROVE  /\ IsFiniteSet(Holders(s)')
                      /\ Cardinality(Holders(s)') <= slot'[s].active
                      /\ Cardinality(Holders(s)') <= Capacity(s)
  BY Zenon DEF HoldInv, Slots, Capacity
<1>2. Holders(s)' \subseteq Holders(s) /\ slot'[s].active = slot[s].active
  BY Zenon
<1>. QED
  BY <1>2, HoldTypes, CardSub

(* The count of a slot after a step, from its holders.                      *)
LEMMA HoldNext ==
  ASSUME TypeOK, HoldInv, NEW s \in Slots, NEW T,
         \/ T \subseteq Holders(s) /\ slot'[s].active = slot[s].active
         \/ /\ \E c : T \subseteq Holders(s) \union {c}
            /\ slot[s].active < Capacity(s) /\ slot'[s].active = slot[s].active + 1
         \/ /\ \E c \in Holders(s) : \E h : T \subseteq (Holders(s) \ {c}) \union {h}
            /\ slot'[s].active = slot[s].active + 1
         \/ /\ \E c \in Holders(s) : T \subseteq Holders(s) \ {c}
            /\ slot'[s].active = IF slot[s].active = 0 THEN 0 ELSE slot[s].active - 1
  PROVE  IsFiniteSet(T) /\ Cardinality(T) <= slot'[s].active /\ Cardinality(T) <= Capacity(s)
<1>1. PICK H : H = Holders(s)
  OBVIOUS
<1>2. PICK n \in Nat : n = slot[s].active
  BY HoldTypes
<1>3. PICK m \in Nat : m = Capacity(s)
  BY HoldTypes
<1>4. IsFiniteSet(H) /\ Cardinality(H) \in Nat /\ Cardinality(H) <= n /\ Cardinality(H) <= m
  BY <1>1, <1>2, <1>3, HoldTypes
<1>5. CASE T \subseteq H /\ slot'[s].active = n
  <2>1. IsFiniteSet(T) /\ Cardinality(T) \in Nat /\ Cardinality(T) <= Cardinality(H)
    BY <1>4, <1>5, CardSub
  <2>. QED
    BY <1>3, <1>4, <1>5, <2>1
<1>6. ASSUME NEW c, T \subseteq H \union {c}, n < m, slot'[s].active = n + 1
      PROVE  IsFiniteSet(T) /\ Cardinality(T) <= slot'[s].active /\ Cardinality(T) <= m
  <2>1. IsFiniteSet(T) /\ Cardinality(T) \in Nat /\ Cardinality(T) <= Cardinality(H) + 1
    BY <1>4, <1>6, CardAdd
  <2>. QED
    BY <1>4, <1>6, <2>1
<1>7. ASSUME NEW c \in H, NEW h, T \subseteq (H \ {c}) \union {h}, slot'[s].active = n + 1
      PROVE  IsFiniteSet(T) /\ Cardinality(T) <= slot'[s].active /\ Cardinality(T) <= m
  <2>1. IsFiniteSet(T) /\ Cardinality(T) \in Nat /\ Cardinality(T) <= Cardinality(H)
    BY <1>4, <1>7, CardSwap
  <2>. QED
    BY <1>4, <1>7, <2>1
<1>8. ASSUME NEW c \in H, T \subseteq H \ {c},
             slot'[s].active = IF n = 0 THEN 0 ELSE n - 1
      PROVE  IsFiniteSet(T) /\ Cardinality(T) <= slot'[s].active /\ Cardinality(T) <= m
  <2>1. IsFiniteSet(T) /\ Cardinality(T) \in Nat /\ Cardinality(T) + 1 <= Cardinality(H)
    BY <1>4, <1>8, CardDrop
  <2>. QED
    BY <1>4, <1>8, <2>1
<1>. QED
  BY <1>1, <1>2, <1>3, <1>5, <1>6, <1>7, <1>8

LEMMA HoldersNext ==
  ASSUME \A s \in Slots : /\ IsFiniteSet(Holders(s)')
                          /\ Cardinality(Holders(s)') <= slot'[s].active
                          /\ Cardinality(Holders(s)') <= Capacity(s)
  PROVE  HoldInv'
  BY Zenon DEF HoldInv, Slots, Capacity

(* The two sides of Slot.release.                                           *)
LEMMA ReleasedDef ==
  ASSUME NEW q
  PROVE  /\ q.waiters # << >> => /\ Released(q).active = q.active + 1
                                 /\ Released(q).waiters = Tail(q.waiters)
         /\ q.waiters = << >> =>
              /\ Released(q).active = (IF q.active = 0 THEN 0 ELSE q.active - 1)
              /\ Released(q).waiters = << >>
<1>1. CASE q.waiters # << >>
  <2>1. Released(q) = [active |-> q.active + 1, waiters |-> Tail(q.waiters)]
    BY Zenon, <1>1 DEF Released
  <2>. QED
    BY <1>1, <2>1
<1>2. CASE q.waiters = << >>
  <2>1. Released(q) = [active |-> IF q.active = 0 THEN 0 ELSE q.active - 1, waiters |-> << >>]
    BY Zenon, <1>2 DEF Released
  <2>. QED
    BY <1>2, <2>1
<1>. QED
  BY <1>1, <1>2

(* What the queues must satisfy after a step.                               *)
QueuedNext(s, i, d) ==
  d = slot'[s].waiters[i] =>
    pc'[d] = Place(s) /\ signal'[d] = "none" /\ s \in {req'[d].run, "process"}

LEMMA QueueNext ==
  ASSUME \A s \in Slots :
           /\ \A i, j \in 1 .. Len(slot'[s].waiters) :
                slot'[s].waiters[i] = slot'[s].waiters[j] => i = j
           /\ \A i \in 1 .. Len(slot'[s].waiters) : \A d : QueuedNext(s, i, d)
  PROVE  QueueInv'
<1>1. SUFFICES ASSUME NEW s \in Slots
               PROVE  (/\ \A i, j \in 1 .. Len(slot[s].waiters) :
                           slot[s].waiters[i] = slot[s].waiters[j] => i = j
                       /\ \A i \in 1 .. Len(slot[s].waiters) :
                            LET c == slot[s].waiters[i]
                            IN pc[c] = Place(s) /\ signal[c] = "none" /\ s \in Both(c))'
  BY Zenon DEF QueueInv, Slots
<1>2. ASSUME NEW i \in 1 .. Len(slot'[s].waiters)
      PROVE  /\ pc'[slot'[s].waiters[i]] = Place(s)
             /\ signal'[slot'[s].waiters[i]] = "none"
             /\ s \in {req'[slot'[s].waiters[i]].run, "process"}
  <2>1. PICK d : d = slot'[s].waiters[i]
    OBVIOUS
  <2>2. QueuedNext(s, i, d)
    OBVIOUS
  <2>. QED
    BY Zenon, <2>1, <2>2 DEF QueuedNext
<1>3. Place(s)' = Place(s)
  BY DEF Place
<1>. QED
  BY <1>2, <1>3 DEF Both

(* The same step leaves the queues as they are when its actor is in none.   *)
LEMMA QueueKept ==
  ASSUME TypeOK, QueueInv, NEW c \in Calls, NotQueued(c), OthersKeep(c),
         \A s \in Slots : slot'[s].waiters = slot[s].waiters,
         \A d \in Calls \ {c} : pc'[d] = pc[d]
  PROVE  QueueInv'
<1>1. SUFFICES ASSUME NEW s \in Slots
               PROVE  /\ \A i, j \in 1 .. Len(slot'[s].waiters) :
                           slot'[s].waiters[i] = slot'[s].waiters[j] => i = j
                      /\ \A i \in 1 .. Len(slot'[s].waiters) : \A d : QueuedNext(s, i, d)
  BY QueueNext
<1>2. slot'[s].waiters = slot[s].waiters
  OBVIOUS
<1>3. ASSUME NEW i \in 1 .. Len(slot[s].waiters), NEW d, d = slot[s].waiters[i]
      PROVE  QueuedNext(s, i, d)
  <2>1. d \in Calls \ {c}
    BY <1>3, SlotTypes DEF NotQueued
  <2>2. pc[d] = Place(s) /\ signal[d] = "none" /\ s \in Both(d)
    BY <1>3, Waiting
  <2>3. pc'[d] = pc[d] /\ signal'[d] = signal[d] /\ req'[d] = req[d]
    BY Zenon, <2>1 DEF OthersKeep
  <2>. QED
    BY <2>2, <2>3 DEF Both, QueuedNext
<1>4. \A i, j \in 1 .. Len(slot[s].waiters) :
        slot[s].waiters[i] = slot[s].waiters[j] => i = j
  BY Zenon DEF QueueInv
<1>5. ASSUME NEW i \in 1 .. Len(slot'[s].waiters), NEW d
      PROVE  QueuedNext(s, i, d)
  BY <1>2, <1>3 DEF QueuedNext
<1>. QED
  BY <1>2, <1>4, <1>5

(* c asks for a slot of its Run, or, holding that one, for the process slot. *)
AsksFor(s, c) ==
  \/ s # "process" /\ s = req'[c].run
  \/ s = "process" /\ pc[c] = "run slot held" /\ req'[c] = req[c]

LEMMA AcquireSlots ==
  ASSUME TypeOK, QueueInv, HoldInv, NEW s \in Slots, NEW c \in Calls, NotQueued(c),
         Acquire(s, c), OthersKeep(c), c \notin detached',
         req'[c] # None, signal'[c] = "none", AsksFor(s, c)
  PROVE  QueueInv' /\ HoldInv'
<1>1. /\ \A t \in Slots \ {s} : slot'[t] = slot[t]
      /\ \A d \in Calls \ {c} : pc'[d] = pc[d]
      /\ \/ /\ slot[s].active < Capacity(s)
            /\ slot'[s].active = slot[s].active + 1
            /\ slot'[s].waiters = slot[s].waiters
            /\ pc'[c] = IF s = "process" THEN "slots held" ELSE "run slot held"
         \/ /\ slot'[s].active = slot[s].active
            /\ slot'[s].waiters = Append(slot[s].waiters, c)
            /\ pc'[c] = Place(s)
  BY AcquireEffect
<1>2. \A t \in Slots \ {s} : Holders(t)' \subseteq Holders(t)
  <2>1. SUFFICES ASSUME NEW t \in Slots \ {s}, NEW d \in Holders(t)' PROVE d \in Holders(t)
    OBVIOUS
  <2>2. CASE d # c
    BY <1>1, <2>2, HoldersDef, HoldsOn
  <2>3. CASE d = c
    BY ZenonT(60), <1>1, <2>3, HoldersDef DEF Place, AsksFor
  <2>. QED
    BY <2>2, <2>3
<1>3. Holders(s)' \subseteq Holders(s) \union {c}
  BY <1>1, HoldersDef, HoldsOn
<1>4. pc'[c] = Place(s) => Holders(s)' \subseteq Holders(s)
  <2>1. SUFFICES ASSUME pc'[c] = Place(s), c \in Holders(s)' PROVE FALSE
    BY <1>3
  <2>2. \/ pc'[c] \in {"slots held", "handler", "normalizer"}
        \/ s # "process" /\ pc'[c] \in {"run slot held", "process slot"}
    BY <2>1, HoldersDef
  <2>. QED
    BY <2>1, <2>2 DEF Place
<1>5. HoldInv'
  <2>1. SUFFICES ASSUME NEW t \in Slots
                 PROVE  /\ IsFiniteSet(Holders(t)')
                        /\ Cardinality(Holders(t)') <= slot'[t].active
                        /\ Cardinality(Holders(t)') <= Capacity(t)
    BY HoldersNext
  <2>2. \/ Holders(t)' \subseteq Holders(t) /\ slot'[t].active = slot[t].active
        \/ /\ Holders(t)' \subseteq Holders(t) \union {c}
           /\ slot[t].active < Capacity(t) /\ slot'[t].active = slot[t].active + 1
    BY <1>1, <1>2, <1>3, <1>4
  <2>. QED
    BY <2>2, HoldNext
<1>6. QueueInv'
  <2>1. SUFFICES ASSUME NEW t \in Slots
                 PROVE  /\ \A i, j \in 1 .. Len(slot'[t].waiters) :
                             slot'[t].waiters[i] = slot'[t].waiters[j] => i = j
                        /\ \A i \in 1 .. Len(slot'[t].waiters) : \A d : QueuedNext(t, i, d)
    BY QueueNext
  <2>2. PICK w : w = slot[t].waiters
    OBVIOUS
  <2>3. w \in Seq(Calls) /\ Len(w) \in Nat
    BY <2>2, SlotTypes
  <2>4. /\ \A i, j \in 1 .. Len(w) : w[i] = w[j] => i = j
        /\ \A i \in 1 .. Len(w) : w[i] # c /\ w[i] \in Calls
    BY <2>2, SlotTypes DEF QueueInv, NotQueued
  <2>5. ASSUME NEW i \in 1 .. Len(w)
        PROVE  pc'[w[i]] = Place(t) /\ signal'[w[i]] = "none" /\ t \in {req'[w[i]].run, "process"}
    <3>1. pc[w[i]] = Place(t) /\ signal[w[i]] = "none" /\ t \in Both(w[i])
      BY <2>2, Waiting
    <3>2. w[i] \in Calls \ {c}
      BY <2>4
    <3>3. pc'[w[i]] = pc[w[i]] /\ signal'[w[i]] = signal[w[i]] /\ req'[w[i]] = req[w[i]]
      BY Zenon, <1>1, <3>2 DEF OthersKeep
    <3>. QED
      BY <3>1, <3>3 DEF Both
  <2>6. CASE slot'[t].waiters = w
    BY <2>4, <2>5, <2>6 DEF QueuedNext
  <2>7. CASE t = s /\ slot'[s].waiters = Append(slot[s].waiters, c) /\ pc'[c] = Place(s)
    <3>0. PICK v : v = Append(w, c)
      OBVIOUS
    <3>1. /\ v \in Seq(Calls)
          /\ \A i \in 1 .. Len(v) : i \in 1 .. Len(w) \/ i = Len(w) + 1
          /\ \A i \in 1 .. Len(w) : v[i] = w[i]
          /\ v[Len(w) + 1] = c
      BY <2>3, <3>0, Appended
    <3>2. v = slot'[t].waiters
      BY <2>2, <2>7, <3>0
    <3>4. \A i, j \in 1 .. Len(v) : v[i] = v[j] => i = j
      <4>1. TAKE i, j \in 1 .. Len(v)
      <4>2. i \in 1 .. Len(w) \/ i = Len(w) + 1
        BY Zenon, <3>1
      <4>3. j \in 1 .. Len(w) \/ j = Len(w) + 1
        BY Zenon, <3>1
      <4>. QED
        BY Zenon, <2>4, <3>1, <4>2, <4>3
    <3>5. pc'[c] = Place(t) /\ signal'[c] = "none" /\ t \in {req'[c].run, "process"}
      BY <2>7 DEF AsksFor
    <3>6. \A i \in 1 .. Len(v) :
            pc'[v[i]] = Place(t) /\ signal'[v[i]] = "none" /\ t \in {req'[v[i]].run, "process"}
      <4>1. TAKE i \in 1 .. Len(v)
      <4>2. CASE i = Len(w) + 1
        BY <3>1, <3>5, <4>2
      <4>3. CASE i \in 1 .. Len(w)
        <5>1. v[i] = w[i]
          BY <3>1, <4>3
        <5>. QED
          BY Zenon, <2>5, <4>3, <5>1
      <4>. QED
        BY <3>1, <4>2, <4>3
    <3>. QED
      BY <3>2, <3>4, <3>6 DEF QueuedNext
  <2>. QED
    BY <1>1, <2>2, <2>6, <2>7
<1>. QED
  BY <1>5, <1>6

(* c gives back slots it holds.                                             *)
LEMMA ReleaseSlots ==
  ASSUME TypeOK, QueueInv, HoldInv, NEW S \in SUBSET Slots, NEW c \in Calls, NotQueued(c),
         NEW next \in {"landing"} \union Over, Release(S, c, next), OthersKeep(c),
         c \notin detached', \A s \in S : c \in Holders(s)
  PROVE  QueueInv' /\ HoldInv'
<1>1. /\ pc'[c] = next
      /\ \A d \in Calls \ {c} : Moved(d)
      /\ \A d \in Calls \ {c} : ~ First(S, d) => pc'[d] = pc[d]
      /\ \A s \in Slots \ S : slot'[s] = slot[s]
      /\ \A s \in S : slot'[s] = Released(slot[s])
  BY ReleaseEffect
<1>2. ASSUME NEW t \in Slots, NEW d \in Holders(t)'
      PROVE  /\ d \in Calls \ {c}
             /\ \/ d \in Holders(t)
                \/ t \in S /\ slot[t].waiters # << >> /\ d = Head(slot[t].waiters)
  <2>1. d \in Calls
    BY HoldersDef
  <2>2. d # c
    <3>1. \/ pc'[d] \in {"slots held", "handler", "normalizer"}
          \/ d \in detached'
          \/ pc'[d] \in {"run slot held", "process slot"}
      BY HoldersDef
    <3>. QED
      BY <1>1, <3>1 DEF Over
  <2>3. CASE ~ First(S, d)
    BY <1>1, <2>1, <2>2, <2>3, HoldsOn
  <2>4. ASSUME NEW s \in S, slot[s].waiters # << >>, d = Head(slot[s].waiters), s # t
        PROVE  d \in Holders(t)
    <3>1. 1 \in 1 .. Len(slot[s].waiters) /\ d = slot[s].waiters[1]
      BY <2>4, HeadIsFirst, SlotTypes
    <3>2. pc[d] = Place(s) /\ s \in Both(d)
      BY <3>1, Waiting
    <3>3. req'[d] = req[d] /\ (d \in detached' <=> d \in detached)
      BY Zenon, <2>1, <2>2 DEF OthersKeep
    <3>4. Moved(d)
      BY <1>1, <2>1, <2>2
    <3>5. /\ req'[d] # None /\ t \in {req'[d].run, "process"}
          /\ \/ pc'[d] \in {"slots held", "handler", "normalizer"}
             \/ d \in detached'
             \/ t # "process" /\ pc'[d] \in {"run slot held", "process slot"}
      BY HoldersDef
    <3>6. /\ req[d] # None /\ t \in {req[d].run, "process"}
          /\ \/ pc[d] \in {"slots held", "handler", "normalizer"}
             \/ d \in detached
             \/ t # "process" /\ pc[d] \in {"run slot held", "process slot"}
      BY <2>4, <3>2, <3>3, <3>4, <3>5 DEF Moved, Place, Both
    <3>. QED
      BY <2>1, <3>6, HoldersDef
  <2>. QED
    BY <2>1, <2>2, <2>3, <2>4 DEF First
<1>3. HoldInv'
  <2>1. SUFFICES ASSUME NEW t \in Slots
                 PROVE  /\ IsFiniteSet(Holders(t)')
                        /\ Cardinality(Holders(t)') <= slot'[t].active
                        /\ Cardinality(Holders(t)') <= Capacity(t)
    BY HoldersNext
  <2>2. CASE t \notin S
    <3>1. Holders(t)' \subseteq Holders(t) /\ slot'[t].active = slot[t].active
      BY <1>1, <1>2, <2>2
    <3>. QED
      BY <3>1, HoldNext
  <2>3. CASE t \in S /\ slot[t].waiters # << >>
    <3>1. Holders(t)' \subseteq (Holders(t) \ {c}) \union {Head(slot[t].waiters)}
      BY <1>2
    <3>2. slot'[t].active = slot[t].active + 1
      BY <1>1, <2>3, ReleasedDef
    <3>3. c \in Holders(t)
      BY <2>3
    <3>. QED
      BY <3>1, <3>2, <3>3, HoldNext
  <2>4. CASE t \in S /\ slot[t].waiters = << >>
    <3>1. Holders(t)' \subseteq Holders(t) \ {c}
      BY <1>2, <2>4
    <3>2. slot'[t].active = IF slot[t].active = 0 THEN 0 ELSE slot[t].active - 1
      BY <1>1, <2>4, ReleasedDef
    <3>3. c \in Holders(t)
      BY <2>4
    <3>. QED
      BY <3>1, <3>2, <3>3, HoldNext
  <2>. QED
    BY <2>2, <2>3, <2>4
<1>4. QueueInv'
  <2>1. SUFFICES ASSUME NEW t \in Slots
                 PROVE  /\ \A i, j \in 1 .. Len(slot'[t].waiters) :
                             slot'[t].waiters[i] = slot'[t].waiters[j] => i = j
                        /\ \A i \in 1 .. Len(slot'[t].waiters) : \A d : QueuedNext(t, i, d)
    BY QueueNext
  <2>2. PICK w : w = slot[t].waiters
    OBVIOUS
  <2>3. PICK v : v = slot'[t].waiters
    OBVIOUS
  <2>4. w \in Seq(Calls) /\ Len(w) \in Nat /\ \A i \in 1 .. Len(w) : w[i] \in Calls \ {c}
    BY <2>2, SlotTypes DEF NotQueued
  <2>5. \/ v = w /\ t \notin S
        \/ w # << >> /\ v = Tail(w)
        \/ v = << >>
    BY <1>1, <2>2, <2>3, ReleasedDef
  <2>6. ASSUME NEW i \in 1 .. Len(v)
        PROVE  \E j \in 1 .. Len(w) : v[i] = w[j] /\ ((t \notin S /\ j = i) \/ j = i + 1)
    BY <2>4, <2>5, HeadIsFirst
  <2>7. \A i, j \in 1 .. Len(w) : w[i] = w[j] => i = j
    BY <2>2 DEF QueueInv
  <2>8. \A i, j \in 1 .. Len(v) : v[i] = v[j] => i = j
    <3>1. CASE v = w
      BY <2>7, <3>1
    <3>2. CASE w # << >> /\ v = Tail(w)
      <4>1. /\ Len(w) \in Nat \ {0} /\ Len(v) = Len(w) - 1
            /\ \A i \in 1 .. Len(v) : i + 1 \in 1 .. Len(w) /\ v[i] = w[i + 1]
        BY <2>4, <3>2, HeadIsFirst
      <4>2. TAKE i, j \in 1 .. Len(v)
      <4>3. v[i] = v[j] => i + 1 = j + 1
        BY <2>7, <4>1
      <4>. QED
        BY <4>1, <4>3
    <3>3. CASE v = << >>
      BY <3>3
    <3>. QED
      BY <2>5, <3>1, <3>2, <3>3
  <2>9. ASSUME NEW i \in 1 .. Len(v)
        PROVE  pc'[v[i]] = Place(t) /\ signal'[v[i]] = "none" /\ t \in {req'[v[i]].run, "process"}
    <3>1. PICK j \in 1 .. Len(w) : v[i] = w[j] /\ ((t \notin S /\ j = i) \/ j = i + 1)
      BY <2>6
    <3>2. PICK d : d = w[j]
      OBVIOUS
    <3>3. d \in Calls \ {c}
      BY <2>4, <3>2
    <3>4. pc[d] = Place(t) /\ signal[d] = "none" /\ t \in Both(d)
      BY <2>2, <3>2, Waiting
    <3>5. ~ First(S, d)
      <4>1. SUFFICES ASSUME NEW s \in S, slot[s].waiters # << >>, d = Head(slot[s].waiters)
                     PROVE  FALSE
        BY DEF First
      <4>2. 1 \in 1 .. Len(slot[s].waiters) /\ d = slot[s].waiters[1]
        BY <4>1, HeadIsFirst, SlotTypes
      <4>3. slot[s].waiters[1] = slot[t].waiters[j] /\ j \in 1 .. Len(slot[t].waiters)
        BY <2>2, <3>2, <4>2
      <4>4. s = t /\ 1 = j
        BY <4>2, <4>3, OneQueue
      <4>. QED
        BY <3>1, <4>4
    <3>6. pc'[d] = pc[d] /\ signal'[d] = signal[d] /\ req'[d] = req[d]
      BY Zenon, <1>1, <3>3, <3>5 DEF OthersKeep
    <3>. QED
      BY <3>1, <3>2, <3>4, <3>6 DEF Both
  <2>. QED
    BY <2>3, <2>8, <2>9 DEF QueuedNext
<1>. QED
  BY <1>3, <1>4

(* The calls of v are calls of w other than c.                              *)
Among(v, w, c) ==
  \A i \in 1 .. Len(v) : v[i] # c /\ \E j \in 1 .. Len(w) : v[i] = w[j]

(* indexOf and splice remove the grant of c and keep the others.            *)
LEMMA SplicedEffect ==
  ASSUME NEW w \in Seq(Calls), NEW c,
         \A i, j \in 1 .. Len(w) : w[i] = w[j] => i = j,
         NEW v, v = Spliced(w, c)
  PROVE  /\ v \in Seq(Calls)
         /\ \A i, j \in 1 .. Len(v) : v[i] = v[j] => i = j
         /\ Among(v, w, c)
<1>1. Len(w) \in Nat /\ \A i \in 1 .. Len(w) : w[i] \in Calls
  BY LenProperties, ElementOfSeq
<1>2. CASE \E i \in 1 .. Len(w) : w[i] = c
  <2>1. PICK x : x = CHOOSE i \in 1 .. Len(w) : w[i] = c
    OBVIOUS
  <2>2. x \in 1 .. Len(w) /\ w[x] = c
    BY <1>2, <2>1
  <2>3. PICK n \in Nat : n = Len(w) - 1
    BY SMTT(40), <1>1, <2>2
  <2>4. v = [j \in 1 .. n |-> IF j < x THEN w[j] ELSE w[j + 1]]
    BY Zenon, <1>2, <2>1, <2>3 DEF Spliced
  <2>5. ASSUME NEW j \in 1 .. n
        PROVE  \E y \in 1 .. Len(w) : v[j] = w[y] /\ y # x
                                      /\ y = (IF j < x THEN j ELSE j + 1)
    <3>1. CASE j < x
      BY <1>1, <2>2, <2>3, <2>4, <3>1
    <3>2. CASE ~ (j < x)
      <4>1. j + 1 \in 1 .. Len(w) /\ j + 1 # x
        BY <1>1, <2>2, <2>3, <3>2
      <4>2. v[j] = w[j + 1]
        BY <2>4, <3>2
      <4>. QED
        BY <3>2, <4>1, <4>2
    <3>. QED
      BY <3>1, <3>2
  <2>6. v \in [1 .. n -> Calls]
    <3>1. \A j \in 1 .. n : (IF j < x THEN w[j] ELSE w[j + 1]) \in Calls
      BY <1>1, <2>2, <2>3
    <3>. QED
      BY <2>4, <3>1
  <2>7. v \in Seq(Calls) /\ Len(v) = n
    BY <2>6
  <2>8. ASSUME NEW i \in 1 .. n, NEW j \in 1 .. n, v[i] = v[j]
        PROVE  i = j
    <3>1. PICK y \in 1 .. Len(w) : v[i] = w[y] /\ y = (IF i < x THEN i ELSE i + 1)
      BY <2>5
    <3>2. PICK z \in 1 .. Len(w) : v[j] = w[z] /\ z = (IF j < x THEN j ELSE j + 1)
      BY <2>5
    <3>3. y = z
      BY <2>8, <3>1, <3>2
    <3>4. x \in Nat
      BY <1>1, <2>2
    <3>. QED
      BY <3>1, <3>2, <3>3, <3>4
  <2>9. ASSUME NEW i \in 1 .. n
        PROVE  v[i] # c /\ \E j \in 1 .. Len(w) : v[i] = w[j]
    <3>1. PICK y \in 1 .. Len(w) : v[i] = w[y] /\ y # x
      BY <2>5
    <3>2. w[y] # w[x]
      BY <2>2, <3>1
    <3>. QED
      BY <2>2, <3>1, <3>2
  <2>. QED
    BY <2>7, <2>8, <2>9 DEF Among
<1>3. CASE ~ \E i \in 1 .. Len(w) : w[i] = c
  <2>1. v = w
    BY <1>3 DEF Spliced
  <2>. QED
    BY <1>3, <2>1 DEF Among
<1>. QED
  BY <1>2, <1>3

(* An aborted call leaves its queue.                                        *)
LEMMA AbortSlots ==
  ASSUME TypeOK, QueueInv, HoldInv, NEW c \in Calls, NEW kind, Abort(c, kind)
  PROVE  /\ slot' \in [Slots -> [active : Nat, waiters : Seq(Calls)]]
         /\ QueueInv' /\ HoldInv'
<1>1. /\ slot' = [s \in Slots |-> [slot[s] EXCEPT !.waiters = Spliced(slot[s].waiters, c)]]
      /\ pc' = pc /\ req' = req /\ detached' = detached
      /\ signal' = [signal EXCEPT ![c] = kind]
  BY Zenon DEF Abort
<1>2. ASSUME NEW s \in Slots
      PROVE  /\ slot'[s] \in [active : Nat, waiters : Seq(Calls)]
             /\ slot'[s].active = slot[s].active
             /\ slot'[s].waiters = Spliced(slot[s].waiters, c)
  <2>1. PICK a \in Nat, w \in Seq(Calls) : slot[s] = [active |-> a, waiters |-> w]
    BY SlotTypes
  <2>2. \A i, j \in 1 .. Len(w) : w[i] = w[j] => i = j
    BY <2>1 DEF QueueInv
  <2>3. PICK v : v = Spliced(w, c)
    OBVIOUS
  <2>4. v \in Seq(Calls)
    BY <2>2, <2>3, SplicedEffect
  <2>5. slot[s].waiters = w
    BY <2>1
  <2>6. slot'[s] = [slot[s] EXCEPT !.waiters = v]
    BY Zenon, <1>1, <2>3, <2>5
  <2>7. slot'[s] = [active |-> a, waiters |-> v]
    BY <2>1, <2>6
  <2>8. slot[s].active = a
    BY <2>1
  <2>. QED
    BY <2>3, <2>4, <2>5, <2>7, <2>8
<1>3. slot' \in [Slots -> [active : Nat, waiters : Seq(Calls)]]
  <2>1. slot' = [s \in Slots |-> slot'[s]]
    BY <1>1
  <2>. QED
    BY <1>2, <2>1
<1>4. HoldInv'
  <2>1. \A s \in Slots : Holders(s)' \subseteq Holders(s)
    BY <1>1, HoldersDef
  <2>. QED
    BY <1>2, <2>1, HoldKept
<1>5. QueueInv'
  <2>1. SUFFICES ASSUME NEW t \in Slots
                 PROVE  /\ \A i, j \in 1 .. Len(slot'[t].waiters) :
                             slot'[t].waiters[i] = slot'[t].waiters[j] => i = j
                        /\ \A i \in 1 .. Len(slot'[t].waiters) : \A d : QueuedNext(t, i, d)
    BY QueueNext
  <2>2. PICK w \in Seq(Calls) : w = slot[t].waiters
    BY SlotTypes
  <2>3. PICK v : v = slot'[t].waiters
    OBVIOUS
  <2>4. \A i, j \in 1 .. Len(w) : w[i] = w[j] => i = j
    BY <2>2 DEF QueueInv
  <2>5. v = Spliced(w, c)
    BY <1>2, <2>2, <2>3
  <2>6. /\ \A i, j \in 1 .. Len(v) : v[i] = v[j] => i = j
        /\ \A i \in 1 .. Len(v) : v[i] # c /\ \E j \in 1 .. Len(w) : v[i] = w[j]
    <3>1. \A i, j \in 1 .. Len(v) : v[i] = v[j] => i = j
      BY <2>4, <2>5, SplicedEffect
    <3>2. Among(v, w, c)
      BY <2>4, <2>5, SplicedEffect
    <3>. QED
      BY <3>1, <3>2 DEF Among
  <2>7. ASSUME NEW i \in 1 .. Len(v)
        PROVE  pc'[v[i]] = Place(t) /\ signal'[v[i]] = "none" /\ t \in {req'[v[i]].run, "process"}
    <3>1. PICK j \in 1 .. Len(w) : v[i] = w[j]
      BY <2>6
    <3>2. PICK d : d = w[j]
      OBVIOUS
    <3>3. pc[d] = Place(t) /\ signal[d] = "none" /\ t \in Both(d)
      BY <2>2, <3>2, Waiting
    <3>4. d \in Calls /\ d # c
      BY <2>2, <2>6, <3>1, <3>2, SlotTypes
    <3>5. signal'[d] = signal[d]
      BY <1>1, <3>4, CallTypes
    <3>. QED
      BY <1>1, <3>1, <3>2, <3>3, <3>5 DEF Both
  <2>. QED
    BY SMTT(40), <2>3, <2>6, <2>7 DEF QueuedNext
<1>. QED
  BY <1>3, <1>4, <1>5

-----------------------------------------------------------------------------
(* The journal only grows.                                                  *)

(* The positions of an event in a log.                                      *)
At(log, type, d) == {i \in 1 .. Len(log) : log[i].type = type /\ log[i].call = d}

LEMMA PositionIsAt ==
  ASSUME NEW r, NEW type, NEW d
  PROVE  /\ Position(r, type, d) = At(journal[r], type, d)
         /\ Position(r, type, d)' = At(journal'[r], type, d)
  BY DEF Position, At

(* The positions after an event e is appended.                              *)
AtGrown(v, log, e, type, d) ==
  /\ v \in Seq(Event) /\ Len(v) = Len(log) + 1 /\ Len(log) \in Nat
  /\ At(log, type, d) \subseteq At(v, type, d)
  /\ \A i \in At(log, type, d) : v[i] = log[i]
  /\ \A i \in At(v, type, d) \ At(log, type, d) :
       i = Len(log) + 1 /\ v[i] = e /\ e.type = type /\ e.call = d
  /\ e.type = type /\ e.call = d => Len(log) + 1 \in At(v, type, d)

LEMMA AtAppend ==
  ASSUME NEW log \in Seq(Event), NEW e \in Event, NEW v, v = Append(log, e), NEW type, NEW d
  PROVE  AtGrown(v, log, e, type, d)
<1>1. /\ v \in Seq(Event)
      /\ Len(log) \in Nat /\ Len(v) \in Nat /\ Len(v) = Len(log) + 1
      /\ \A i \in 1 .. Len(v) : i \in 1 .. Len(log) \/ i = Len(log) + 1
      /\ \A i \in 1 .. Len(log) : i \in 1 .. Len(v) /\ v[i] = log[i]
      /\ Len(log) + 1 \in 1 .. Len(v) /\ v[Len(log) + 1] = e
  BY Appended
<1>2. /\ At(log, type, d) \subseteq At(v, type, d)
      /\ \A i \in At(log, type, d) : v[i] = log[i]
  BY <1>1 DEF At
<1>3. \A i \in At(v, type, d) \ At(log, type, d) :
        i = Len(log) + 1 /\ v[i] = e /\ e.type = type /\ e.call = d
  BY <1>1 DEF At
<1>4. e.type = type /\ e.call = d => Len(log) + 1 \in At(v, type, d)
  BY <1>1 DEF At
<1>. QED
  BY <1>1, <1>2, <1>3, <1>4 DEF AtGrown

(* The journal of r after a step of c that may append the requested event   *)
(* of c and then its completed event.                                       *)
Log(c, r, asks) == IF asks THEN Append(journal[r], Requested(c)) ELSE journal[r]

Grows(c, r, asks, done, final) ==
  /\ \A q \in Runs \ {r} : journal'[q] = journal[q]
  /\ journal'[r] = IF done THEN Append(Log(c, r, asks), Completed(c, final)) ELSE Log(c, r, asks)

(* What is there stays, and what is new is the event of c.                  *)
Kept(q, type, d) ==
  /\ Position(q, type, d) \subseteq Position(q, type, d)'
  /\ \A i \in Position(q, type, d) : journal'[q][i] = journal[q][i]

NewAsk(q, type, d, i, c, r, asks) ==
  q = r /\ d = c /\ type = "tool.requested" /\ asks /\ i = Len(journal[r]) + 1

NewEnd(q, type, d, i, c, r, done, final) ==
  /\ q = r /\ d = c /\ type = "tool.completed" /\ done
  /\ journal'[r][i].final = final
  /\ i = Len(journal'[r])

LEMMA LogEffect ==
  ASSUME TypeOK, NEW c \in Calls, NEW r \in Runs, NEW asks \in BOOLEAN, NEW type, NEW d,
         NEW log, log = Log(c, r, asks)
  PROVE  /\ log \in Seq(Event)
         /\ At(journal[r], type, d) \subseteq At(log, type, d)
         /\ \A i \in At(journal[r], type, d) : log[i] = journal[r][i]
         /\ \A i \in At(log, type, d) \ At(journal[r], type, d) :
              NewAsk(r, type, d, i, c, r, asks)
         /\ asks => Len(journal[r]) + 1 \in At(log, "tool.requested", c)
<1>1. PICK j \in Seq(Event) : j = journal[r]
  BY RunTypes
<1>2. PICK e \in Event : e = Requested(c)
  BY EventType
<1>3. e.type = "tool.requested" /\ e.call = c
  BY <1>2, EventType
<1>4. CASE asks
  <2>1. log = Append(j, e)
    BY <1>1, <1>2, <1>4 DEF Log
  <2>2. AtGrown(log, j, e, type, d)
    BY <2>1, AtAppend
  <2>3. AtGrown(log, j, e, "tool.requested", c)
    BY <2>1, AtAppend
  <2>4. Len(j) + 1 \in At(log, "tool.requested", c)
    BY <1>3, <2>3 DEF AtGrown
  <2>5. /\ log \in Seq(Event)
        /\ At(j, type, d) \subseteq At(log, type, d)
        /\ \A i \in At(j, type, d) : log[i] = j[i]
        /\ \A i \in At(log, type, d) \ At(j, type, d) :
              i = Len(j) + 1 /\ type = "tool.requested" /\ d = c
    BY <1>3, <2>2 DEF AtGrown
  <2>. QED
    BY <1>1, <1>4, <2>4, <2>5 DEF NewAsk
<1>5. CASE ~ asks
  <2>1. log = journal[r]
    BY <1>5 DEF Log
  <2>. QED
    BY <1>1, <1>5, <2>1
<1>. QED
  BY <1>4, <1>5

LEMMA GrowsEffect ==
  ASSUME TypeOK, NEW c \in Calls, NEW r \in Runs, NEW asks \in BOOLEAN, NEW done \in BOOLEAN,
         NEW final \in Final, Grows(c, r, asks, done, final),
         NEW q \in Runs, NEW type, NEW d
  PROVE  /\ Kept(q, type, d)
         /\ \A i \in Position(q, type, d)' \ Position(q, type, d) :
              \/ NewAsk(q, type, d, i, c, r, asks)
              \/ NewEnd(q, type, d, i, c, r, done, final)
<1>1. PICK log \in Seq(Event) : log = Log(c, r, asks)
  BY LogEffect
<1>2. PICK e \in Event : e = Completed(c, final) /\ e.type = "tool.completed" /\ e.call = c
                           /\ e.final = final
  BY EventType
<1>3. CASE q # r
  BY <1>3, PositionIsAt DEF Grows, Kept
<1>4. CASE q = r
  <2>1. PICK j : j = journal[r]
    OBVIOUS
  <2>2. PICK k : k = journal'[r]
    OBVIOUS
  <2>3. /\ At(j, type, d) \subseteq At(log, type, d)
        /\ \A i \in At(j, type, d) : log[i] = j[i]
        /\ \A i \in At(log, type, d) \ At(j, type, d) : NewAsk(r, type, d, i, c, r, asks)
    BY <1>1, <2>1, LogEffect
  <2>4. /\ At(log, type, d) \subseteq At(k, type, d)
        /\ \A i \in At(log, type, d) : k[i] = log[i]
        /\ \A i \in At(k, type, d) \ At(log, type, d) : NewEnd(r, type, d, i, c, r, done, final)
    <3>1. CASE done
      <4>1. k = Append(log, e)
        BY <1>1, <1>2, <2>2, <3>1 DEF Grows
      <4>2. /\ At(log, type, d) \subseteq At(k, type, d)
            /\ \A i \in At(log, type, d) : k[i] = log[i]
            /\ \A i \in At(k, type, d) \ At(log, type, d) :
                 i = Len(k) /\ k[i] = e /\ e.type = type /\ e.call = d
        <5>1. AtGrown(k, log, e, type, d)
          BY <4>1, AtAppend
        <5>. QED
          BY <5>1 DEF AtGrown
      <4>. QED
        BY <1>2, <2>2, <3>1, <4>2 DEF NewEnd
    <3>2. CASE ~ done
      <4>1. k = log
        BY <1>1, <2>2, <3>2 DEF Grows
      <4>. QED
        BY <4>1
    <3>. QED
      BY <3>1, <3>2
  <2>5. Position(q, type, d) = At(j, type, d) /\ Position(q, type, d)' = At(k, type, d)
    BY <1>4, <2>1, <2>2, PositionIsAt
  <2>. QED
    BY <1>4, <2>1, <2>2, <2>3, <2>4, <2>5 DEF Kept
<1>. QED
  BY <1>3, <1>4

(* The events a step announces are there.                                   *)
LEMMA GrowsAdds ==
  ASSUME TypeOK, NEW c \in Calls, NEW r \in Runs, NEW asks \in BOOLEAN, NEW done \in BOOLEAN,
         NEW final \in Final, Grows(c, r, asks, done, final)
  PROVE  /\ journal'[r] \in Seq(Event)
         /\ asks => Len(journal[r]) + 1 \in Position(r, "tool.requested", c)'
         /\ done => Position(r, "tool.completed", c)' # {}
<1>1. PICK log \in Seq(Event) : log = Log(c, r, asks)
  BY LogEffect
<1>2. PICK e \in Event : e = Completed(c, final) /\ e.type = "tool.completed" /\ e.call = c
  BY EventType
<1>3. PICK k : k = journal'[r]
  OBVIOUS
<1>4. asks => Len(journal[r]) + 1 \in At(log, "tool.requested", c)
  BY <1>1, LogEffect
<1>5. CASE done
  <2>1. k = Append(log, e)
    BY <1>1, <1>2, <1>3, <1>5 DEF Grows
  <2>2. k \in Seq(Event) /\ At(log, "tool.requested", c) \subseteq At(k, "tool.requested", c)
    <3>1. AtGrown(k, log, e, "tool.requested", c)
      BY <2>1, AtAppend
    <3>. QED
      BY <3>1 DEF AtGrown
  <2>3. Len(log) + 1 \in At(k, "tool.completed", c)
    <3>1. AtGrown(k, log, e, "tool.completed", c)
      BY <2>1, AtAppend
    <3>. QED
      BY <1>2, <3>1 DEF AtGrown
  <2>. QED
    BY <1>3, <1>4, <2>2, <2>3, PositionIsAt
<1>6. CASE ~ done
  <2>1. k = log
    BY <1>1, <1>3, <1>6 DEF Grows
  <2>. QED
    BY <1>3, <1>4, <1>6, <2>1, PositionIsAt
<1>. QED
  BY <1>5, <1>6

(* What a step of c does to the books: the events it appends, and the row   *)
(* and the settlement they go with.                                         *)
UnderWay(c) == pc[c] \in Asked \/ work[c] # "none" \/ row[c].reused # None

Books(c, r, asks, done, final) ==
  /\ running' = running
  /\ req'[c] # None /\ req'[c].run = r
  /\ req[c] # None => req'[c] = req[c]
  /\ Grows(c, r, asks, done, final)
  /\ asks => pc[c] = "new"
  /\ done => /\ pc[c] # "returned" /\ r \in running
             /\ life'[c] = "finished" /\ settled'[c] = final
  /\ life'[c] = "finished" => done \/ r \notin running \/ life[c] = "finished"
  /\ life[c] = "finished" => life'[c] = "finished" /\ settled'[c] = settled[c]
  /\ UnderWay(c)' => asks \/ UnderWay(c)

(* The requested event of a call stays.                                     *)
LEMMA StaysRequested ==
  ASSUME TypeOK, NEW c \in Calls, NEW r \in Runs, NEW asks \in BOOLEAN, NEW done \in BOOLEAN,
         NEW final \in Final, Grows(c, r, asks, done, final),
         NEW d \in Calls, WasRequested(d), req'[d] = req[d]
  PROVE  WasRequested(d)'
<1>1. req[d] # None /\ req[d].run \in Runs
  BY RequestType DEF WasRequested
<1>2. PICK q \in Runs : q = req[d].run
  BY <1>1
<1>3. Kept(q, "tool.requested", d)
  BY GrowsEffect
<1>4. At(journal'[q], "tool.requested", d) # {}
  BY <1>2, <1>3, PositionIsAt DEF Kept, WasRequested
<1>5. (req[d] # None /\ At(journal[req[d].run], "tool.requested", d) # {})'
  BY <1>1, <1>2, <1>4
<1>. QED
  BY <1>5 DEF WasRequested, Position, At

LEMMA BooksTraced ==
  ASSUME TypeOK, CallsInv, TracedInv, JournalInv, NEW c \in Calls, OthersKeep(c),
         NEW r \in Runs, NEW asks \in BOOLEAN, NEW done \in BOOLEAN, NEW final \in Final,
         Books(c, r, asks, done, final)
  PROVE  TracedInv'
<1>1. SUFFICES ASSUME NEW d \in Calls, UnderWay(d)'
               PROVE  WasRequested(d)'
  BY Zenon DEF TracedInv, UnderWay
<1>2. Grows(c, r, asks, done, final)
  BY DEF Books
<1>3. UnderWay(d) => WasRequested(d)
  BY Zenon DEF TracedInv, UnderWay
<1>4. CASE d # c
  <2>1. /\ Moved(d) /\ req'[d] = req[d] /\ work'[d] = work[d] /\ row'[d] = row[d]
    BY Zenon, <1>4 DEF OthersKeep
  <2>2. UnderWay(d)
    BY <1>1, <2>1 DEF UnderWay, Moved, Asked, Waits
  <2>. QED
    BY <1>2, <1>3, <2>1, <2>2, StaysRequested
<1>5. CASE d = c /\ asks
  <2>1. Len(journal[r]) + 1 \in Position(r, "tool.requested", c)'
    BY <1>2, <1>5, GrowsAdds
  <2>2. req'[c] # None /\ req'[c].run = r
    BY DEF Books
  <2>3. Len(journal[r]) + 1 \in At(journal'[r], "tool.requested", c)
    BY <2>1, PositionIsAt
  <2>4. (req[c] # None /\ At(journal[req[c].run], "tool.requested", c) # {})'
    BY <2>2, <2>3
  <2>. QED
    BY <1>5, <2>4 DEF WasRequested, Position, At
<1>6. CASE d = c /\ ~ asks
  <2>1. UnderWay(c)
    BY <1>1, <1>6 DEF Books
  <2>2. WasRequested(c)
    BY <1>3, <1>6, <2>1
  <2>3. req'[c] = req[c]
    BY <2>2 DEF WasRequested, Books
  <2>. QED
    BY <1>2, <1>6, <2>2, <2>3, StaysRequested
<1>. QED
  BY <1>4, <1>5, <1>6

LEMMA BooksJournal ==
  ASSUME TypeOK, CallsInv, TracedInv, JournalInv, NEW c \in Calls, OthersKeep(c),
         NEW r \in Runs, NEW asks \in BOOLEAN, NEW done \in BOOLEAN, NEW final \in Final,
         Books(c, r, asks, done, final)
  PROVE  JournalInv'
<1>1. Grows(c, r, asks, done, final)
  BY DEF Books
<1>2. ASSUME NEW q \in Runs, NEW d \in Calls, NEW type \in {"tool.requested", "tool.completed"}
      PROVE  /\ Position(q, type, d) # {} => req[d] # None /\ req[d].run = q
             /\ \A i, j \in Position(q, type, d) : i = j
  <2>1. \A p \in Runs, x \in Calls, kind \in {"tool.requested", "tool.completed"} :
          /\ Position(p, kind, x) # {} => req[x] # None /\ req[x].run = p
          /\ \A i, j \in Position(p, kind, x) : i = j
    BY DEF JournalInv
  <2>. QED
    BY Zenon, <2>1
<1>3. ASSUME NEW d \in Calls
      PROVE  /\ req[d] # None => req'[d] = req[d]
             /\ life[d] = "finished" => life'[d] = "finished" /\ settled'[d] = settled[d]
  <2>1. CASE d = c
    BY Zenon, <2>1 DEF Books
  <2>2. CASE d # c
    BY Zenon, <2>2 DEF OthersKeep
  <2>. QED
    BY Zenon, <2>1, <2>2
<1>4. ASSUME NEW q \in Runs, NEW d \in Calls, NEW type \in {"tool.requested", "tool.completed"}
      PROVE  /\ Position(q, type, d)' # {} => req'[d] # None /\ req'[d].run = q
             /\ \A i, j \in Position(q, type, d)' : i = j
  <2>1. PICK P : P = Position(q, type, d)
    OBVIOUS
  <2>2. PICK Q : Q = Position(q, type, d)'
    OBVIOUS
  <2>3. /\ P \subseteq Q
        /\ \A i \in Q \ P : \/ NewAsk(q, type, d, i, c, r, asks)
                            \/ NewEnd(q, type, d, i, c, r, done, final)
    BY <1>1, <2>1, <2>2, GrowsEffect DEF Kept
  <2>4. (P # {} => req[d] # None /\ req[d].run = q) /\ \A i, j \in P : i = j
    BY <1>2, <2>1
  <2>5. CASE Q = P
    BY <1>3, <2>2, <2>4, <2>5
  <2>6. CASE Q # P
    <3>1. PICK x \in Q \ P : \/ NewAsk(q, type, d, x, c, r, asks)
                             \/ NewEnd(q, type, d, x, c, r, done, final)
      BY <2>3, <2>6
    <3>2. q = r /\ d = c
      BY <3>1 DEF NewAsk, NewEnd
    <3>3. req'[c] # None /\ req'[c].run = r
      BY DEF Books
    <3>4. P = {}
      <4>1. CASE NewAsk(q, type, d, x, c, r, asks)
        <5>1. pc[c] = "new"
          BY <4>1 DEF NewAsk, Books
        <5>2. req[c] = None
          BY <5>1 DEF CallsInv, FreshCall
        <5>. QED
          BY <2>4, <3>2, <5>2
      <4>2. CASE NewEnd(q, type, d, x, c, r, done, final)
        <5>1. pc[c] # "returned" /\ type = "tool.completed"
          BY <4>2 DEF NewEnd, Books
        <5>2. life[c] # "finished"
          BY <5>1 DEF CallsInv, CallInv
        <5>3. \A i \in Position(r, "tool.completed", c) : life[c] = "finished"
          BY Zenon DEF JournalInv
        <5>. QED
          BY <2>1, <3>2, <5>1, <5>2, <5>3
      <4>. QED
        BY <3>1, <4>1, <4>2
    <3>5. \A i, j \in Q : i = j
      BY <2>3, <3>4 DEF NewAsk, NewEnd
    <3>. QED
      BY <2>2, <3>2, <3>3, <3>5
  <2>. QED
    BY <2>5, <2>6
<1>5. ASSUME NEW q \in Runs, NEW d \in Calls, NEW i \in Position(q, "tool.completed", d)'
      PROVE  life'[d] = "finished" /\ journal'[q][i].final = settled'[d]
  <2>1. CASE i \in Position(q, "tool.completed", d)
    <3>1. life[d] = "finished" /\ journal[q][i].final = settled[d]
      BY <2>1 DEF JournalInv
    <3>2. Kept(q, "tool.completed", d)
      BY <1>1, GrowsEffect
    <3>3. journal'[q][i] = journal[q][i]
      BY <2>1, <3>2 DEF Kept
    <3>. QED
      BY <1>3, <3>1, <3>3
  <2>2. CASE i \notin Position(q, "tool.completed", d)
    <3>1. NewEnd(q, "tool.completed", d, i, c, r, done, final)
      BY <1>1, <2>2, GrowsEffect DEF NewAsk
    <3>. QED
      BY <3>1 DEF NewEnd, Books
  <2>. QED
    BY <2>1, <2>2
<1>6. ASSUME NEW d \in Calls, life'[d] = "finished",
             At(journal'[req'[d].run], "tool.completed", d) = {}
      PROVE  req'[d].run \notin running'
  <2>1. running' = running
    BY DEF Books
  <2>2. CASE life[d] = "finished"
    <3>1. req[d] # None
      BY <2>2 DEF CallsInv, FreshCall
    <3>2. req'[d] = req[d]
      BY <1>3, <3>1
    <3>3. PICK q \in Runs : q = req[d].run
      BY <3>1, RequestType
    <3>4. Kept(q, "tool.completed", d)
      BY <1>1, GrowsEffect
    <3>5. Position(q, "tool.completed", d) = {}
      BY <1>6, <3>2, <3>3, <3>4, PositionIsAt DEF Kept
    <3>6. req[d].run \notin running
      BY <2>2, <3>3, <3>5 DEF JournalInv
    <3>. QED
      BY <2>1, <3>2, <3>6
  <2>3. CASE life[d] # "finished"
    <3>1. d = c
      BY <1>6, <2>3 DEF OthersKeep
    <3>2. req'[c].run = r /\ (done \/ r \notin running)
      BY <1>6, <2>3, <3>1 DEF Books
    <3>3. done => At(journal'[r], "tool.completed", c) # {}
      BY <1>1, GrowsAdds, PositionIsAt
    <3>. QED
      BY <1>6, <2>1, <3>1, <3>2, <3>3
  <2>. QED
    BY <2>2, <2>3
<1>7. (\A d \in Calls :
         (life[d] = "finished" /\ Position(req[d].run, "tool.completed", d) = {})
           => req[d].run \notin running)'
  BY <1>6 DEF Position, At
<1>. QED
  BY <1>4, <1>5, <1>7 DEF JournalInv

-----------------------------------------------------------------------------
(* The deduplication table and the reuse of results.                        *)

(* What the parts of the invariant say of the state after a step.           *)
AskedAt(q, d) == At(journal[q], "tool.requested", d)
AskedThen(q, d) == At(journal'[q], "tool.requested", d)

KinThen(l, d) == req'[l] # None /\ req'[l].run = req'[d].run /\ req'[l].key = req'[d].key
LeadsThen(l) ==
  /\ req'[l] # None /\ AskedThen(req'[l].run, l) # {}
  /\ pc'[l] # "leader" /\ settled'[l].reused = None
PublishedThen(l) == pc'[l] = "returned" /\ settled'[l] = Success
NotOvertakenThen(l, d) ==
  \A x \in Calls :
    (req'[x] # None /\ req'[x].refresh /\ KinThen(x, d)) =>
      \A i \in AskedThen(req'[d].run, l), j \in AskedThen(req'[d].run, x),
         m \in AskedThen(req'[d].run, d) : ~ (i < j /\ j < m)
NewestThen(l, q, k) ==
  \A x \in Calls :
    (req'[x] # None /\ req'[x].refresh /\ req'[x].run = q /\ req'[x].key = k) =>
      \A i \in AskedThen(q, l), j \in AskedThen(q, x) : j <= i

LEMMA DedupNext ==
  ASSUME \A q \in Runs, k \in Keys :
           dedup'[q][k] # None =>
             \A l : l = dedup'[q][k].leader =>
               /\ req'[l].run = q /\ req'[l].key = k
               /\ LeadsThen(l) /\ NewestThen(l, q, k)
               /\ dedup'[q][k].done => PublishedThen(l)
  PROVE  DedupInv'
<1>1. SUFFICES ASSUME NEW q \in Runs, NEW k \in Keys, dedup'[q][k] # None
               PROVE  (LET l == dedup[q][k].leader
                       IN /\ req[l].run = q /\ req[l].key = k
                          /\ Leads(l) /\ Newest(l, q, k)
                          /\ dedup[q][k].done => Published(l))'
  BY Zenon DEF DedupInv
<1>2. PICK l : l = dedup'[q][k].leader
  OBVIOUS
<1>3. /\ req'[l].run = q /\ req'[l].key = k
      /\ LeadsThen(l) /\ NewestThen(l, q, k)
      /\ dedup'[q][k].done => PublishedThen(l)
  BY <1>1, <1>2
<1>4. Leads(l)' /\ Newest(l, q, k)' /\ (PublishedThen(l) => Published(l)')
  BY SMTT(40), <1>3 DEF LeadsThen, NewestThen, PublishedThen, Leads, Newest, Published, WasRequested,
              Position, At, AskedThen
<1>. QED
  BY <1>2, <1>3, <1>4 DEF Leads, Newest, Published, WasRequested, Position

LEMMA FollowNext ==
  ASSUME \A d \in Calls :
           pc'[d] = "leader" =>
             \A l : l = req'[d].leader =>
               l \in Calls /\ KinThen(l, d) /\ LeadsThen(l) /\ NotOvertakenThen(l, d)
  PROVE  FollowInv'
<1>1. SUFFICES ASSUME NEW d \in Calls, pc'[d] = "leader"
               PROVE  (LET l == req[d].leader
                       IN l \in Calls /\ Kin(l, d) /\ Leads(l) /\ NotOvertaken(l, d))'
  BY Zenon DEF FollowInv
<1>2. PICK l : l = req'[d].leader
  OBVIOUS
<1>3. l \in Calls /\ KinThen(l, d) /\ LeadsThen(l) /\ NotOvertakenThen(l, d)
  BY Zenon, <1>1, <1>2
<1>4. Kin(l, d)' /\ Leads(l)' /\ NotOvertaken(l, d)'
  BY SMTT(40), <1>3 DEF LeadsThen, KinThen, NotOvertakenThen, Kin, Leads, NotOvertaken, WasRequested,
              Position, At, AskedThen
<1>. QED
  BY <1>2, <1>3, <1>4 DEF Kin, Leads, NotOvertaken, WasRequested, Position

LEMMA ReuseNext ==
  ASSUME \A d \in Calls :
           row'[d].reused # None =>
             \A l : l = row'[d].reused =>
               KinThen(l, d) /\ LeadsThen(l) /\ PublishedThen(l) /\ NotOvertakenThen(l, d)
  PROVE  ReuseInv'
<1>1. SUFFICES ASSUME NEW d \in Calls, row'[d].reused # None
               PROVE  (LET l == row[d].reused
                       IN Kin(l, d) /\ Leads(l) /\ Published(l) /\ NotOvertaken(l, d))'
  BY Zenon DEF ReuseInv
<1>2. PICK l : l = row'[d].reused
  OBVIOUS
<1>3. KinThen(l, d) /\ LeadsThen(l) /\ PublishedThen(l) /\ NotOvertakenThen(l, d)
  BY Zenon, <1>1, <1>2
<1>4. Kin(l, d)' /\ Leads(l)' /\ Published(l)' /\ NotOvertaken(l, d)'
  BY <1>3 DEF LeadsThen, KinThen, NotOvertakenThen, PublishedThen, Kin, Leads, NotOvertaken,
              Published, WasRequested, Position, At, AskedThen
<1>. QED
  BY <1>2, <1>3, <1>4 DEF Kin, Leads, NotOvertaken, Published, WasRequested, Position

(* c finds l in the table under its own key.                                *)
Finds(c, r, asks, l) ==
  /\ asks /\ req[c] = None /\ ~ req'[c].refresh
  /\ dedup[r][req'[c].key] # None
  /\ l = dedup[r][req'[c].key].leader

(* What a step of c does to the table, and what it takes from it.           *)
Registers(c, r, asks, q, k) ==
  /\ asks /\ req[c] = None /\ dedup'[q][k] = Inflight(c) /\ q = r /\ k = req'[c].key
  /\ pc'[c] # "leader" /\ settled'[c].reused = None

Publishes(c, q, k) ==
  /\ dedup[q][k] = Inflight(c)
  /\ dedup'[q][k] = [leader |-> c, done |-> TRUE]
  /\ PublishedThen(c)

Table(c, r, asks) ==
  /\ \A q \in Runs, k \in Keys :
       dedup'[q][k] # None =>
         dedup'[q][k] = dedup[q][k] \/ Registers(c, r, asks, q, k) \/ Publishes(c, q, k)
  /\ (req[c] = None /\ req'[c].refresh) => dedup'[r][req'[c].key] = Inflight(c)
  /\ pc'[c] = "leader" => pc[c] = "leader" \/ Finds(c, r, asks, req'[c].leader)
  /\ row'[c].reused # None =>
       \/ row'[c].reused = row[c].reused
       \/ Finds(c, r, asks, row'[c].reused) /\ dedup[r][req'[c].key].done
       \/ /\ pc[c] = "leader" /\ row'[c].reused = req[c].leader
          /\ Published(req[c].leader)
  /\ (pc[c] # "new" /\ pc[c] # "leader" /\ settled[c].reused = None)
       => pc'[c] # "leader" /\ settled'[c].reused = None
  /\ Published(c) => PublishedThen(c)

(* A call that was made asks no second time.                                *)
LEMMA SamePosition ==
  ASSUME TypeOK, CallsInv, NEW c \in Calls, NEW r \in Runs, NEW asks \in BOOLEAN,
         NEW done \in BOOLEAN, NEW final \in Final, Books(c, r, asks, done, final),
         NEW q \in Runs, NEW d \in Calls, req[d] # None
  PROVE  AskedThen(q, d) = AskedAt(q, d)
<1>1. Grows(c, r, asks, done, final)
  BY DEF Books
<1>2. PICK P : P = Position(q, "tool.requested", d)
  OBVIOUS
<1>3. PICK Q : Q = Position(q, "tool.requested", d)'
  OBVIOUS
<1>4. P = AskedAt(q, d) /\ Q = AskedThen(q, d)
  BY <1>2, <1>3, PositionIsAt DEF AskedAt, AskedThen
<1>5. /\ P \subseteq Q
      /\ \A i \in Q \ P : \/ NewAsk(q, "tool.requested", d, i, c, r, asks)
                          \/ NewEnd(q, "tool.requested", d, i, c, r, done, final)
  BY <1>1, <1>2, <1>3, GrowsEffect DEF Kept
<1>6. \A i \in Q \ P : d = c /\ asks
  BY <1>5 DEF NewAsk, NewEnd
<1>7. asks => req[c] = None
  BY DEF Books, CallsInv, FreshCall
<1>. QED
  BY <1>4, <1>5, <1>6, <1>7

(* A call that is made now has only this position.                          *)
LEMMA FreshPosition ==
  ASSUME TypeOK, CallsInv, JournalInv, NEW c \in Calls, NEW r \in Runs, NEW asks \in BOOLEAN,
         NEW done \in BOOLEAN, NEW final \in Final, Books(c, r, asks, done, final),
         NEW q \in Runs, req[c] = None
  PROVE  \A i \in AskedThen(q, c) : q = r /\ i = Len(journal[r]) + 1
<1>1. Grows(c, r, asks, done, final)
  BY DEF Books
<1>2. PICK P : P = Position(q, "tool.requested", c)
  OBVIOUS
<1>3. PICK Q : Q = Position(q, "tool.requested", c)'
  OBVIOUS
<1>4. Q = AskedThen(q, c)
  BY <1>3, PositionIsAt DEF AskedThen
<1>5. /\ P \subseteq Q
      /\ \A i \in Q \ P : \/ NewAsk(q, "tool.requested", c, i, c, r, asks)
                          \/ NewEnd(q, "tool.requested", c, i, c, r, done, final)
  BY <1>1, <1>2, <1>3, GrowsEffect DEF Kept
<1>6. P = {}
  BY <1>2 DEF JournalInv
<1>. QED
  BY <1>4, <1>5, <1>6 DEF NewAsk, NewEnd

LEMMA OldPosition ==
  ASSUME TypeOK, NEW q \in Runs, NEW d, NEW i \in AskedAt(q, d)
  PROVE  i \in Nat /\ Len(journal[q]) \in Nat /\ i <= Len(journal[q])
  BY RunTypes, LenProperties DEF AskedAt, At

(* Order is kept: between l and d no refresh can be inserted.               *)
LEMMA OrderKept ==
  ASSUME TypeOK, CallsInv, JournalInv, NEW c \in Calls, NEW r \in Runs, NEW asks \in BOOLEAN,
         NEW done \in BOOLEAN, NEW final \in Final, Books(c, r, asks, done, final),
         OthersKeep(c), NEW d \in Calls, NEW l \in Calls, req[d] # None, Kin(l, d),
         NotOvertaken(l, d)
  PROVE  NotOvertakenThen(l, d)
<1>1. req'[d] = req[d]
  BY DEF Books, OthersKeep
<1>2. PICK q \in Runs : q = req[d].run
  BY RequestType
<1>3. AskedThen(q, d) = AskedAt(q, d) /\ AskedThen(q, l) = AskedAt(q, l)
  BY SamePosition DEF Kin
<1>4. SUFFICES ASSUME NEW x \in Calls, req'[x] # None, req'[x].refresh, KinThen(x, d),
                      NEW i \in AskedAt(q, l), NEW j \in AskedThen(q, x),
                      NEW m \in AskedAt(q, d), i < j, j < m
               PROVE  FALSE
  BY <1>1, <1>2, <1>3 DEF NotOvertakenThen
<1>5. CASE req[x] # None
  <2>1. AskedThen(q, x) = AskedAt(q, x)
    BY <1>5, SamePosition
  <2>2. req'[x] = req[x]
    BY <1>5 DEF Books, OthersKeep
  <2>3. req[x].refresh /\ Kin(x, d)
    BY <1>1, <1>4, <1>5, <2>2 DEF Kin, KinThen
  <2>4. \A n \in Position(q, "tool.requested", l), o \in Position(q, "tool.requested", x),
           p \in Position(q, "tool.requested", d) : ~ (n < o /\ o < p)
    BY <1>2, <1>5, <2>3 DEF NotOvertaken
  <2>5. /\ i \in Position(q, "tool.requested", l) /\ j \in Position(q, "tool.requested", x)
        /\ m \in Position(q, "tool.requested", d)
    BY <2>1, PositionIsAt DEF AskedAt
  <2>. QED
    BY <1>4, <2>4, <2>5
<1>6. CASE req[x] = None
  <2>1. x = c
    BY <1>4, <1>6 DEF OthersKeep
  <2>2. q = r /\ j = Len(journal[r]) + 1
    BY <1>6, <2>1, FreshPosition
  <2>3. m \in Nat /\ Len(journal[q]) \in Nat /\ m <= Len(journal[q])
    BY OldPosition
  <2>. QED
    BY <1>4, <2>2, <2>3
<1>. QED
  BY <1>5, <1>6

(* A call that finds l in the table asks after every refresh there is.      *)
LEMMA OrderFound ==
  ASSUME TypeOK, CallsInv, JournalInv, DedupInv, NEW c \in Calls, NEW r \in Runs,
         NEW asks \in BOOLEAN, NEW done \in BOOLEAN, NEW final \in Final,
         Books(c, r, asks, done, final), OthersKeep(c), NEW l \in Calls,
         req'[c].key \in Keys, Finds(c, r, asks, l)
  PROVE  /\ NotOvertakenThen(l, c) /\ Leads(l)
         /\ req[l] # None /\ req[l].run = r /\ req[l].key = req'[c].key
<1>1. PICK k \in Keys : k = req'[c].key
  OBVIOUS
<1>2. dedup[r][k] # None /\ l = dedup[r][k].leader
  BY <1>1 DEF Finds
<1>3. /\ req[l].run = r /\ req[l].key = k
      /\ Leads(l) /\ Newest(l, r, k)
  BY <1>2 DEF DedupInv
<1>4. req[l] # None
  BY <1>3 DEF Leads, WasRequested
<1>5. req'[c].run = r
  BY DEF Books
<1>6. NotOvertakenThen(l, c)
  <2>1. SUFFICES ASSUME NEW x \in Calls, req'[x] # None, req'[x].refresh, KinThen(x, c),
                        NEW i \in AskedThen(r, l), NEW j \in AskedThen(r, x), i < j
                 PROVE  FALSE
    BY <1>5 DEF NotOvertakenThen
  <2>2. x # c
    BY <2>1 DEF Finds
  <2>3. req'[x] = req[x]
    BY <2>2 DEF OthersKeep
  <2>4. req[x] # None /\ req[x].refresh /\ req[x].run = r /\ req[x].key = k
    BY <1>1, <1>5, <2>1, <2>3 DEF KinThen
  <2>5. AskedThen(r, l) = AskedAt(r, l) /\ AskedThen(r, x) = AskedAt(r, x)
    BY <1>4, <2>4, SamePosition
  <2>6. i \in Position(r, "tool.requested", l) /\ j \in Position(r, "tool.requested", x)
    BY <2>5, PositionIsAt DEF AskedAt
  <2>7. j <= i
    BY <1>3, <2>4, <2>6 DEF Newest
  <2>8. i \in Nat /\ j \in Nat
    BY <2>5, OldPosition
  <2>. QED
    BY <2>1, <2>7, <2>8
<1>. QED
  BY <1>1, <1>3, <1>4, <1>6

(* Who leads goes on leading, what was published stays.                     *)
LEMMA LeaderStays ==
  ASSUME TypeOK, CallsInv, NEW c \in Calls, NEW r \in Runs, NEW asks \in BOOLEAN,
         NEW done \in BOOLEAN, NEW final \in Final, Books(c, r, asks, done, final),
         OthersKeep(c), Table(c, r, asks), NEW l \in Calls, Leads(l)
  PROVE  /\ LeadsThen(l) /\ req'[l] = req[l] /\ req[l] # None
         /\ Published(l) => PublishedThen(l)
<1>1. req[l] # None /\ Position(req[l].run, "tool.requested", l) # {}
  BY DEF Leads, WasRequested
<1>2. req'[l] = req[l]
  BY <1>1 DEF Books, OthersKeep
<1>3. PICK q \in Runs : q = req[l].run
  BY <1>1, RequestType
<1>4. AskedThen(q, l) # {}
  BY <1>1, <1>3, SamePosition, PositionIsAt DEF AskedAt
<1>5. pc[l] # "new" /\ pc[l] # "leader" /\ settled[l].reused = None
  BY <1>1 DEF CallsInv, FreshCall, Leads
<1>6. CASE l = c
  BY <1>1, <1>2, <1>3, <1>4, <1>5, <1>6 DEF Table, LeadsThen
<1>7. CASE l # c
  <2>1. Moved(l) /\ settled'[l] = settled[l]
    BY <1>7 DEF OthersKeep
  <2>. QED
    BY <1>1, <1>2, <1>3, <1>4, <1>5, <2>1 DEF LeadsThen, Moved, Published, PublishedThen
<1>. QED
  BY <1>6, <1>7

LEMMA TableDedup ==
  ASSUME TypeOK, CallsInv, JournalInv, DedupInv, NEW c \in Calls, NEW r \in Runs,
         NEW asks \in BOOLEAN, NEW done \in BOOLEAN, NEW final \in Final,
         Books(c, r, asks, done, final), OthersKeep(c), Table(c, r, asks)
  PROVE  DedupInv'
<1>1. SUFFICES ASSUME NEW q \in Runs, NEW k \in Keys, dedup'[q][k] # None,
                      NEW l, l = dedup'[q][k].leader
               PROVE  /\ req'[l].run = q /\ req'[l].key = k
                      /\ LeadsThen(l) /\ NewestThen(l, q, k)
                      /\ dedup'[q][k].done => PublishedThen(l)
  BY DedupNext
<1>2. ASSUME dedup[q][k] # None, l = dedup[q][k].leader,
             dedup'[q][k].done => dedup[q][k].done \/ PublishedThen(l)
      PROVE  /\ req'[l].run = q /\ req'[l].key = k
             /\ LeadsThen(l) /\ NewestThen(l, q, k)
             /\ dedup'[q][k].done => PublishedThen(l)
  <2>1. /\ req[l].run = q /\ req[l].key = k
        /\ Leads(l) /\ Newest(l, q, k)
        /\ dedup[q][k].done => Published(l)
    BY <1>2 DEF DedupInv
  <2>2. l \in Calls
    BY <1>2, RunTypes DEF Entry
  <2>3. LeadsThen(l) /\ req'[l] = req[l] /\ req[l] # None /\ (Published(l) => PublishedThen(l))
    BY <2>1, <2>2, LeaderStays
  <2>4. NewestThen(l, q, k)
    <3>1. SUFFICES ASSUME NEW x \in Calls, req'[x] # None, req'[x].refresh, req'[x].run = q,
                          req'[x].key = k, NEW i \in AskedThen(q, l), NEW j \in AskedThen(q, x)
                   PROVE  j <= i
      BY DEF NewestThen
    <3>2. req[x] # None
      <4>1. SUFFICES ASSUME req[x] = None PROVE FALSE
        OBVIOUS
      <4>2. x = c
        BY <3>1, <4>1 DEF OthersKeep
      <4>3. dedup'[q][k] = Inflight(c)
        BY <3>1, <4>1, <4>2 DEF Table, Books
      <4>4. l = c
        BY <1>1, <4>3 DEF Inflight
      <4>. QED
        BY <2>3, <4>1, <4>2, <4>4
    <3>3. req'[x] = req[x]
      BY <3>2 DEF Books, OthersKeep
    <3>4. AskedThen(q, l) = AskedAt(q, l) /\ AskedThen(q, x) = AskedAt(q, x)
      BY <2>2, <2>3, <3>2, SamePosition
    <3>5. i \in Position(q, "tool.requested", l) /\ j \in Position(q, "tool.requested", x)
      BY <3>4, PositionIsAt DEF AskedAt
    <3>. QED
      BY <2>1, <3>1, <3>2, <3>3, <3>5 DEF Newest
  <2>. QED
    BY <1>2, <2>1, <2>3, <2>4
<1>3. CASE dedup'[q][k] = dedup[q][k]
  BY <1>1, <1>2, <1>3
<1>4. CASE Publishes(c, q, k)
  <2>1. dedup[q][k] = Inflight(c) /\ dedup'[q][k] = [leader |-> c, done |-> TRUE]
        /\ PublishedThen(c)
    BY <1>4 DEF Publishes
  <2>2. dedup[q][k] # None /\ dedup[q][k].leader = c
    BY <2>1, EntryType DEF Inflight
  <2>3. l = c
    BY <1>1, <2>1
  <2>. QED
    BY <1>2, <2>1, <2>2, <2>3
<1>5. CASE Registers(c, r, asks, q, k)
  <2>1. /\ asks /\ req[c] = None /\ dedup'[q][k] = Inflight(c) /\ q = r /\ k = req'[c].key
        /\ pc'[c] # "leader" /\ settled'[c].reused = None
    BY <1>5 DEF Registers
  <2>2. l = c /\ ~ dedup'[q][k].done
    BY <1>1, <2>1 DEF Inflight
  <2>3. req'[c] # None /\ req'[c].run = r
    BY DEF Books
  <2>4. AskedThen(r, c) # {}
    <3>1. Grows(c, r, asks, done, final)
      BY DEF Books
    <3>2. Len(journal[r]) + 1 \in Position(r, "tool.requested", c)'
      BY <2>1, <3>1, GrowsAdds
    <3>. QED
      BY <3>2, PositionIsAt DEF AskedThen
  <2>5. NewestThen(c, r, k)
    <3>1. SUFFICES ASSUME NEW x \in Calls, req'[x] # None,
                          NEW i \in AskedThen(r, c), NEW j \in AskedThen(r, x)
                   PROVE  j <= i
      BY DEF NewestThen
    <3>2. i = Len(journal[r]) + 1
      BY <2>1, FreshPosition
    <3>3. Len(journal[r]) \in Nat
      BY RunTypes, LenProperties
    <3>4. CASE req[x] = None
      <4>1. x = c
        BY <3>1, <3>4 DEF OthersKeep
      <4>2. j = Len(journal[r]) + 1
        BY <2>1, <4>1, FreshPosition
      <4>. QED
        BY <3>2, <3>3, <4>2
    <3>5. CASE req[x] # None
      <4>1. j \in AskedAt(r, x)
        BY <3>5, SamePosition
      <4>2. j \in Nat /\ j <= Len(journal[r])
        BY <4>1, OldPosition
      <4>. QED
        BY <3>2, <3>3, <4>2
    <3>. QED
      BY <3>4, <3>5
  <2>. QED
    BY <2>1, <2>2, <2>3, <2>4, <2>5 DEF LeadsThen
<1>6. dedup'[q][k] = dedup[q][k] \/ Registers(c, r, asks, q, k) \/ Publishes(c, q, k)
  BY <1>1 DEF Table
<1>. QED
  BY <1>3, <1>4, <1>5, <1>6

LEMMA TableFollow ==
  ASSUME TypeOK, CallsInv, JournalInv, DedupInv, FollowInv, NEW c \in Calls, NEW r \in Runs,
         NEW asks \in BOOLEAN, NEW done \in BOOLEAN, NEW final \in Final,
         Books(c, r, asks, done, final), OthersKeep(c), Table(c, r, asks), req'[c].key \in Keys
  PROVE  FollowInv'
<1>1. SUFFICES ASSUME NEW d \in Calls, pc'[d] = "leader", NEW l, l = req'[d].leader
               PROVE  l \in Calls /\ KinThen(l, d) /\ LeadsThen(l) /\ NotOvertakenThen(l, d)
  BY FollowNext
<1>2. CASE pc[d] = "leader"
  <2>1. req[d] # None
    BY <1>2 DEF CallsInv, FreshCall
  <2>2. req'[d] = req[d]
    BY <2>1 DEF Books, OthersKeep
  <2>3. l \in Calls /\ Kin(l, d) /\ Leads(l) /\ NotOvertaken(l, d)
    BY <1>1, <1>2, <2>2 DEF FollowInv
  <2>4. LeadsThen(l) /\ req'[l] = req[l] /\ req[l] # None
    BY <2>3, LeaderStays
  <2>5. NotOvertakenThen(l, d)
    BY <2>1, <2>3, OrderKept
  <2>. QED
    BY <2>2, <2>3, <2>4, <2>5 DEF Kin, KinThen
<1>3. CASE pc[d] # "leader"
  <2>1. d = c
    BY <1>1, <1>3 DEF OthersKeep, Moved
  <2>2. Finds(c, r, asks, l)
    BY <1>1, <1>3, <2>1 DEF Table
  <2>3. l \in Calls
    BY <2>2, RunTypes DEF Finds, Entry
  <2>4. /\ NotOvertakenThen(l, c) /\ Leads(l)
        /\ req[l] # None /\ req[l].run = r /\ req[l].key = req'[c].key
    BY <2>2, <2>3, OrderFound
  <2>5. LeadsThen(l) /\ req'[l] = req[l]
    BY <2>3, <2>4, LeaderStays
  <2>6. req'[c].run = r
    BY DEF Books
  <2>. QED
    BY <2>1, <2>3, <2>4, <2>5, <2>6 DEF KinThen
<1>. QED
  BY <1>2, <1>3

LEMMA TableReuse ==
  ASSUME TypeOK, CallsInv, JournalInv, DedupInv, FollowInv, ReuseInv,
         NEW c \in Calls, NEW r \in Runs,
         NEW asks \in BOOLEAN, NEW done \in BOOLEAN, NEW final \in Final,
         Books(c, r, asks, done, final), OthersKeep(c), Table(c, r, asks), req'[c].key \in Keys
  PROVE  ReuseInv'
<1>1. SUFFICES ASSUME NEW d \in Calls, row'[d].reused # None, NEW l, l = row'[d].reused
               PROVE  KinThen(l, d) /\ LeadsThen(l) /\ PublishedThen(l) /\ NotOvertakenThen(l, d)
  BY ReuseNext
<1>2. ASSUME req[d] # None, l \in Calls, Kin(l, d), Leads(l), Published(l), NotOvertaken(l, d)
      PROVE  KinThen(l, d) /\ LeadsThen(l) /\ PublishedThen(l) /\ NotOvertakenThen(l, d)
  <2>1. req'[d] = req[d]
    BY <1>2 DEF Books, OthersKeep
  <2>2. LeadsThen(l) /\ req'[l] = req[l] /\ req[l] # None /\ PublishedThen(l)
    BY <1>2, LeaderStays
  <2>3. NotOvertakenThen(l, d)
    BY <1>2, OrderKept
  <2>. QED
    BY <1>2, <2>1, <2>2, <2>3 DEF Kin, KinThen
<1>3. CASE row'[d].reused = row[d].reused
  <2>1. l = row[d].reused /\ l # None
    BY <1>1, <1>3
  <2>2. Kin(l, d) /\ Leads(l) /\ Published(l) /\ NotOvertaken(l, d)
    BY <2>1 DEF ReuseInv
  <2>3. req[d] # None
    BY <2>1, FixedOutcomes DEF CallsInv, FreshCall
  <2>4. l \in Calls
    BY <2>1, CallTypes DEF Final
  <2>. QED
    BY <1>2, <2>2, <2>3, <2>4
<1>4. CASE row'[d].reused # row[d].reused
  <2>1. d = c
    BY <1>4 DEF OthersKeep
  <2>2. CASE Finds(c, r, asks, l) /\ dedup[r][req'[c].key].done
    <3>1. l \in Calls
      BY <2>2, RunTypes DEF Finds, Entry
    <3>2. /\ NotOvertakenThen(l, c) /\ Leads(l)
          /\ req[l] # None /\ req[l].run = r /\ req[l].key = req'[c].key
      BY <2>2, <3>1, OrderFound
    <3>3. Published(l)
      BY <2>2 DEF Finds, DedupInv
    <3>4. LeadsThen(l) /\ req'[l] = req[l] /\ PublishedThen(l)
      BY <3>1, <3>2, <3>3, LeaderStays
    <3>5. req'[c].run = r
      BY DEF Books
    <3>. QED
      BY <2>1, <3>1, <3>2, <3>4, <3>5 DEF KinThen
  <2>3. CASE pc[c] = "leader" /\ l = req[c].leader /\ Published(req[c].leader)
    <3>1. l \in Calls /\ Kin(l, c) /\ Leads(l) /\ NotOvertaken(l, c)
      BY <2>3 DEF FollowInv
    <3>2. req[c] # None
      BY <2>3 DEF CallsInv, FreshCall
    <3>. QED
      BY <1>2, <2>1, <2>3, <3>1, <3>2
  <2>. QED
    BY <1>1, <1>4, <2>1, <2>2, <2>3 DEF Table
<1>. QED
  BY <1>3, <1>4

-----------------------------------------------------------------------------
(* The output budget.                                                       *)

Spends(c, r) ==
  \/ /\ \A q \in Runs : spent'[q] = spent[q]
     /\ row'[c].disposition = "accepted" => row[c].disposition = "accepted"
  \/ /\ \A q \in Runs \ {r} : spent'[q] = spent[q]
     /\ spent'[r] = spent[r] + 1

LEMMA AcceptedDef ==
  ASSUME NEW r, NEW d
  PROVE  /\ d \in AcceptedOf(r) <=>
              d \in Calls /\ req[d] # None /\ req[d].run = r /\ row[d].disposition = "accepted"
         /\ d \in AcceptedOf(r)' <=>
              d \in Calls /\ req'[d] # None /\ req'[d].run = r /\ row'[d].disposition = "accepted"
  BY Zenon DEF AcceptedOf

LEMMA SpendsWithin ==
  ASSUME TypeOK, CallsInv, BudgetInv, NEW c \in Calls, NEW r \in Runs, OthersKeep(c),
         req'[c] # None, req'[c].run = r, req[c] # None => req'[c] = req[c], Spends(c, r)
  PROVE  BudgetInv'
<1>1. SUFFICES ASSUME NEW q \in Runs
               PROVE  IsFiniteSet(AcceptedOf(q)') /\ Cardinality(AcceptedOf(q)') <= spent'[q]
  BY Zenon DEF BudgetInv
<1>2. PICK S : S = AcceptedOf(q)
  OBVIOUS
<1>3. PICK T : T = AcceptedOf(q)'
  OBVIOUS
<1>4. PICK n \in Nat : n = spent[q]
  BY RunTypes, BrokerAssumption
<1>5. IsFiniteSet(S) /\ Cardinality(S) \in Nat /\ Cardinality(S) <= n
  BY <1>2, <1>4, FS_CardinalityType DEF BudgetInv
<1>6. ASSUME NEW d \in T, d # c
      PROVE  d \in S
  <2>1. d \in Calls /\ req'[d] # None /\ req'[d].run = q /\ row'[d].disposition = "accepted"
    BY <1>3, AcceptedDef
  <2>2. req'[d] = req[d] /\ row'[d] = row[d]
    BY <1>6, <2>1 DEF OthersKeep
  <2>. QED
    BY <1>2, <2>1, <2>2, AcceptedDef
<1>7. c \in T => q = r /\ row'[c].disposition = "accepted"
  BY <1>3, AcceptedDef
<1>8. (c \in T /\ row[c].disposition = "accepted") => c \in S
  <2>1. row[c].disposition = "accepted" => req[c] # None
    BY FixedOutcomes DEF CallsInv, FreshCall
  <2>. QED
    BY <1>2, <1>7, <2>1, AcceptedDef
<1>9. CASE T \subseteq S /\ spent'[q] >= n /\ spent'[q] \in Nat
  <2>1. IsFiniteSet(T) /\ Cardinality(T) \in Nat /\ Cardinality(T) <= Cardinality(S)
    BY <1>5, <1>9, CardSub
  <2>. QED
    BY <1>3, <1>5, <1>9, <2>1
<1>10. CASE T \subseteq S \union {c} /\ spent'[q] = n + 1
  <2>1. IsFiniteSet(T) /\ Cardinality(T) \in Nat /\ Cardinality(T) <= Cardinality(S) + 1
    BY <1>5, <1>10, CardAdd
  <2>. QED
    BY <1>3, <1>5, <1>10, <2>1
<1>11. T \subseteq S \union {c}
  BY <1>6
<1>12. q # r => T \subseteq S
  BY <1>6, <1>7
<1>. QED
  BY <1>4, <1>6, <1>7, <1>8, <1>9, <1>10, <1>11, <1>12 DEF Spends

-----------------------------------------------------------------------------
(* From the effect of a step to the invariant.                              *)

LEMMA OthersCalls ==
  ASSUME TypeOK, CallsInv, NEW c \in Calls, OthersKeep(c), FreshCall(c)', CallInv(c)'
  PROVE  CallsInv'
<1>1. SUFFICES ASSUME NEW d \in Calls, d # c PROVE FreshCall(d)' /\ CallInv(d)'
  BY DEF CallsInv
<1>2. /\ Moved(d)
      /\ req'[d] = req[d] /\ life'[d] = life[d] /\ row'[d] = row[d]
      /\ settled'[d] = settled[d] /\ work'[d] = work[d] /\ signal'[d] = signal[d]
      /\ d \in detached' <=> d \in detached
  BY Zenon, <1>1 DEF OthersKeep
<1>3. FreshCall(d) /\ CallInv(d)
  BY DEF CallsInv
<1>4. FreshCall(d)'
  BY <1>2, <1>3 DEF FreshCall, Moved, Blank, Outcome
<1>5. Said(settled[d], row[d])' <=> Said(settled[d], row[d])
  BY <1>2 DEF Said
<1>6. CallInv(d)'
  BY <1>2, <1>3, <1>5 DEF CallInv, Moved, Over, Success, Outcome
<1>. QED
  BY <1>4, <1>6

(* A step of c that keeps the books keeps the invariant.                    *)
LEMMA StepKeeps ==
  ASSUME BrokerInv, TypeOK', NEW c \in Calls, OthersKeep(c), FreshCall(c)', CallInv(c)',
         NEW r \in Runs, NEW asks \in BOOLEAN, NEW done \in BOOLEAN, NEW final \in Final,
         Books(c, r, asks, done, final), Table(c, r, asks), Spends(c, r),
         QueueInv', HoldInv'
  PROVE  BrokerInv'
<1>1. /\ TypeOK /\ CallsInv /\ TracedInv /\ JournalInv /\ DedupInv /\ FollowInv /\ ReuseInv
      /\ BudgetInv
  BY DEF BrokerInv
<1>2. CallsInv'
  BY <1>1, OthersCalls
<1>3. TracedInv' /\ JournalInv'
  BY <1>1, BooksTraced, BooksJournal
<1>4. /\ req'[c] # None /\ req'[c].run = r
      /\ req[c] # None => req'[c] = req[c]
  BY DEF Books
<1>5. req'[c].key \in Keys
  <2>1. req' \in [Calls -> Request \union {None}]
    BY Zenon DEF TypeOK
  <2>. QED
    BY <1>4, <2>1 DEF Request
<1>6. DedupInv' /\ FollowInv' /\ ReuseInv'
  BY <1>1, <1>5, TableDedup, TableFollow, TableReuse
<1>7. BudgetInv'
  BY <1>1, <1>4, SpendsWithin
<1>. QED
  BY <1>2, <1>3, <1>6, <1>7 DEF BrokerInv

(* A step that writes neither the journal nor the table.                    *)
Quiet(c) ==
  /\ life'[c] = "finished" <=> life[c] = "finished"
  /\ life[c] = "finished" => settled'[c] = settled[c]
  /\ UnderWay(c)' => UnderWay(c)
  /\ pc'[c] = "leader" => pc[c] = "leader"
  /\ row'[c].reused = row[c].reused
  /\ row'[c].disposition = "accepted" => row[c].disposition = "accepted"
  /\ (pc[c] # "leader" /\ settled[c].reused = None) => settled'[c].reused = None
  /\ Published(c) => PublishedThen(c)

LEMMA QuietStep ==
  ASSUME BrokerInv, TypeOK', NEW c \in Calls, req[c] # None, OthersKeep(c), Quiet(c),
         FreshCall(c)', CallInv(c)', QueueInv', HoldInv',
         running' = running, req' = req, dedup' = dedup, spent' = spent, journal' = journal
  PROVE  BrokerInv'
<1>1. PICK r \in Runs : r = req[c].run
  BY RequestType DEF BrokerInv
<1>2. Grows(c, r, FALSE, FALSE, Blank)
  BY DEF Grows, Log
<1>3. Books(c, r, FALSE, FALSE, Blank)
  BY <1>1, <1>2 DEF Books, Quiet
<1>4. Table(c, r, FALSE)
  BY DEF Table, Quiet
<1>5. Spends(c, r)
  BY DEF Spends, Quiet
<1>. QED
  BY <1>3, <1>4, <1>5, StepKeeps, FixedOutcomes

(* A step of c that commits its end, the table apart.                       *)
Commits(c, r, asks, final) ==
  /\ CommitFinished(c, r, final, Log(c, r, asks))
  /\ running' = running /\ slot' = slot
  /\ signal' = signal /\ work' = work /\ detached' = detached
  /\ used' \in [Runs -> 0 .. MaxRequests]
  /\ spent' \in [Runs -> 0 .. MaxOutput]
  /\ dedup' \in [Runs -> [Keys -> Entry \union {None}]]
  /\ req' \in [Calls -> Request \union {None}]
  /\ req'[c] # None /\ req'[c].run = r
  /\ req[c] # None => req'[c] = req[c]
  /\ \A d \in Calls \ {c} : req'[d] = req[d]
  /\ pc[c] = "new" \/ (~ asks /\ pc[c] \in {"landing", "leader"})
  /\ final.reused # None => asks \/ pc[c] = "leader"

LEMMA CommitKeeps ==
  ASSUME BrokerInv, NEW c \in Calls, NEW r \in Runs, NEW asks \in BOOLEAN, NEW final \in Final,
         Commits(c, r, asks, final)
  PROVE  /\ TypeOK' /\ OthersKeep(c) /\ QueueInv' /\ HoldInv'
         /\ FreshCall(c)' /\ CallInv(c)'
         /\ \E done \in BOOLEAN : Books(c, r, asks, done, final)
         /\ \/ /\ pc'[c] = "returned" /\ row'[c] = final /\ settled'[c] = final
            \/ /\ pc'[c] = "threw" /\ row'[c] = row[c] /\ settled'[c] = settled[c]
<1>1. TypeOK /\ CallsInv /\ QueueInv /\ HoldInv
  BY DEF BrokerInv
<1>2. PICK log \in Seq(Event) : log = Log(c, r, asks)
  BY <1>1, LogEffect
<1>3. CommitFinished(c, r, final, log)
  BY <1>2 DEF Commits
<1>4. /\ life' \in [Calls -> {"none", "requested", "running", "finished"}]
      /\ row' \in [Calls -> Final]
      /\ settled' \in [Calls -> Final]
      /\ pc' \in [Calls -> {"new", "landing"} \union Waits \union Over]
      /\ journal' \in [Runs -> Seq(Event)]
      /\ faults' \in 0 .. MaxFaults
  BY <1>1, <1>3, CommitEffect
<1>5. /\ \A q \in Runs \ {r} : journal'[q] = journal[q]
      /\ \A d \in Calls \ {c} : /\ life'[d] = life[d] /\ row'[d] = row[d]
                                /\ settled'[d] = settled[d] /\ pc'[d] = pc[d]
      /\ Ends(c, r, final, log) \/ Fails(c, r, log)
  BY <1>1, <1>3, CommitEffect
<1>6. /\ running' = running /\ slot' = slot
      /\ signal' = signal /\ work' = work /\ detached' = detached
      /\ used' \in [Runs -> 0 .. MaxRequests]
      /\ spent' \in [Runs -> 0 .. MaxOutput]
      /\ dedup' \in [Runs -> [Keys -> Entry \union {None}]]
      /\ req' \in [Calls -> Request \union {None}]
      /\ req'[c] # None /\ req'[c].run = r
      /\ req[c] # None => req'[c] = req[c]
      /\ \A d \in Calls \ {c} : req'[d] = req[d]
      /\ pc[c] = "new" \/ (~ asks /\ pc[c] \in {"landing", "leader"})
      /\ final.reused # None => asks \/ pc[c] = "leader"
  BY Zenon DEF Commits
<1>7. TypeOK'
  BY Zenon, <1>1, <1>4, <1>6, CallTypes, RunTypes DEF TypeOK
<1>8. OthersKeep(c)
  BY <1>5, <1>6 DEF OthersKeep, Moved
<1>9. FreshCall(c) /\ CallInv(c)
  BY <1>1 DEF CallsInv
<1>10. pc'[c] \in Over
  BY <1>5 DEF Ends, Fails, Over
<1>11. FreshCall(c)'
  BY <1>6, <1>10 DEF FreshCall, Over
<1>12. ASSUME Ends(c, r, final, log)
       PROVE  /\ CallInv(c)'
              /\ \E done \in BOOLEAN : Books(c, r, asks, done, final)
              /\ \/ /\ pc'[c] = "returned" /\ row'[c] = final /\ settled'[c] = final
                 \/ /\ pc'[c] = "threw" /\ row'[c] = row[c] /\ settled'[c] = settled[c]
  <2>1. /\ life'[c] = "finished" /\ row'[c] = final /\ settled'[c] = final /\ pc'[c] = "returned"
        /\ journal'[r] = (IF r \in running THEN Append(log, Completed(c, final)) ELSE log)
    BY <1>12 DEF Ends
  <2>2. CallInv(c)'
    BY <1>6, <1>9, <2>1 DEF CallInv, Said, Over
  <2>0. PICK told \in BOOLEAN : told <=> r \in running
    <3>1. CASE r \in running
      BY <3>1
    <3>2. CASE r \notin running
      BY <3>2
    <3>. QED
      BY <3>1, <3>2
  <2>3. Grows(c, r, asks, told, final)
    BY <1>2, <1>5, <2>0, <2>1 DEF Grows
  <2>4. Books(c, r, asks, told, final)
    <3>1. UnderWay(c)' => asks \/ UnderWay(c)
      BY <1>6, <1>9, <2>1 DEF UnderWay, FreshCall, Asked, Waits
    <3>2. life[c] # "finished" /\ pc[c] # "returned"
      BY <1>6, <1>9 DEF CallInv
    <3>. QED
      BY <1>6, <2>0, <2>1, <2>3, <3>1, <3>2 DEF Books
  <2>. QED
    BY <2>1, <2>2, <2>4
<1>13. ASSUME Fails(c, r, log)
       PROVE  /\ CallInv(c)'
              /\ \E done \in BOOLEAN : Books(c, r, asks, done, final)
              /\ \/ /\ pc'[c] = "returned" /\ row'[c] = final /\ settled'[c] = final
                 \/ /\ pc'[c] = "threw" /\ row'[c] = row[c] /\ settled'[c] = settled[c]
  <2>1. /\ r \in running
        /\ life'[c] = (IF life[c] = "none" THEN "requested" ELSE life[c])
        /\ row'[c] = row[c] /\ settled'[c] = settled[c] /\ pc'[c] = "threw"
        /\ journal'[r] = log
    BY <1>13 DEF Fails
  <2>2. life[c] # "finished" /\ pc[c] # "returned" /\ life'[c] # "finished"
    BY <1>6, <1>9, <2>1 DEF CallInv
  <2>3. CallInv(c)'
    BY <1>6, <1>9, <2>1, <2>2 DEF CallInv, Over
  <2>4. Grows(c, r, asks, FALSE, final)
    BY <1>2, <1>5, <2>1 DEF Grows
  <2>5. Books(c, r, asks, FALSE, final)
    <3>1. UnderWay(c)' => asks \/ UnderWay(c)
      BY <1>6, <1>9, <2>1 DEF UnderWay, FreshCall, Asked, Waits
    <3>. QED
      BY <1>6, <2>1, <2>2, <2>4, <3>1 DEF Books
  <2>. QED
    BY <2>1, <2>3, <2>5
<1>14. NotQueued(c)
  BY <1>1, <1>6, OutOfQueue
<1>15. QueueInv'
  BY <1>1, <1>5, <1>6, <1>8, <1>14, QueueKept
<1>16. HoldInv'
  <2>1. ASSUME NEW s \in Slots, NEW d \in Holders(s)'
        PROVE  d \in Holders(s)
    <3>1. CASE d # c
      BY <1>5, <1>8, <2>1, <3>1, HoldsOn, HoldersDef
    <3>2. CASE d = c
      <4>1. c \in detached /\ req'[c] # None /\ s \in {req'[c].run, "process"}
        BY <1>6, <1>10, <2>1, <3>2, HoldersDef DEF Over
      <4>2. req[c] # None
        BY <1>9, <4>1 DEF CallInv, FreshCall, Over
      <4>3. req'[c] = req[c]
        BY <1>6, <4>2
      <4>. QED
        BY <3>2, <4>1, <4>2, <4>3, HoldersDef
    <3>. QED
      BY <3>1, <3>2
  <2>. QED
    BY <1>1, <1>6, <2>1, HoldKept
<1>. QED
  BY <1>5, <1>7, <1>8, <1>11, <1>12, <1>13, <1>15, <1>16

-----------------------------------------------------------------------------
(* The actions of invokeInternal up to its first await.                     *)

LEMMA ArrivesEffect ==
  ASSUME BrokerInv, NEW c \in Calls, NEW r \in Runs, NEW k \in Keys, NEW b \in BOOLEAN,
         NEW l \in Calls \union {None}, Arrives(c, r, k, b, l)
  PROVE  /\ pc[c] = "new" /\ req[c] = None
         /\ req' \in [Calls -> Request \union {None}]
         /\ req'[c] # None /\ req'[c].run = r /\ req'[c].key = k
         /\ req'[c].refresh = b /\ req'[c].leader = l
         /\ \A d \in Calls \ {c} : req'[d] = req[d]
         /\ life[c] = "none" /\ work[c] = "none" /\ row[c] = Blank /\ settled[c] = Blank
         /\ signal[c] = "none" /\ c \notin detached
<1>1. FreshCall(c) /\ CallInv(c) /\ TypeOK
  BY DEF BrokerInv, CallsInv
<1>2. pc[c] = "new"
  BY DEF Arrives
<1>3. /\ req[c] = None
      /\ life[c] = "none" /\ work[c] = "none" /\ row[c] = Blank /\ settled[c] = Blank
      /\ signal[c] = "none" /\ c \notin detached
  BY <1>1, <1>2 DEF FreshCall, CallInv, Over
<1>4. PICK q : q = [run |-> r, key |-> k, refresh |-> b, leader |-> l]
  OBVIOUS
<1>5. q \in Request /\ q # None /\ q.run = r /\ q.key = k /\ q.refresh = b /\ q.leader = l
  BY <1>4, ArrivalType
<1>6. req' = [req EXCEPT ![c] = q]
  BY <1>4 DEF Arrives
<1>7. req \in [Calls -> Request \union {None}]
  BY <1>1, CallTypes
<1>. QED
  BY <1>2, <1>3, <1>5, <1>6, <1>7

LEMMA ReserveEffect ==
  ASSUME TypeOK, NEW r \in Runs, ReserveBudget(r)
  PROVE  used' \in [Runs -> 0 .. MaxRequests]
  BY RunTypes, BrokerAssumption DEF ReserveBudget

(* reserveCumulative.                                                       *)
LEMMA SpendEffect ==
  ASSUME TypeOK, NEW r \in Runs, spent[r] < MaxOutput, spent' = [spent EXCEPT ![r] = @ + 1]
  PROVE  /\ spent' \in [Runs -> 0 .. MaxOutput]
         /\ \A q \in Runs \ {r} : spent'[q] = spent[q]
         /\ spent'[r] = spent[r] + 1
  BY RunTypes, BrokerAssumption

(* A call that ends where it arrived.                                       *)
LEMMA ArrivalEnds ==
  ASSUME BrokerInv, NEW c \in Calls, NEW r \in Runs, NEW k \in Keys, NEW asks \in BOOLEAN,
         NEW final \in Final, Arrives(c, r, k, FALSE, None),
         CommitFinished(c, r, final, Log(c, r, asks)),
         used' \in [Runs -> 0 .. MaxRequests],
         running' = running, dedup' = dedup, slot' = slot,
         signal' = signal, work' = work, detached' = detached,
         \/ spent' = spent /\ final.disposition # "accepted" /\ final.reused = None
         \/ /\ asks /\ dedup[r][k] # None /\ dedup[r][k].done
            /\ final.reused = dedup[r][k].leader
            /\ spent[r] < MaxOutput /\ spent' = [spent EXCEPT ![r] = @ + 1]
  PROVE  BrokerInv'
<1>1. TypeOK
  BY DEF BrokerInv
<1>2. /\ pc[c] = "new" /\ req[c] = None
      /\ req' \in [Calls -> Request \union {None}]
      /\ req'[c] # None /\ req'[c].run = r /\ req'[c].key = k /\ ~ req'[c].refresh
      /\ \A d \in Calls \ {c} : req'[d] = req[d]
      /\ row[c] = Blank /\ settled[c] = Blank
  BY ArrivesEffect
<1>3. /\ spent' \in [Runs -> 0 .. MaxOutput]
      /\ \/ spent' = spent /\ final.disposition # "accepted" /\ final.reused = None
         \/ /\ \A q \in Runs \ {r} : spent'[q] = spent[q]
            /\ spent'[r] = spent[r] + 1
  BY <1>1, SpendEffect, RunTypes
<1>4. final.reused # None => asks
  OBVIOUS
<1>5. Commits(c, r, asks, final)
  BY <1>1, <1>2, <1>3, <1>4, RunTypes DEF Commits
<1>6. /\ TypeOK' /\ OthersKeep(c) /\ QueueInv' /\ HoldInv'
      /\ FreshCall(c)' /\ CallInv(c)'
      /\ \E done \in BOOLEAN : Books(c, r, asks, done, final)
      /\ \/ /\ pc'[c] = "returned" /\ row'[c] = final /\ settled'[c] = final
         \/ /\ pc'[c] = "threw" /\ row'[c] = row[c] /\ settled'[c] = settled[c]
  BY <1>5, CommitKeeps
<1>7. Spends(c, r)
  BY <1>2, <1>3, <1>6, FixedOutcomes DEF Spends
<1>8. row'[c].reused # None =>
        Finds(c, r, asks, row'[c].reused) /\ dedup[r][req'[c].key].done
  BY <1>2, <1>6, FixedOutcomes DEF Finds
<1>9. Table(c, r, asks)
  BY <1>2, <1>6, <1>8 DEF Table, Published
<1>. QED
  BY <1>6, <1>7, <1>9, StepKeeps

LEMMA OverBudgetKeeps ==
  ASSUME BrokerInv, NEW c \in Calls, NEW r \in Runs, NEW k \in Keys, InvokeOverBudget(c, r, k)
  PROVE  BrokerInv'
<1>1. PICK final \in Final : final = Outcome("failed", None, "none") /\ final.disposition = "none"
                               /\ final.reused = None
  BY OutcomeType
<1>2. CommitFinished(c, r, final, Log(c, r, FALSE))
  BY <1>1 DEF InvokeOverBudget, Log
<1>3. used' \in [Runs -> 0 .. MaxRequests]
  BY RunTypes DEF InvokeOverBudget, BrokerInv
<1>. QED
  BY <1>1, <1>2, <1>3, ArrivalEnds DEF InvokeOverBudget, callVars

LEMMA NotRunningKeeps ==
  ASSUME BrokerInv, NEW c \in Calls, NEW r \in Runs, NEW k \in Keys, InvokeNotRunning(c, r, k)
  PROVE  BrokerInv'
<1>1. PICK final \in Final : final = Outcome("cancelled", None, "none")
                               /\ final.disposition = "none" /\ final.reused = None
  BY OutcomeType
<1>2. CommitFinished(c, r, final, Log(c, r, FALSE))
  BY <1>1 DEF InvokeNotRunning, Log
<1>3. used' \in [Runs -> 0 .. MaxRequests]
  BY ReserveEffect DEF InvokeNotRunning, BrokerInv
<1>. QED
  BY <1>1, <1>2, <1>3, ArrivalEnds DEF InvokeNotRunning, callVars

LEMMA RefusedKeeps ==
  ASSUME BrokerInv, NEW c \in Calls, NEW r \in Runs, NEW k \in Keys, InvokeRefused(c, r, k)
  PROVE  BrokerInv'
<1>1. PICK final \in Final : final = Outcome("denied", None, "none")
                               /\ final.disposition = "none" /\ final.reused = None
  BY OutcomeType
<1>2. CommitFinished(c, r, final, Log(c, r, TRUE))
  BY <1>1 DEF InvokeRefused, Log
<1>3. used' \in [Runs -> 0 .. MaxRequests]
  BY ReserveEffect DEF InvokeRefused, BrokerInv
<1>. QED
  BY <1>1, <1>2, <1>3, ArrivalEnds DEF InvokeRefused, callVars

LEMMA ReusesKeeps ==
  ASSUME BrokerInv, NEW c \in Calls, NEW r \in Runs, NEW k \in Keys, InvokeReuses(c, r, k)
  PROVE  BrokerInv'
<1>1. /\ dedup[r][k] # None /\ dedup[r][k].done
      /\ Arrives(c, r, k, FALSE, None)
      /\ DeliverReuse(c, r, dedup[r][k].leader, Log(c, r, TRUE))
      /\ running' = running /\ dedup' = dedup /\ slot' = slot
      /\ signal' = signal /\ work' = work /\ detached' = detached
  BY DEF InvokeReuses, callVars, Log
<1>2. used' \in [Runs -> 0 .. MaxRequests]
  BY ReserveEffect DEF InvokeReuses, BrokerInv
<1>3. PICK l \in Calls : l = dedup[r][k].leader
  BY <1>1, RunTypes DEF BrokerInv, Entry
<1>4. CASE /\ spent[r] < MaxOutput
           /\ spent' = [spent EXCEPT ![r] = @ + 1]
           /\ CommitFinished(c, r, Reuse(l), Log(c, r, TRUE))
  <2>1. PICK final \in Final : final = Reuse(l) /\ final.reused = l
    BY FixedOutcomes
  <2>. QED
    BY <1>1, <1>2, <1>3, <1>4, <2>1, ArrivalEnds
<1>5. ASSUME NEW d \in {"none", "discarded"},
             CommitFinished(c, r, Outcome("failed", "succeeded", d), Log(c, r, TRUE)),
             spent' = spent
      PROVE  BrokerInv'
  <2>1. PICK final \in Final : final = Outcome("failed", "succeeded", d)
                                 /\ final.disposition = d /\ final.reused = None
    BY OutcomeType
  <2>. QED
    BY <1>1, <1>2, <1>5, <2>1, ArrivalEnds
<1>. QED
  BY <1>1, <1>3, <1>4, <1>5 DEF DeliverReuse

(* A step of c that takes no slot and gives none back.                      *)
LEMMA SameSlots ==
  ASSUME TypeOK, QueueInv, HoldInv, NEW c \in Calls, NotQueued(c), OthersKeep(c),
         slot' = slot, \A d \in Calls \ {c} : pc'[d] = pc[d],
         \A s \in Slots : c \in Holders(s)' => c \in Holders(s)
  PROVE  QueueInv' /\ HoldInv'
<1>1. QueueInv'
  BY QueueKept
<1>2. ASSUME NEW s \in Slots, NEW d \in Holders(s)'
      PROVE  d \in Holders(s)
  <2>1. CASE d = c
    BY <1>2, <2>1
  <2>2. CASE d # c
    BY <1>2, <2>2, HoldsOn, HoldersDef
  <2>. QED
    BY <2>1, <2>2
<1>3. HoldInv'
  BY <1>2, HoldKept
<1>. QED
  BY <1>1, <1>3

LEMMA UnrecordedKeeps ==
  ASSUME BrokerInv, NEW c \in Calls, NEW r \in Runs, NEW k \in Keys, InvokeUnrecorded(c, r, k)
  PROVE  BrokerInv'
<1>1. TypeOK /\ QueueInv /\ HoldInv /\ CallInv(c)
  BY DEF BrokerInv, CallsInv
<1>2. /\ Arrives(c, r, k, FALSE, None) /\ Throws(c)
      /\ running' = running /\ dedup' = dedup /\ spent' = spent /\ slot' = slot
      /\ journal' = journal /\ signal' = signal /\ work' = work /\ detached' = detached
  BY DEF InvokeUnrecorded, callVars
<1>3. /\ pc[c] = "new" /\ req[c] = None
      /\ req' \in [Calls -> Request \union {None}]
      /\ req'[c] # None /\ req'[c].run = r /\ ~ req'[c].refresh
      /\ \A d \in Calls \ {c} : req'[d] = req[d]
      /\ life[c] = "none" /\ work[c] = "none" /\ row[c] = Blank /\ settled[c] = Blank
      /\ signal[c] = "none" /\ c \notin detached
  BY <1>2, ArrivesEffect
<1>4. /\ life' \in [Calls -> {"none", "requested", "running", "finished"}]
      /\ pc' \in [Calls -> {"new", "landing"} \union Waits \union Over]
      /\ faults' \in 0 .. MaxFaults
      /\ row' = row /\ settled' = settled
      /\ life'[c] = (IF life[c] = "none" THEN "requested" ELSE life[c])
      /\ pc'[c] = "threw"
      /\ \A d \in Calls \ {c} : life'[d] = life[d] /\ pc'[d] = pc[d]
  BY <1>1, <1>2, ThrowsEffect
<1>5. used' \in [Runs -> 0 .. MaxRequests]
  BY <1>1, ReserveEffect DEF InvokeUnrecorded
<1>6. TypeOK'
  BY Zenon, <1>1, <1>2, <1>3, <1>4, <1>5, CallTypes, RunTypes DEF TypeOK
<1>7. OthersKeep(c)
  BY <1>2, <1>3, <1>4 DEF OthersKeep, Moved
<1>8. FreshCall(c)'
  BY <1>3, <1>4 DEF FreshCall
<1>9. CallInv(c)'
  BY <1>2, <1>3, <1>4, FixedOutcomes DEF CallInv
<1>10. NotQueued(c)
  BY <1>1, <1>3, OutOfQueue
<1>11. \A s \in Slots : c \notin Holders(s)'
  BY <1>2, <1>3, <1>4, HoldersDef
<1>12. QueueInv' /\ HoldInv'
  BY <1>1, <1>2, <1>4, <1>7, <1>10, <1>11, SameSlots
<1>13. Books(c, r, FALSE, FALSE, Blank)
  BY <1>2, <1>3, <1>4, FixedOutcomes DEF Books, Grows, Log, UnderWay, Asked, Waits
<1>14. Table(c, r, FALSE)
  BY <1>2, <1>3, <1>4, FixedOutcomes DEF Table, Published
<1>15. Spends(c, r)
  BY <1>2, <1>4 DEF Spends
<1>. QED
  BY <1>6, <1>7, <1>8, <1>9, <1>12, <1>13, <1>14, <1>15, StepKeeps, FixedOutcomes

(* A call whose requested event is written goes on under way.               *)
LEMMA AskEffect ==
  ASSUME BrokerInv, NEW c \in Calls, NEW r \in Runs,
         pc[c] = "new", req'[c] # None, req'[c].run = r,
         life' = [life EXCEPT ![c] = "requested"],
         journal' = [journal EXCEPT ![r] = Append(@, Requested(c))],
         running' = running, row' = row, settled' = settled, work' = work, detached' = detached,
         pc' \in [Calls -> {"new", "landing"} \union Waits \union Over], pc'[c] \in Waits,
         pc'[c] \notin {"handler", "normalizer"}
  PROVE  /\ life' \in [Calls -> {"none", "requested", "running", "finished"}]
         /\ journal' \in [Runs -> Seq(Event)]
         /\ \A d \in Calls \ {c} : life'[d] = life[d]
         /\ FreshCall(c)' /\ CallInv(c)'
         /\ Books(c, r, TRUE, FALSE, Blank)
<1>1. TypeOK /\ FreshCall(c) /\ CallInv(c)
  BY DEF BrokerInv, CallsInv
<1>2. /\ req[c] = None /\ life[c] = "none" /\ work[c] = "none" /\ row[c] = Blank
      /\ settled[c] = Blank /\ c \notin detached
  BY <1>1 DEF FreshCall, CallInv, Over
<1>3. /\ life \in [Calls -> {"none", "requested", "running", "finished"}]
      /\ journal \in [Runs -> Seq(Event)]
  BY <1>1, CallTypes, RunTypes
<1>4. PICK log \in Seq(Event) : log = Log(c, r, TRUE)
  BY <1>1, LogEffect
<1>5. journal' = [journal EXCEPT ![r] = log]
  BY <1>4 DEF Log
<1>6. /\ life'[c] = "requested"
      /\ life' \in [Calls -> {"none", "requested", "running", "finished"}]
      /\ \A d \in Calls \ {c} : life'[d] = life[d]
  BY <1>3
<1>7. /\ journal' \in [Runs -> Seq(Event)]
      /\ journal'[r] = log
      /\ \A q \in Runs \ {r} : journal'[q] = journal[q]
  BY <1>3, <1>5
<1>8. pc'[c] \notin {"new", "landing", "returned", "threw", "handler", "normalizer"}
  BY DEF Waits
<1>9. FreshCall(c)'
  BY <1>2, <1>8 DEF FreshCall
<1>10. CallInv(c)'
  BY <1>2, <1>6, <1>8, FixedOutcomes DEF CallInv
<1>11. Grows(c, r, TRUE, FALSE, Blank)
  BY <1>4, <1>7 DEF Grows
<1>12. Books(c, r, TRUE, FALSE, Blank)
  BY <1>2, <1>6, <1>11 DEF Books
<1>. QED
  BY <1>6, <1>7, <1>9, <1>10, <1>12

LEMMA CoalescesKeeps ==
  ASSUME BrokerInv, NEW c \in Calls, NEW r \in Runs, NEW k \in Keys, InvokeCoalesces(c, r, k)
  PROVE  BrokerInv'
<1>1. TypeOK /\ QueueInv /\ HoldInv
  BY DEF BrokerInv
<1>2. /\ dedup[r][k] # None
      /\ Arrives(c, r, k, FALSE, dedup[r][k].leader)
      /\ life' = [life EXCEPT ![c] = "requested"]
      /\ journal' = [journal EXCEPT ![r] = Append(@, Requested(c))]
      /\ pc' = [pc EXCEPT ![c] = "leader"]
      /\ running' = running /\ dedup' = dedup /\ spent' = spent /\ slot' = slot /\ row' = row
      /\ settled' = settled /\ faults' = faults
      /\ signal' = signal /\ work' = work /\ detached' = detached
  BY DEF InvokeCoalesces, callVars
<1>3. PICK l \in Calls : l = dedup[r][k].leader
  BY <1>1, <1>2, RunTypes DEF Entry
<1>0. Arrives(c, r, k, FALSE, l)
  BY <1>2, <1>3
<1>4. /\ pc[c] = "new" /\ req[c] = None
      /\ req' \in [Calls -> Request \union {None}]
      /\ req'[c] # None /\ req'[c].run = r /\ req'[c].key = k
      /\ ~ req'[c].refresh /\ req'[c].leader = l
      /\ \A d \in Calls \ {c} : req'[d] = req[d]
      /\ row[c] = Blank /\ settled[c] = Blank /\ c \notin detached
  BY <1>0, ArrivesEffect
<1>5. /\ pc' \in [Calls -> {"new", "landing"} \union Waits \union Over]
      /\ pc'[c] = "leader" /\ pc'[c] \in Waits
      /\ \A d \in Calls \ {c} : pc'[d] = pc[d]
  BY <1>1, <1>2, CallTypes DEF Waits
<1>6. /\ life' \in [Calls -> {"none", "requested", "running", "finished"}]
      /\ journal' \in [Runs -> Seq(Event)]
      /\ \A d \in Calls \ {c} : life'[d] = life[d]
      /\ FreshCall(c)' /\ CallInv(c)'
      /\ Books(c, r, TRUE, FALSE, Blank)
  BY <1>2, <1>4, <1>5, AskEffect
<1>7. used' \in [Runs -> 0 .. MaxRequests]
  BY <1>1, ReserveEffect DEF InvokeCoalesces
<1>8. TypeOK'
  BY Zenon, <1>1, <1>2, <1>4, <1>5, <1>6, <1>7, CallTypes, RunTypes DEF TypeOK
<1>9. OthersKeep(c)
  BY <1>2, <1>4, <1>5, <1>6 DEF OthersKeep, Moved
<1>10. NotQueued(c)
  BY <1>1, <1>4, OutOfQueue
<1>11. \A s \in Slots : c \notin Holders(s)'
  BY <1>2, <1>4, <1>5, HoldersDef
<1>12. QueueInv' /\ HoldInv'
  BY <1>1, <1>2, <1>5, <1>9, <1>10, <1>11, SameSlots
<1>13. Finds(c, r, TRUE, req'[c].leader)
  BY <1>2, <1>3, <1>4 DEF Finds
<1>14. Table(c, r, TRUE)
  BY <1>2, <1>4, <1>5, <1>13, FixedOutcomes DEF Table, Published
<1>15. Spends(c, r)
  BY <1>2 DEF Spends
<1>. QED
  BY <1>6, <1>8, <1>9, <1>12, <1>14, <1>15, StepKeeps, FixedOutcomes

(* One entry of the table is written.                                       *)
LEMMA EntrySet ==
  ASSUME TypeOK, NEW r \in Runs, NEW k \in Keys, NEW e \in Entry \union {None},
         dedup' = [dedup EXCEPT ![r][k] = e]
  PROVE  /\ dedup' \in [Runs -> [Keys -> Entry \union {None}]]
         /\ dedup'[r][k] = e
         /\ \A q \in Runs, j \in Keys : (q # r \/ j # k) => dedup'[q][j] = dedup[q][j]
<1>1. dedup \in [Runs -> [Keys -> Entry \union {None}]]
  BY RunTypes
<1>2. PICK f \in [Keys -> Entry \union {None}] : f = [dedup[r] EXCEPT ![k] = e]
  BY <1>1
<1>3. dedup' = [dedup EXCEPT ![r] = f]
  BY Zenon, <1>2
<1>. QED
  BY <1>1, <1>2, <1>3

LEMMA LeadsKeeps ==
  ASSUME BrokerInv, NEW c \in Calls, NEW r \in Runs, NEW k \in Keys, NEW b \in BOOLEAN,
         InvokeLeads(c, r, k, b)
  PROVE  BrokerInv'
<1>1. TypeOK /\ QueueInv /\ HoldInv
  BY DEF BrokerInv
<1>2. /\ Arrives(c, r, k, b, None)
      /\ life' = [life EXCEPT ![c] = "requested"]
      /\ journal' = [journal EXCEPT ![r] = Append(@, Requested(c))]
      /\ dedup' = [dedup EXCEPT ![r][k] = Inflight(c)]
      /\ running' = running /\ spent' = spent /\ row' = row /\ settled' = settled
      /\ faults' = faults /\ work' = work /\ detached' = detached
  BY DEF InvokeLeads
<1>3. PICK e \in Entry : e = Inflight(c) /\ e # None
  BY EntryType DEF Inflight
<1>4. /\ dedup' \in [Runs -> [Keys -> Entry \union {None}]]
      /\ dedup'[r][k] = e
      /\ \A q \in Runs, j \in Keys : (q # r \/ j # k) => dedup'[q][j] = dedup[q][j]
  BY ZenonT(60), <1>1, <1>2, <1>3, EntrySet
<1>5. /\ pc[c] = "new" /\ req[c] = None
      /\ req' \in [Calls -> Request \union {None}]
      /\ req'[c] # None /\ req'[c].run = r /\ req'[c].key = k
      /\ \A d \in Calls \ {c} : req'[d] = req[d]
      /\ row[c] = Blank /\ settled[c] = Blank /\ c \notin detached /\ signal[c] = "none"
  BY <1>2, ArrivesEffect
<1>6. NotQueued(c)
  BY <1>1, <1>5, OutOfQueue
<1>7. r \in Slots /\ r # "process"
  BY BrokerAssumption DEF Slots
<1>8. used' \in [Runs -> 0 .. MaxRequests]
  BY <1>1, ReserveEffect DEF InvokeLeads
<1>9. SUFFICES /\ signal' \in [Calls -> {"none", "timeout", "cancel"}]
               /\ slot' \in [Slots -> [active : Nat, waiters : Seq(Calls)]]
               /\ pc' \in [Calls -> {"new", "landing"} \union Waits \union Over]
               /\ pc'[c] \in {"run slot", "run slot held"}
               /\ OthersKeep(c) /\ QueueInv' /\ HoldInv'
  <2>1. /\ pc'[c] \in Waits
        /\ pc'[c] \notin {"handler", "normalizer", "leader", "returned"}
    BY <1>9 DEF Waits
  <2>2. /\ life' \in [Calls -> {"none", "requested", "running", "finished"}]
        /\ journal' \in [Runs -> Seq(Event)]
        /\ FreshCall(c)' /\ CallInv(c)'
        /\ Books(c, r, TRUE, FALSE, Blank)
    <3>1. pc'[c] \notin {"handler", "normalizer"}
      BY <2>1
    <3>4. /\ life' = [life EXCEPT ![c] = "requested"]
          /\ journal' = [journal EXCEPT ![r] = Append(@, Requested(c))]
          /\ running' = running /\ row' = row /\ settled' = settled
          /\ work' = work /\ detached' = detached
      BY Zenon, <1>2
    <3>5. /\ pc' \in [Calls -> {"new", "landing"} \union Waits \union Over]
          /\ pc'[c] \in Waits
      BY Zenon, <1>9, <2>1
    <3>. QED
      BY <1>5, <3>1, <3>4, <3>5, AskEffect
  <2>3. TypeOK'
    BY Zenon, <1>1, <1>2, <1>4, <1>5, <1>8, <1>9, <2>2, CallTypes, RunTypes DEF TypeOK
  <2>4. Registers(c, r, TRUE, r, k)
    BY <1>2, <1>3, <1>4, <1>5, <2>1, FixedOutcomes DEF Registers
  <2>5. Table(c, r, TRUE)
    BY ZenonT(60), <1>2, <1>3, <1>4, <1>5, <2>1, <2>4, FixedOutcomes DEF Table, Published
  <2>6. Spends(c, r)
    BY <1>2 DEF Spends
  <2>. QED
    BY <1>9, <2>2, <2>3, <2>5, <2>6, StepKeeps, FixedOutcomes
<1>10. \A d \in Calls \ {c} : life'[d] = life[d]
  BY <1>1, <1>2, CallTypes
<1>11. CASE Acquire(r, c) /\ signal' = signal
  <2>1. /\ slot' \in [Slots -> [active : Nat, waiters : Seq(Calls)]]
        /\ pc' \in [Calls -> {"new", "landing"} \union Waits \union Over]
        /\ \A d \in Calls \ {c} : pc'[d] = pc[d]
    BY <1>1, <1>7, <1>11, AcquireEffect
  <2>2. pc'[c] \in {"run slot", "run slot held"}
    BY <1>1, <1>7, <1>11, AcquireEffect DEF Place
  <2>3. OthersKeep(c)
    BY <1>2, <1>5, <1>10, <1>11, <2>1 DEF OthersKeep, Moved
  <2>4. AsksFor(r, c)
    BY <1>5, <1>7 DEF AsksFor
  <2>5. QueueInv' /\ HoldInv'
    BY <1>1, <1>2, <1>5, <1>6, <1>7, <1>11, <2>3, <2>4, AcquireSlots
  <2>. QED
    BY <1>1, <1>11, <2>1, <2>2, <2>3, <2>5, CallTypes
<1>12. CASE /\ signal' = [signal EXCEPT ![c] = "cancel"]
            /\ pc' = [pc EXCEPT ![c] = "run slot"]
            /\ slot' = slot
  <2>1. /\ signal' \in [Calls -> {"none", "timeout", "cancel"}]
        /\ \A d \in Calls \ {c} : signal'[d] = signal[d]
    BY <1>1, <1>12, CallTypes
  <2>2. /\ pc' \in [Calls -> {"new", "landing"} \union Waits \union Over]
        /\ pc'[c] = "run slot"
        /\ \A d \in Calls \ {c} : pc'[d] = pc[d]
    BY <1>1, <1>12, CallTypes DEF Waits
  <2>3. OthersKeep(c)
    BY <1>2, <1>5, <1>10, <2>1, <2>2 DEF OthersKeep, Moved
  <2>4. \A s \in Slots : c \notin Holders(s)'
    BY <1>2, <1>5, <2>2, HoldersDef
  <2>5. QueueInv' /\ HoldInv'
    BY <1>1, <1>6, <1>12, <2>2, <2>3, <2>4, SameSlots
  <2>. QED
    BY <1>1, <1>12, <2>1, <2>2, <2>3, <2>5, RunTypes
<1>. QED
  BY <1>11, <1>12 DEF InvokeLeads

-----------------------------------------------------------------------------
(* executePhysical.                                                         *)

(* What c holds, by where it is.                                            *)
LEMMA HeldBy ==
  ASSUME TypeOK, NEW c \in Calls, req[c] # None
  PROVE  /\ Both(c) \in SUBSET Slots /\ {req[c].run} \in SUBSET Slots
         /\ pc[c] \in {"slots held", "handler", "normalizer"} \/ c \in detached
              => \A s \in Both(c) : c \in Holders(s)
         /\ pc[c] \in {"run slot held", "process slot"}
              => \A s \in {req[c].run} : c \in Holders(s)
<1>1. req[c].run \in Runs
  BY RequestType
<1>2. Both(c) \in SUBSET Slots /\ {req[c].run} \in SUBSET Slots
  BY <1>1 DEF Both, Slots
<1>3. req[c].run # "process"
  BY <1>1, BrokerAssumption
<1>. QED
  BY <1>2, <1>3, HoldersDef DEF Both

(* What the call before it lands is not yet: over, or detached.             *)
LEMMA UnderWayCall ==
  ASSUME BrokerInv, NEW c \in Calls, pc[c] \in Waits
  PROVE  /\ req[c] # None /\ c \notin detached /\ life[c] # "finished"
         /\ row[c].disposition # "accepted" /\ row[c].reused = None
         /\ UnderWay(c) /\ pc[c] # "returned"
<1>1. FreshCall(c) /\ CallInv(c)
  BY DEF BrokerInv, CallsInv
<1>2. pc[c] \notin {"new", "landing", "returned", "threw"}
  BY DEF Waits
<1>. QED
  BY <1>1, <1>2 DEF FreshCall, CallInv, UnderWay, Asked, Over

(* c gives back what it holds and lands.                                    *)
Lands(c, S, final) ==
  /\ Release(S, c, "landing") /\ Settles(c, final)
  /\ row' \in [Calls -> Final]
  /\ \A d \in Calls \ {c} : row'[d] = row[d]
  /\ row'[c].reused = None /\ row'[c].disposition # "accepted"
  /\ running' = running /\ used' = used /\ req' = req /\ dedup' = dedup /\ spent' = spent
  /\ life' = life /\ journal' = journal /\ faults' = faults
  /\ signal' = signal /\ work' = work /\ detached' = detached

(* A result to land with.                                                   *)
MayLand(final) == final = Success \/ (final.disposition # "accepted" /\ final.reused = None)

LEMMA LandingKeeps ==
  ASSUME BrokerInv, NEW c \in Calls, NEW S \in SUBSET Slots, NEW final \in Final,
         MayLand(final), Lands(c, S, final), pc[c] \in Waits, pc[c] # "leader",
         NotQueued(c), work[c] \notin {"handler", "normalizer"}, \A s \in S : c \in Holders(s)
  PROVE  BrokerInv'
<1>1. TypeOK /\ QueueInv /\ HoldInv
  BY DEF BrokerInv
<1>2. /\ Release(S, c, "landing") /\ settled' = [settled EXCEPT ![c] = final]
      /\ row' \in [Calls -> Final]
      /\ \A d \in Calls \ {c} : row'[d] = row[d]
      /\ row'[c].reused = None /\ row'[c].disposition # "accepted"
      /\ running' = running /\ used' = used /\ req' = req /\ dedup' = dedup /\ spent' = spent
      /\ life' = life /\ journal' = journal /\ faults' = faults
      /\ signal' = signal /\ work' = work /\ detached' = detached
  BY DEF Lands, Settles
<1>3. /\ req[c] # None /\ c \notin detached /\ life[c] # "finished"
      /\ row[c].disposition # "accepted" /\ row[c].reused = None
      /\ UnderWay(c) /\ pc[c] # "returned"
  BY UnderWayCall
<1>4. /\ slot' \in [Slots -> [active : Nat, waiters : Seq(Calls)]]
      /\ pc' \in [Calls -> {"new", "landing"} \union Waits \union Over]
      /\ pc'[c] = "landing"
      /\ \A d \in Calls \ {c} : Moved(d)
  BY ZenonT(60), <1>1, <1>2, ReleaseEffect
<1>5. /\ settled' \in [Calls -> Final] /\ settled'[c] = final
      /\ \A d \in Calls \ {c} : settled'[d] = settled[d]
  BY <1>1, <1>2, CallTypes
<1>6. TypeOK'
  BY Zenon, <1>1, <1>2, <1>4, <1>5, CallTypes, RunTypes DEF TypeOK
<1>7. OthersKeep(c)
  BY <1>2, <1>4, <1>5 DEF OthersKeep
<1>8. QueueInv' /\ HoldInv'
  BY <1>1, <1>2, <1>3, <1>7, ReleaseSlots
<1>9. FreshCall(c)'
  BY <1>2, <1>3, <1>4 DEF FreshCall
<1>10. CallInv(c)'
  BY <1>2, <1>3, <1>4, <1>5 DEF CallInv, MayLand
<1>11. Quiet(c)
  BY <1>2, <1>3, <1>4, <1>5, FixedOutcomes DEF Quiet, Published, MayLand
<1>. QED
  BY <1>2, <1>3, <1>6, <1>7, <1>8, <1>9, <1>10, <1>11, QuietStep

(* A step of c that leaves the slots and the tables alone.                  *)
Alone(c) ==
  /\ running' = running /\ used' = used /\ req' = req /\ dedup' = dedup /\ spent' = spent
  /\ slot' = slot /\ journal' = journal /\ signal' = signal
  /\ faults' \in 0 .. MaxFaults
  /\ life' \in [Calls -> {"none", "requested", "running", "finished"}]
  /\ row' \in [Calls -> Final] /\ settled' \in [Calls -> Final]
  /\ pc' \in [Calls -> {"new", "landing"} \union Waits \union Over]
  /\ work' \in [Calls -> {"none", "handler", "value", "failed", "cancelled",
                          "normalizer", "normalized", "rejected"}]
  /\ detached' \subseteq Calls
  /\ \A d \in Calls \ {c} :
       /\ pc'[d] = pc[d] /\ life'[d] = life[d] /\ row'[d] = row[d]
       /\ settled'[d] = settled[d] /\ work'[d] = work[d]
       /\ d \in detached' <=> d \in detached

LEMMA AloneKeeps ==
  ASSUME BrokerInv, NEW c \in Calls, req[c] # None, pc'[c] # "new", NotQueued(c), Alone(c),
         Quiet(c), CallInv(c)', \A s \in Slots : c \in Holders(s)' => c \in Holders(s)
  PROVE  BrokerInv'
<1>1. TypeOK /\ QueueInv /\ HoldInv
  BY DEF BrokerInv
<1>2. TypeOK'
  BY Zenon, <1>1, CallTypes, RunTypes DEF TypeOK, Alone
<1>3. OthersKeep(c)
  BY DEF OthersKeep, Moved, Alone
<1>4. FreshCall(c)'
  BY DEF FreshCall, Alone
<1>5. QueueInv' /\ HoldInv'
  BY <1>1, <1>3, SameSlots DEF Alone
<1>. QED
  BY <1>2, <1>3, <1>4, <1>5, QuietStep DEF Alone

(* lateReport.                                                              *)
LEMMA LateReportEffect ==
  ASSUME TypeOK, NEW c \in Calls, NEW w \in {"value", "failed", "cancelled"}, LateReport(c, w)
  PROVE  /\ row' \in [Calls -> Final]
         /\ \A d \in Calls \ {c} : row'[d] = row[d]
         /\ row'[c].reused = row[c].reused
         /\ row'[c].disposition \in {row[c].disposition, "discarded"}
         /\ \A f \in Final : Said(f, row[c]) => Said(f, row'[c])
<1>1. row \in [Calls -> Final]
  BY CallTypes
<1>2. CASE row[c].reported # None
  <2>1. row' = row
    BY <1>2 DEF LateReport
  <2>. QED
    BY <1>1, <2>1
<1>3. CASE row[c].reported = None
  <2>1. PICK p \in {"succeeded", "failed", "cancelled"} :
          p = IF w = "value" THEN "succeeded" ELSE w
    OBVIOUS
  <2>2. row' = [row EXCEPT ![c].reported = p, ![c].disposition = "discarded"]
    BY <1>3, <2>1 DEF LateReport
  <2>3. PICK x : x = [row[c] EXCEPT !.reported = p, !.disposition = "discarded"]
    OBVIOUS
  <2>4. x \in Final /\ x.reused = row[c].reused /\ x.disposition = "discarded"
    BY <1>1, <2>3 DEF Final
  <2>5. row' = [row EXCEPT ![c] = x]
    BY <1>1, <2>2, <2>3 DEF Final
  <2>6. row' \in [Calls -> Final] /\ row'[c] = x /\ \A d \in Calls \ {c} : row'[d] = row[d]
    BY <1>1, <2>4, <2>5
  <2>7. ASSUME NEW f \in Final, Said(f, row[c])
        PROVE  Said(f, x)
    <3>1. ASSUME NEW v \in {"succeeded", "failed", "cancelled"},
                 row[c] = [f EXCEPT !.reported = v, !.disposition = "discarded"]
          PROVE  FALSE
      <4>1. row[c].reported = v
        BY <3>1 DEF Final
      <4>. QED
        BY <1>3, <4>1, NoneAssumption
    <3>2. row[c] = f
      BY <2>7, <3>1 DEF Said
    <3>. QED
      BY <1>3, <2>1, <2>3, <3>2 DEF Said
  <2>. QED
    BY <2>4, <2>6, <2>7
<1>. QED
  BY <1>2, <1>3

LEMMA QueueAbortedKeeps ==
  ASSUME BrokerInv, NEW c \in Calls, QueueAborted(c)
  PROVE  BrokerInv'
<1>1. TypeOK /\ QueueInv /\ CallInv(c)
  BY DEF BrokerInv, CallsInv
<1>2. /\ signal[c] # "none" /\ Settles(c, Aborted(c, None, "none"))
      /\ running' = running /\ used' = used /\ req' = req /\ dedup' = dedup /\ spent' = spent
      /\ life' = life /\ row' = row /\ journal' = journal /\ faults' = faults
      /\ signal' = signal /\ work' = work /\ detached' = detached
  BY DEF QueueAborted, callVars
<1>3. pc[c] \in {"run slot", "process slot"}
  BY DEF QueueAborted
<1>4. pc[c] \in Waits
  BY <1>3 DEF Waits
<1>5. /\ req[c] # None /\ c \notin detached /\ life[c] # "finished"
      /\ row[c].disposition # "accepted" /\ row[c].reused = None
      /\ UnderWay(c) /\ pc[c] # "returned"
  BY <1>4, UnderWayCall
<1>6. NotQueued(c)
  BY <1>1, <1>2, OutOfQueue
<1>7. PICK final \in Final : final = Aborted(c, None, "none") /\ final.disposition = "none"
                               /\ final.reused = None
  BY AbortedType
<1>8. work[c] = "none"
  BY <1>1, <1>3 DEF CallInv, Over
<1>9. CASE pc[c] = "process slot" /\ Release({req[c].run}, c, "landing")
  <2>1. Lands(c, {req[c].run}, final)
    BY <1>1, <1>2, <1>5, <1>7, <1>9, CallTypes DEF Lands
  <2>2. {req[c].run} \in SUBSET Slots /\ \A s \in {req[c].run} : c \in Holders(s)
    BY <1>1, <1>5, <1>9, HeldBy
  <2>. QED
    BY <1>4, <1>6, <1>7, <1>8, <1>9, <2>1, <2>2, LandingKeeps DEF MayLand
<1>10. CASE pc' = [pc EXCEPT ![c] = "landing"] /\ slot' = slot
  <2>1. /\ pc' \in [Calls -> {"new", "landing"} \union Waits \union Over]
        /\ pc'[c] = "landing" /\ \A d \in Calls \ {c} : pc'[d] = pc[d]
    BY <1>1, <1>10, CallTypes
  <2>2. /\ settled' \in [Calls -> Final] /\ settled'[c] = final
        /\ \A d \in Calls \ {c} : settled'[d] = settled[d]
    BY <1>1, <1>2, <1>7, CallTypes DEF Settles
  <2>3. Alone(c)
    BY <1>1, <1>2, <1>10, <2>1, <2>2, CallTypes, RunTypes DEF Alone
  <2>4. CallInv(c)'
    BY <1>2, <1>5, <1>7, <1>8, <2>1, <2>2 DEF CallInv
  <2>5. Quiet(c)
    BY <1>2, <1>5, <1>7, <2>1, <2>2 DEF Quiet, Published
  <2>6. \A s \in Slots : c \notin Holders(s)'
    BY <1>2, <1>5, <2>1, HoldersDef
  <2>. QED
    BY <1>5, <1>6, <2>1, <2>3, <2>4, <2>5, <2>6, AloneKeeps
<1>. QED
  BY <1>9, <1>10 DEF QueueAborted

LEMMA TakeProcessSlotKeeps ==
  ASSUME BrokerInv, NEW c \in Calls, TakeProcessSlot(c)
  PROVE  BrokerInv'
<1>1. TypeOK /\ QueueInv /\ HoldInv /\ CallInv(c)
  BY DEF BrokerInv, CallsInv
<1>2. /\ pc[c] = "run slot held"
      /\ running' = running /\ used' = used /\ req' = req /\ dedup' = dedup /\ spent' = spent
      /\ life' = life /\ row' = row /\ journal' = journal /\ faults' = faults
      /\ signal' = signal /\ work' = work /\ detached' = detached
  BY DEF TakeProcessSlot, callVars
<1>3. pc[c] \in Waits
  BY <1>2 DEF Waits
<1>4. /\ req[c] # None /\ c \notin detached /\ life[c] # "finished"
      /\ row[c].disposition # "accepted" /\ row[c].reused = None
      /\ UnderWay(c) /\ pc[c] # "returned"
  BY <1>3, UnderWayCall
<1>5. NotQueued(c)
  BY <1>1, <1>2, OutOfQueue
<1>6. work[c] = "none"
  BY <1>1, <1>2 DEF CallInv, Over
<1>7. CASE Release({req[c].run}, c, "landing") /\ Settles(c, Aborted(c, None, "none"))
  <2>1. PICK final \in Final : final = Aborted(c, None, "none") /\ final.disposition = "none"
                                 /\ final.reused = None
    BY AbortedType
  <2>2. Lands(c, {req[c].run}, final)
    BY <1>1, <1>2, <1>4, <1>7, <2>1, CallTypes DEF Lands
  <2>3. {req[c].run} \in SUBSET Slots /\ \A s \in {req[c].run} : c \in Holders(s)
    BY <1>1, <1>2, <1>4, HeldBy
  <2>. QED
    BY <1>2, <1>3, <1>5, <1>6, <2>1, <2>2, <2>3, LandingKeeps DEF MayLand
<1>8. CASE signal[c] = "none" /\ Acquire("process", c) /\ settled' = settled
  <2>1. PICK s \in Slots : s = "process"
    BY DEF Slots
  <2>2. Acquire(s, c)
    BY <1>8, <2>1
  <2>3. /\ slot' \in [Slots -> [active : Nat, waiters : Seq(Calls)]]
        /\ pc' \in [Calls -> {"new", "landing"} \union Waits \union Over]
        /\ \A d \in Calls \ {c} : pc'[d] = pc[d]
    BY <1>1, <2>2, AcquireEffect
  <2>4. pc'[c] \in {"process slot", "slots held"}
    BY <1>1, <2>1, <2>2, AcquireEffect DEF Place
  <2>5. OthersKeep(c)
    BY <1>2, <1>8, <2>3 DEF OthersKeep, Moved
  <2>6. AsksFor(s, c)
    BY <1>2, <2>1 DEF AsksFor
  <2>7. QueueInv' /\ HoldInv'
    BY <1>1, <1>2, <1>4, <1>5, <1>8, <2>2, <2>5, <2>6, AcquireSlots
  <2>8. TypeOK'
    BY Zenon, <1>1, <1>2, <1>8, <2>3, CallTypes, RunTypes DEF TypeOK
  <2>9. FreshCall(c)'
    BY <1>2, <1>4, <2>4 DEF FreshCall
  <2>10. CallInv(c)'
    BY <1>2, <1>4, <1>6, <2>4 DEF CallInv
  <2>11. Quiet(c)
    BY <1>2, <1>4, <1>8, <2>4 DEF Quiet, Published
  <2>. QED
    BY <1>2, <1>4, <2>5, <2>7, <2>8, <2>9, <2>10, <2>11, QuietStep
<1>. QED
  BY <1>7, <1>8 DEF TakeProcessSlot

(* A call that holds both slots gives them back and lands with final.       *)
LEMMA BothLanding ==
  ASSUME BrokerInv, NEW c \in Calls, NEW final \in Final, MayLand(final),
         pc[c] \in {"slots held", "handler", "normalizer"},
         work[c] \notin {"handler", "normalizer"}, Lands(c, Both(c), final)
  PROVE  BrokerInv'
<1>1. TypeOK /\ QueueInv
  BY DEF BrokerInv
<1>2. pc[c] \in Waits
  BY DEF Waits
<1>3. req[c] # None
  BY <1>2, UnderWayCall
<1>4. NotQueued(c)
  BY <1>1, OutOfQueue
<1>5. Both(c) \in SUBSET Slots /\ \A s \in Both(c) : c \in Holders(s)
  BY <1>1, <1>3, HeldBy
<1>6. pc[c] # "leader"
  OBVIOUS
<1>. QED
  BY <1>2, <1>4, <1>5, <1>6, LandingKeeps

(* The row of a call that is under way.                                     *)
LEMMA WorkingRow ==
  ASSUME BrokerInv, NEW c \in Calls, pc[c] \in {"slots held", "handler", "normalizer"}
  PROVE  /\ TypeOK /\ QueueInv /\ CallInv(c) /\ NotQueued(c)
         /\ req[c] # None /\ c \notin detached /\ life[c] # "finished" /\ UnderWay(c)
         /\ row \in [Calls -> Final]
         /\ row[c].reused = None /\ row[c].disposition # "accepted"
<1>1. TypeOK /\ QueueInv /\ CallInv(c)
  BY DEF BrokerInv, CallsInv
<1>2. pc[c] \in Waits
  BY DEF Waits
<1>. QED
  BY <1>1, <1>2, UnderWayCall, OutOfQueue, CallTypes

LEMMA DoNotStartKeeps ==
  ASSUME BrokerInv, NEW c \in Calls, DoNotStart(c)
  PROVE  BrokerInv'
<1>1. pc[c] = "slots held"
  BY DEF DoNotStart
<1>2. CallInv(c) /\ row \in [Calls -> Final] /\ row[c].reused = None
      /\ row[c].disposition # "accepted"
  BY <1>1, WorkingRow
<1>3. PICK final \in Final : final = Aborted(c, None, "none") /\ final.disposition = "none"
                               /\ final.reused = None
  BY AbortedType
<1>4. work[c] = "none"
  BY <1>1, <1>2 DEF CallInv, Over
<1>5. Lands(c, Both(c), final)
  BY <1>2, <1>3 DEF DoNotStart, Lands, callVars
<1>. QED
  BY <1>1, <1>3, <1>4, <1>5, BothLanding DEF MayLand

LEMMA HandlerFailedKeeps ==
  ASSUME BrokerInv, NEW c \in Calls, HandlerFailed(c)
  PROVE  BrokerInv'
<1>1. pc[c] = "handler" /\ work[c] \in {"failed", "cancelled"}
  BY DEF HandlerFailed
<1>2. CallInv(c) /\ row \in [Calls -> Final] /\ row[c].reused = None
      /\ row[c].disposition # "accepted"
  BY <1>1, WorkingRow
<1>3. PICK final \in Final : final = Outcome(work[c], work[c], "none")
                               /\ final.disposition = "none" /\ final.reused = None
  BY <1>1, OutcomeType
<1>4. Lands(c, Both(c), final)
  BY <1>2, <1>3 DEF HandlerFailed, Lands, callVars
<1>. QED
  BY <1>1, <1>3, <1>4, BothLanding DEF MayLand

LEMMA OutputCheckedKeeps ==
  ASSUME BrokerInv, NEW c \in Calls, OutputChecked(c)
  PROVE  BrokerInv'
<1>1. pc[c] = "normalizer" /\ work[c] \in {"normalized", "rejected"}
  BY DEF OutputChecked
<1>2. CallInv(c) /\ row \in [Calls -> Final] /\ row[c].reused = None
      /\ row[c].disposition # "accepted"
  BY <1>1, WorkingRow
<1>3. PICK final \in Final : MayLand(final) /\ Settles(c, final)
  BY FixedOutcomes, OutcomeType DEF OutputChecked, MayLand
<1>4. Lands(c, Both(c), final)
  BY <1>2, <1>3 DEF OutputChecked, Lands, callVars
<1>. QED
  BY <1>1, <1>3, <1>4, BothLanding

LEMMA StartHandlerKeeps ==
  ASSUME BrokerInv, NEW c \in Calls, StartHandler(c)
  PROVE  BrokerInv'
<1>1. /\ pc[c] = "slots held"
      /\ life' = [life EXCEPT ![c] = "running"]
      /\ work' = [work EXCEPT ![c] = "handler"]
      /\ pc' = [pc EXCEPT ![c] = "handler"]
      /\ running' = running /\ used' = used /\ req' = req /\ dedup' = dedup /\ spent' = spent
      /\ slot' = slot /\ row' = row /\ journal' = journal /\ settled' = settled
      /\ faults' = faults /\ signal' = signal /\ detached' = detached
  BY DEF StartHandler
<1>2. /\ TypeOK /\ NotQueued(c)
      /\ req[c] # None /\ c \notin detached /\ life[c] # "finished" /\ UnderWay(c)
      /\ row[c].reused = None /\ row[c].disposition # "accepted"
  BY <1>1, WorkingRow
<1>3. Alone(c) /\ pc'[c] = "handler" /\ work'[c] = "handler" /\ life'[c] = "running"
  BY <1>1, <1>2, CallTypes, RunTypes DEF Alone, Waits
<1>4. CallInv(c)'
  BY <1>1, <1>2, <1>3 DEF CallInv
<1>5. Quiet(c)
  BY <1>1, <1>2, <1>3 DEF Quiet, Published
<1>6. \A s \in Slots : c \in Holders(s)' => c \in Holders(s)
  BY <1>1, <1>2, HoldersDef
<1>. QED
  BY <1>2, <1>3, <1>4, <1>5, <1>6, AloneKeeps

LEMMA StartFailsKeeps ==
  ASSUME BrokerInv, NEW c \in Calls, StartFails(c)
  PROVE  BrokerInv'
<1>1. /\ pc[c] = "slots held" /\ Throws(c)
      /\ running' = running /\ used' = used /\ req' = req /\ dedup' = dedup /\ spent' = spent
      /\ slot' = slot /\ journal' = journal
      /\ signal' = signal /\ work' = work /\ detached' = detached
  BY DEF StartFails, callVars
<1>2. /\ TypeOK /\ CallInv(c) /\ NotQueued(c)
      /\ req[c] # None /\ c \notin detached /\ life[c] # "finished" /\ UnderWay(c)
      /\ row[c].reused = None /\ row[c].disposition # "accepted"
  BY <1>1, WorkingRow
<1>3. /\ life' \in [Calls -> {"none", "requested", "running", "finished"}]
      /\ pc' \in [Calls -> {"new", "landing"} \union Waits \union Over]
      /\ faults' \in 0 .. MaxFaults
      /\ row' = row /\ settled' = settled
      /\ life'[c] = (IF life[c] = "none" THEN "requested" ELSE life[c])
      /\ pc'[c] = "threw"
      /\ \A d \in Calls \ {c} : life'[d] = life[d] /\ pc'[d] = pc[d]
  BY <1>1, <1>2, ThrowsEffect
<1>4. Alone(c)
  BY <1>1, <1>2, <1>3, CallTypes DEF Alone
<1>5. work[c] = "none"
  BY <1>1, <1>2 DEF CallInv, Over
<1>6. CallInv(c)'
  BY <1>1, <1>2, <1>3, <1>5 DEF CallInv
<1>7. Quiet(c)
  BY <1>1, <1>2, <1>3 DEF Quiet, Published
<1>8. \A s \in Slots : c \notin Holders(s)'
  BY <1>1, <1>2, <1>3, HoldersDef
<1>. QED
  BY <1>2, <1>3, <1>4, <1>6, <1>7, <1>8, AloneKeeps

LEMMA WorkSettlesKeeps ==
  ASSUME BrokerInv, NEW c \in Calls, WorkSettles(c)
  PROVE  BrokerInv'
<1>1. /\ c \notin detached
      /\ running' = running /\ used' = used /\ req' = req /\ dedup' = dedup /\ spent' = spent
      /\ slot' = slot /\ pc' = pc /\ life' = life /\ row' = row /\ journal' = journal
      /\ settled' = settled /\ faults' = faults /\ signal' = signal /\ detached' = detached
  BY DEF WorkSettles, auditVars
<1>2. CallInv(c)
  BY DEF BrokerInv, CallsInv
<1>3. /\ work[c] \in {"handler", "normalizer"}
      /\ work[c] = "handler" =>
           \E w \in {"value", "failed", "cancelled"} : work' = [work EXCEPT ![c] = w]
      /\ work[c] = "normalizer" =>
           \E w \in {"normalized", "rejected"} : work' = [work EXCEPT ![c] = w]
  BY DEF WorkSettles
<1>4. pc[c] = work[c]
  BY <1>1, <1>2, <1>3 DEF CallInv
<1>5. /\ TypeOK /\ NotQueued(c)
      /\ req[c] # None /\ life[c] # "finished" /\ UnderWay(c)
      /\ row[c].reused = None /\ row[c].disposition # "accepted"
  BY <1>3, <1>4, WorkingRow
<1>6. /\ work' \in [Calls -> {"none", "handler", "value", "failed", "cancelled",
                              "normalizer", "normalized", "rejected"}]
      /\ pc[c] = "handler" => work'[c] \in {"value", "failed", "cancelled"}
      /\ pc[c] = "normalizer" => work'[c] \in {"normalized", "rejected"}
      /\ \A d \in Calls \ {c} : work'[d] = work[d]
  BY <1>3, <1>4, <1>5, CallTypes
<1>7. Alone(c)
  BY <1>1, <1>5, <1>6, CallTypes, RunTypes DEF Alone
<1>8. CallInv(c)'
  BY <1>1, <1>3, <1>4, <1>5, <1>6 DEF CallInv
<1>9. Quiet(c)
  BY <1>1, <1>3, <1>4, <1>5 DEF Quiet, Published
<1>10. \A s \in Slots : c \in Holders(s)' => c \in Holders(s)
  BY <1>1, HoldersDef
<1>11. pc'[c] # "new"
  BY <1>1, <1>3, <1>4
<1>. QED
  BY <1>5, <1>7, <1>8, <1>9, <1>10, <1>11, AloneKeeps

LEMMA NormalizeKeeps ==
  ASSUME BrokerInv, NEW c \in Calls, Normalize(c)
  PROVE  BrokerInv'
<1>1. /\ pc[c] = "handler"
      /\ work' = [work EXCEPT ![c] = "normalizer"]
      /\ pc' = [pc EXCEPT ![c] = "normalizer"]
      /\ running' = running /\ used' = used /\ req' = req /\ dedup' = dedup /\ spent' = spent
      /\ slot' = slot /\ life' = life /\ row' = row /\ journal' = journal
      /\ settled' = settled /\ faults' = faults /\ signal' = signal /\ detached' = detached
  BY DEF Normalize, auditVars
<1>2. /\ TypeOK /\ NotQueued(c)
      /\ req[c] # None /\ c \notin detached /\ life[c] # "finished" /\ UnderWay(c)
      /\ row[c].reused = None /\ row[c].disposition # "accepted"
  BY <1>1, WorkingRow
<1>3. Alone(c) /\ pc'[c] = "normalizer" /\ work'[c] = "normalizer"
  BY <1>1, <1>2, CallTypes, RunTypes DEF Alone, Waits
<1>4. CallInv(c)'
  BY <1>1, <1>2, <1>3 DEF CallInv
<1>5. Quiet(c)
  BY <1>1, <1>2, <1>3 DEF Quiet, Published
<1>6. \A s \in Slots : c \in Holders(s)' => c \in Holders(s)
  BY <1>1, <1>2, HoldersDef
<1>. QED
  BY <1>2, <1>3, <1>4, <1>5, <1>6, AloneKeeps

(* A call lands without its work, which keeps the slots.                    *)
LEMMA Detaches ==
  ASSUME BrokerInv, NEW c \in Calls, NEW final \in Final, MayLand(final),
         pc[c] \in {"handler", "normalizer"}, work[c] \in {"handler", "normalizer"},
         Settles(c, final), detached' = detached \union {c},
         pc' = [pc EXCEPT ![c] = "landing"],
         running' = running, used' = used, req' = req, dedup' = dedup, spent' = spent,
         slot' = slot, life' = life, row' = row, journal' = journal, faults' = faults,
         signal' = signal, work' = work
  PROVE  BrokerInv'
<1>1. /\ TypeOK /\ NotQueued(c)
      /\ req[c] # None /\ c \notin detached /\ life[c] # "finished" /\ UnderWay(c)
      /\ row[c].reused = None /\ row[c].disposition # "accepted"
  BY WorkingRow
<1>2. /\ settled' \in [Calls -> Final] /\ settled'[c] = final
      /\ \A d \in Calls \ {c} : settled'[d] = settled[d]
  BY <1>1, CallTypes DEF Settles
<1>3. /\ pc' \in [Calls -> {"new", "landing"} \union Waits \union Over]
      /\ pc'[c] = "landing" /\ \A d \in Calls \ {c} : pc'[d] = pc[d]
  BY <1>1, CallTypes
<1>4. /\ detached' \subseteq Calls /\ c \in detached'
      /\ \A d \in Calls \ {c} : d \in detached' <=> d \in detached
  BY <1>1, CallTypes
<1>5. Alone(c)
  BY <1>1, <1>2, <1>3, <1>4, CallTypes, RunTypes DEF Alone
<1>6. CallInv(c)'
  BY <1>1, <1>2, <1>3, <1>4 DEF CallInv, MayLand
<1>7. Quiet(c)
  BY <1>1, <1>2, <1>3, FixedOutcomes DEF Quiet, Published, MayLand
<1>8. \A s \in Slots : c \in Holders(s)' => c \in Holders(s)
  BY <1>1, HoldersDef
<1>. QED
  BY <1>1, <1>3, <1>5, <1>6, <1>7, <1>8, AloneKeeps

LEMMA DetachHandlerKeeps ==
  ASSUME BrokerInv, NEW c \in Calls, DetachHandler(c)
  PROVE  BrokerInv'
<1>1. /\ pc[c] = "handler" /\ Settles(c, Aborted(c, None, "none"))
      /\ running' = running /\ used' = used /\ req' = req /\ dedup' = dedup /\ spent' = spent
      /\ life' = life /\ journal' = journal /\ faults' = faults
      /\ signal' = signal /\ work' = work
  BY DEF DetachHandler
<1>2. PICK final \in Final : /\ final = Aborted(c, None, "none") /\ final.disposition = "none"
                             /\ final.reused = None
  BY AbortedType
<1>3. MayLand(final)
  BY <1>2 DEF MayLand
<1>4. CASE /\ work[c] = "handler"
           /\ detached' = detached \union {c}
           /\ pc' = [pc EXCEPT ![c] = "landing"]
           /\ slot' = slot /\ row' = row
  BY <1>1, <1>2, <1>3, <1>4, Detaches
<1>5. CASE /\ work[c] # "handler"
           /\ LateReport(c, work[c])
           /\ Release(Both(c), c, "landing")
           /\ detached' = detached
  <2>1. /\ TypeOK /\ CallInv(c)
        /\ row[c].reused = None /\ row[c].disposition # "accepted"
    BY <1>1, WorkingRow
  <2>2. PICK w \in {"value", "failed", "cancelled"} : w = work[c]
    BY <1>1, <1>5, <2>1 DEF CallInv
  <2>3. LateReport(c, w)
    BY <1>5, <2>2
  <2>4. /\ row' \in [Calls -> Final]
        /\ \A d \in Calls \ {c} : row'[d] = row[d]
        /\ row'[c].reused = row[c].reused
        /\ row'[c].disposition \in {row[c].disposition, "discarded"}
    BY <2>1, <2>3, LateReportEffect
  <2>5. Lands(c, Both(c), final)
    BY <1>1, <1>2, <1>5, <2>1, <2>4 DEF Lands
  <2>6. work[c] \notin {"handler", "normalizer"}
    BY <2>2
  <2>. QED
    BY <1>1, <1>3, <2>5, <2>6, BothLanding
<1>. QED
  BY <1>4, <1>5 DEF DetachHandler

LEMMA DetachNormalizerKeeps ==
  ASSUME BrokerInv, NEW c \in Calls, DetachNormalizer(c)
  PROVE  BrokerInv'
<1>1. /\ pc[c] = "normalizer" /\ Settles(c, Aborted(c, "succeeded", "discarded"))
      /\ running' = running /\ used' = used /\ req' = req /\ dedup' = dedup /\ spent' = spent
      /\ life' = life /\ row' = row /\ journal' = journal /\ faults' = faults
      /\ signal' = signal /\ work' = work
  BY DEF DetachNormalizer
<1>2. PICK final \in Final : /\ final = Aborted(c, "succeeded", "discarded")
                             /\ final.disposition = "discarded" /\ final.reused = None
  BY AbortedType
<1>3. MayLand(final)
  BY <1>2 DEF MayLand
<1>4. CASE /\ work[c] = "normalizer"
           /\ detached' = detached \union {c}
           /\ pc' = [pc EXCEPT ![c] = "landing"]
           /\ slot' = slot
  BY <1>1, <1>2, <1>3, <1>4, Detaches
<1>5. CASE /\ work[c] # "normalizer"
           /\ Release(Both(c), c, "landing")
           /\ detached' = detached
  <2>1. /\ CallInv(c) /\ row \in [Calls -> Final]
        /\ row[c].reused = None /\ row[c].disposition # "accepted"
    BY <1>1, WorkingRow
  <2>2. work[c] \notin {"handler", "normalizer"}
    BY <1>1, <1>5, <2>1 DEF CallInv
  <2>3. Lands(c, Both(c), final)
    BY <1>1, <1>2, <1>5, <2>1 DEF Lands
  <2>. QED
    BY <1>1, <1>3, <2>2, <2>3, BothLanding
<1>. QED
  BY <1>4, <1>5 DEF DetachNormalizer

(* What detached work leaves behind.                                        *)
Reported(c) ==
  /\ work' \in [Calls -> {"none", "handler", "value", "failed", "cancelled",
                          "normalizer", "normalized", "rejected"}]
  /\ work'[c] \notin {"none", "handler", "normalizer"}
  /\ \A d \in Calls \ {c} : work'[d] = work[d]
  /\ row' \in [Calls -> Final]
  /\ \A d \in Calls \ {c} : row'[d] = row[d]
  /\ row'[c].reused = row[c].reused
  /\ row'[c].disposition \in {row[c].disposition, "discarded"}
  /\ \A f \in Final : Said(f, row[c]) => Said(f, row'[c])

LEMMA DetachedSettlesKeeps ==
  ASSUME BrokerInv, NEW c \in Calls, DetachedSettles(c)
  PROVE  BrokerInv'
<1>1. /\ TypeOK /\ QueueInv /\ HoldInv /\ FreshCall(c) /\ CallInv(c)
  BY DEF BrokerInv, CallsInv
<1>2. /\ c \in detached /\ detached' = detached \ {c} /\ Release(Both(c), c, pc[c])
      /\ running' = running /\ used' = used /\ req' = req /\ dedup' = dedup /\ spent' = spent
      /\ life' = life /\ journal' = journal /\ settled' = settled /\ faults' = faults
      /\ signal' = signal
  BY DEF DetachedSettles
<1>3. /\ pc[c] \in {"landing"} \union Over /\ work[c] \in {"handler", "normalizer"}
      /\ pc[c] \notin {"new", "run slot", "process slot", "leader", "handler", "normalizer"}
  BY <1>1, <1>2 DEF CallInv, Over
<1>4. req[c] # None
  BY <1>1, <1>3 DEF FreshCall
<1>5. NotQueued(c)
  BY <1>1, <1>3, OutOfQueue
<1>6. Both(c) \in SUBSET Slots /\ \A s \in Both(c) : c \in Holders(s)
  BY <1>1, <1>2, <1>4, HeldBy
<1>7. Reported(c)
  <2>0. work \in [Calls -> {"none", "handler", "value", "failed", "cancelled",
                            "normalizer", "normalized", "rejected"}]
    BY <1>1, CallTypes
  <2>1. ASSUME NEW w \in {"value", "failed", "cancelled"},
               work' = [work EXCEPT ![c] = w], LateReport(c, w)
        PROVE  Reported(c)
    <3>1. /\ row' \in [Calls -> Final]
          /\ \A d \in Calls \ {c} : row'[d] = row[d]
          /\ row'[c].reused = row[c].reused
          /\ row'[c].disposition \in {row[c].disposition, "discarded"}
          /\ \A f \in Final : Said(f, row[c]) => Said(f, row'[c])
      BY <1>1, <2>1, LateReportEffect
    <3>2. /\ work' \in [Calls -> {"none", "handler", "value", "failed", "cancelled",
                                  "normalizer", "normalized", "rejected"}]
          /\ work'[c] \notin {"none", "handler", "normalizer"}
          /\ \A d \in Calls \ {c} : work'[d] = work[d]
      BY <2>0, <2>1
    <3>. QED
      BY <3>1, <3>2 DEF Reported
  <2>2. CASE work' = [work EXCEPT ![c] = "normalized"] /\ row' = row
    BY <1>1, <2>0, <2>2, CallTypes DEF Reported
  <2>. QED
    BY <2>1, <2>2 DEF DetachedSettles
<1>8. /\ slot' \in [Slots -> [active : Nat, waiters : Seq(Calls)]]
      /\ pc' \in [Calls -> {"new", "landing"} \union Waits \union Over]
      /\ pc'[c] = pc[c]
      /\ \A d \in Calls \ {c} : Moved(d)
  <2>1. PICK next \in {"new", "landing"} \union Waits \union Over : next = pc[c]
    BY <1>3
  <2>2. Release(Both(c), c, next)
    BY <1>2, <2>1
  <2>. QED
    BY <1>1, <1>5, <1>6, <2>1, <2>2, ReleaseEffect
<1>9. /\ detached' \subseteq Calls /\ c \notin detached'
      /\ \A d \in Calls \ {c} : d \in detached' <=> d \in detached
  BY <1>1, <1>2, CallTypes
<1>10. TypeOK'
  BY Zenon, <1>1, <1>2, <1>7, <1>8, <1>9, CallTypes, RunTypes DEF TypeOK, Reported
<1>11. OthersKeep(c)
  BY <1>2, <1>7, <1>8, <1>9 DEF OthersKeep, Reported
<1>12. QueueInv' /\ HoldInv'
  <2>1. PICK next \in {"landing"} \union Over : next = pc[c]
    BY <1>3
  <2>2. Release(Both(c), c, next)
    BY <1>2, <2>1
  <2>. QED
    BY <1>1, <1>5, <1>6, <1>9, <1>11, <2>2, ReleaseSlots
<1>13. FreshCall(c)'
  BY <1>2, <1>3, <1>4, <1>8 DEF FreshCall
<1>14. settled[c] \in Final
  BY <1>1, CallTypes
<1>15. CallInv(c)'
  BY <1>1, <1>2, <1>3, <1>7, <1>8, <1>9, <1>14 DEF CallInv, Reported
<1>16. Quiet(c)
  BY <1>1, <1>2, <1>3, <1>7, <1>8 DEF Quiet, Published, PublishedThen, Reported, UnderWay, Asked
<1>. QED
  BY <1>2, <1>4, <1>10, <1>11, <1>12, <1>13, <1>15, <1>16, QuietStep

LEMMA AbortKeeps ==
  ASSUME BrokerInv, NEW c \in Calls, NEW kind \in {"timeout", "cancel"}, Abort(c, kind)
  PROVE  BrokerInv'
<1>1. TypeOK /\ QueueInv /\ HoldInv /\ CallInv(c) /\ FreshCall(c)
  BY DEF BrokerInv, CallsInv
<1>2. /\ pc[c] \in Waits /\ signal' = [signal EXCEPT ![c] = kind]
      /\ running' = running /\ used' = used /\ req' = req /\ dedup' = dedup /\ spent' = spent
      /\ pc' = pc /\ life' = life /\ row' = row /\ journal' = journal /\ settled' = settled
      /\ faults' = faults /\ work' = work /\ detached' = detached
  BY DEF Abort, auditVars
<1>3. req[c] # None
  BY <1>2, UnderWayCall
<1>4. /\ slot' \in [Slots -> [active : Nat, waiters : Seq(Calls)]]
      /\ QueueInv' /\ HoldInv'
  BY <1>1, AbortSlots
<1>5. /\ signal' \in [Calls -> {"none", "timeout", "cancel"}]
      /\ \A d \in Calls \ {c} : signal'[d] = signal[d]
  BY <1>1, <1>2, CallTypes
<1>6. TypeOK'
  BY Zenon, <1>1, <1>2, <1>4, <1>5, CallTypes, RunTypes DEF TypeOK
<1>7. OthersKeep(c)
  BY <1>2, <1>5 DEF OthersKeep, Moved
<1>8. pc[c] # "new"
  BY <1>2 DEF Waits
<1>9. FreshCall(c)'
  BY <1>2, <1>3, <1>8 DEF FreshCall
<1>10. CallInv(c)'
  BY <1>1, <1>2 DEF CallInv
<1>11. Quiet(c)
  BY <1>2 DEF Quiet, Published, PublishedThen, UnderWay
<1>. QED
  BY <1>2, <1>3, <1>4, <1>6, <1>7, <1>9, <1>10, <1>11, QuietStep

(* Nothing but the status of a Run changes.                                 *)
SameButRunning ==
  /\ used' = used /\ req' = req /\ dedup' = dedup /\ spent' = spent /\ slot' = slot
  /\ pc' = pc /\ life' = life /\ row' = row /\ journal' = journal /\ settled' = settled
  /\ faults' = faults /\ signal' = signal /\ work' = work /\ detached' = detached

LEMMA RunLeavesKeeps ==
  ASSUME BrokerInv, running' \subseteq running, SameButRunning
  PROVE  BrokerInv'
<1>1. /\ TypeOK /\ CallsInv /\ TracedInv /\ JournalInv /\ DedupInv /\ FollowInv /\ ReuseInv
      /\ BudgetInv /\ QueueInv /\ HoldInv
  BY DEF BrokerInv
<1>2. running' \subseteq Runs
  BY <1>1, RunTypes
<1>3. TypeOK'
  BY Zenon, <1>1, <1>2, CallTypes, RunTypes DEF TypeOK, SameButRunning
<1>4. CallsInv'
  <2>1. ASSUME NEW c \in Calls
        PROVE  FreshCall(c)' /\ CallInv(c)'
    <3>1. FreshCall(c) /\ CallInv(c)
      BY <1>1 DEF CallsInv
    <3>2. FreshCall(c)'
      BY <3>1 DEF FreshCall, SameButRunning
    <3>3. CallInv(c)'
      BY <3>1 DEF CallInv, SameButRunning
    <3>. QED
      BY <3>2, <3>3
  <2>. QED
    BY <2>1 DEF CallsInv
<1>5. TracedInv'
  BY Zenon, <1>1 DEF TracedInv, WasRequested, Position, SameButRunning
<1>6. JournalInv'
  BY <1>1 DEF JournalInv, Position, SameButRunning
<1>13. ASSUME NEW l
       PROVE  /\ Leads(l) => LeadsThen(l)
              /\ Published(l) => PublishedThen(l)
              /\ \A q, k : Newest(l, q, k) => NewestThen(l, q, k)
              /\ \A d : Kin(l, d) => KinThen(l, d)
              /\ \A d : NotOvertaken(l, d) => NotOvertakenThen(l, d)
  <2>1. Leads(l) => LeadsThen(l)
    BY Zenon DEF Leads, LeadsThen, WasRequested, Position, AskedThen, At, SameButRunning
  <2>2. \A q, k : Newest(l, q, k) => NewestThen(l, q, k)
    BY Zenon DEF Newest, NewestThen, Position, AskedThen, At, SameButRunning
  <2>3. \A d : NotOvertaken(l, d) => NotOvertakenThen(l, d)
    <3>1. \A q, d : AskedThen(q, d) = Position(q, "tool.requested", d)
      BY Zenon DEF Position, AskedThen, At, SameButRunning
    <3>2. \A x, d : KinThen(x, d) <=> Kin(x, d)
      BY Zenon DEF Kin, KinThen, SameButRunning
    <3>. QED
      BY <3>1, <3>2 DEF NotOvertaken, NotOvertakenThen, SameButRunning
  <2>4. \A d : Kin(l, d) => KinThen(l, d)
    BY Zenon DEF Kin, KinThen, SameButRunning
  <2>5. Published(l) => PublishedThen(l)
    BY Zenon DEF Published, PublishedThen, SameButRunning
  <2>. QED
    BY <2>1, <2>2, <2>3, <2>4, <2>5
<1>7. DedupInv'
  BY <1>1, <1>13, DedupNext DEF DedupInv, SameButRunning
<1>8. FollowInv'
  BY <1>1, <1>13, FollowNext DEF FollowInv, SameButRunning
<1>9. ReuseInv'
  BY <1>1, <1>13, ReuseNext DEF ReuseInv, SameButRunning
<1>10. BudgetInv'
  BY Zenon, <1>1 DEF BudgetInv, AcceptedOf, SameButRunning
<1>11. QueueInv'
  BY ZenonT(60), <1>1 DEF QueueInv, Both, SameButRunning
<1>12. HoldInv'
  BY Zenon, <1>1 DEF HoldInv, Holders, Both, SameButRunning
<1>. QED
  BY <1>3, <1>4, <1>5, <1>6, <1>7, <1>8, <1>9, <1>10, <1>11, <1>12 DEF BrokerInv

-----------------------------------------------------------------------------
(* runLeaderCall after executePhysical, and the followers.                  *)

(* Only its own in-flight entry is replaced.                                *)
LEMMA ReplaceEffect ==
  ASSUME TypeOK, NEW c \in Calls, req[c] # None, NEW e \in Entry \union {None},
         dedup' = Replace(c, e)
  PROVE  /\ dedup' \in [Runs -> [Keys -> Entry \union {None}]]
         /\ \A q \in Runs, k \in Keys :
              \/ dedup'[q][k] = dedup[q][k]
              \/ dedup[q][k] = Inflight(c) /\ dedup'[q][k] = e
<1>1. PICK r \in Runs, k \in Keys : r = req[c].run /\ k = req[c].key
  BY RequestType
<1>2. CASE dedup[r][k] = Inflight(c)
  <2>1. dedup' = [dedup EXCEPT ![r][k] = e]
    BY Zenon, <1>1, <1>2 DEF Replace
  <2>2. /\ dedup' \in [Runs -> [Keys -> Entry \union {None}]]
        /\ dedup'[r][k] = e
        /\ \A q \in Runs, j \in Keys : (q # r \/ j # k) => dedup'[q][j] = dedup[q][j]
    BY <2>1, EntrySet
  <2>. QED
    BY <1>2, <2>2
<1>3. CASE dedup[r][k] # Inflight(c)
  <2>1. dedup' = dedup
    BY Zenon, <1>1, <1>3 DEF Replace
  <2>. QED
    BY <2>1, RunTypes
<1>. QED
  BY <1>2, <1>3

(* What the end of a call delivers: nothing, its own success, or that of    *)
(* the call it followed.                                                    *)
Delivers(c, r, final) ==
  \/ spent' = spent /\ final.disposition # "accepted" /\ final.reused = None
  \/ /\ spent[r] < MaxOutput /\ spent' = [spent EXCEPT ![r] = @ + 1]
     /\ \/ final.reused = None
        \/ /\ pc[c] = "leader" /\ final.reused = req[c].leader
           /\ Published(req[c].leader)

LEMMA ResumptionEnds ==
  ASSUME BrokerInv, NEW c \in Calls, NEW r \in Runs, NEW final \in Final,
         pc[c] \in {"landing", "leader"}, r = req[c].run,
         CommitFinished(c, r, final, journal[r]), Delivers(c, r, final),
         running' = running, used' = used, req' = req, slot' = slot,
         signal' = signal, work' = work, detached' = detached,
         dedup' \in [Runs -> [Keys -> Entry \union {None}]],
         \A q \in Runs, k \in Keys :
           dedup'[q][k] # None => dedup'[q][k] = dedup[q][k] \/ Publishes(c, q, k)
  PROVE  BrokerInv'
<1>1. TypeOK /\ FreshCall(c) /\ CallInv(c)
  BY DEF BrokerInv, CallsInv
<1>2. req[c] # None
  BY <1>1 DEF FreshCall
<1>3. /\ spent' \in [Runs -> 0 .. MaxOutput]
      /\ \/ spent' = spent /\ final.disposition # "accepted"
         \/ /\ \A q \in Runs \ {r} : spent'[q] = spent[q]
            /\ spent'[r] = spent[r] + 1
  BY <1>1, SpendEffect, RunTypes DEF Delivers
<1>4. final.reused # None => /\ pc[c] = "leader" /\ final.reused = req[c].leader
                             /\ Published(req[c].leader)
  BY DEF Delivers
<1>5. Commits(c, r, FALSE, final)
  BY <1>1, <1>2, <1>3, <1>4, CallTypes, RunTypes DEF Commits, Log
<1>6. /\ TypeOK' /\ OthersKeep(c) /\ QueueInv' /\ HoldInv'
      /\ FreshCall(c)' /\ CallInv(c)'
      /\ \E done \in BOOLEAN : Books(c, r, FALSE, done, final)
      /\ \/ /\ pc'[c] = "returned" /\ row'[c] = final /\ settled'[c] = final
         \/ /\ pc'[c] = "threw" /\ row'[c] = row[c] /\ settled'[c] = settled[c]
  BY <1>5, CommitKeeps
<1>7. Spends(c, r)
  BY <1>3, <1>6 DEF Spends
<1>8. row'[c].reused # None => \/ row'[c].reused = row[c].reused
                               \/ /\ pc[c] = "leader" /\ row'[c].reused = req[c].leader
                                  /\ Published(req[c].leader)
  BY <1>4, <1>6
<1>9. Table(c, r, FALSE)
  BY <1>2, <1>4, <1>6, <1>8 DEF Table, Published
<1>. QED
  BY <1>6, <1>7, <1>9, StepKeeps

LEMMA LandFailedKeeps ==
  ASSUME BrokerInv, NEW c \in Calls, LandFailed(c)
  PROVE  BrokerInv'
<1>1. TypeOK /\ FreshCall(c) /\ CallInv(c)
  BY DEF BrokerInv, CallsInv
<1>2. /\ pc[c] = "landing" /\ dedup' = Replace(c, None) /\ spent' = spent
      /\ running' = running /\ used' = used /\ req' = req /\ slot' = slot
      /\ signal' = signal /\ work' = work /\ detached' = detached
  BY DEF LandFailed, callVars
<1>3. req[c] # None
  BY <1>1, <1>2 DEF FreshCall
<1>4. PICK r \in Runs : r = req[c].run
  BY <1>1, <1>3, RequestType
<1>5. PICK e \in Entry \union {None} : e = None
  OBVIOUS
<1>6. /\ dedup' \in [Runs -> [Keys -> Entry \union {None}]]
      /\ \A q \in Runs, k \in Keys :
           \/ dedup'[q][k] = dedup[q][k]
           \/ dedup[q][k] = Inflight(c) /\ dedup'[q][k] = e
  BY <1>1, <1>2, <1>3, <1>5, ReplaceEffect
<1>7. PICK final \in Final : /\ CommitFinished(c, r, final, journal[r])
                             /\ final.disposition # "accepted" /\ final.reused = None
  <2>1. CASE settled[c] # Success /\ CommitFinished(c, r, settled[c], journal[r])
    <3>1. settled[c] \in Final
      BY <1>1, CallTypes
    <3>. QED
      BY <1>1, <1>2, <2>1, <3>1 DEF CallInv
  <2>2. CASE CommitFinished(c, r, Outcome("cancelled", "succeeded", "discarded"), journal[r])
    BY <2>2, OutcomeType
  <2>3. ASSUME NEW d \in {"none", "discarded"},
               CommitFinished(c, r, Outcome("failed", "succeeded", d), journal[r])
        PROVE  \E final \in Final : /\ CommitFinished(c, r, final, journal[r])
                                    /\ final.disposition # "accepted" /\ final.reused = None
    BY <2>3, OutcomeType
  <2>. QED
    BY <1>4, <2>1, <2>2, <2>3 DEF LandFailed
<1>8. Delivers(c, r, final)
  BY <1>2, <1>7 DEF Delivers
<1>9. \A q \in Runs, k \in Keys :
        dedup'[q][k] # None => dedup'[q][k] = dedup[q][k] \/ Publishes(c, q, k)
  BY <1>5, <1>6
<1>. QED
  BY <1>2, <1>4, <1>6, <1>7, <1>8, <1>9, ResumptionEnds

LEMMA LandAcceptedKeeps ==
  ASSUME BrokerInv, NEW c \in Calls, LandAccepted(c)
  PROVE  BrokerInv'
<1>1. TypeOK /\ FreshCall(c)
  BY DEF BrokerInv, CallsInv
<1>2. pc[c] = "landing"
  BY DEF LandAccepted
<1>3. req[c] # None
  BY <1>1, <1>2 DEF FreshCall
<1>4. PICK r \in Runs : r = req[c].run
  BY <1>1, <1>3, RequestType
<1>5. PICK final \in Final : final = Success /\ final.reused = None
  BY FixedOutcomes
<1>6. PICK e \in Entry \union {None} :
        e = IF pc'[c] = "returned" THEN [leader |-> c, done |-> TRUE] ELSE None
  BY EntryType
<1>7. /\ spent[r] < MaxOutput /\ spent' = [spent EXCEPT ![r] = @ + 1]
      /\ CommitFinished(c, r, final, journal[r])
      /\ running' = running /\ used' = used /\ req' = req /\ slot' = slot
      /\ signal' = signal /\ work' = work /\ detached' = detached
  BY <1>4, <1>5 DEF LandAccepted, callVars
<1>8. dedup' = Replace(c, e)
  BY <1>6 DEF LandAccepted
<1>9. /\ dedup' \in [Runs -> [Keys -> Entry \union {None}]]
      /\ \A q \in Runs, k \in Keys :
           \/ dedup'[q][k] = dedup[q][k]
           \/ dedup[q][k] = Inflight(c) /\ dedup'[q][k] = e
  BY <1>1, <1>3, <1>8, ReplaceEffect
<1>10. pc'[c] = "returned" => PublishedThen(c)
  <2>1. journal[r] \in Seq(Event)
    BY <1>1, RunTypes
  <2>2. Ends(c, r, final, journal[r]) \/ Fails(c, r, journal[r])
    BY <1>1, <1>7, <2>1, CommitEffect
  <2>. QED
    BY <1>5, <2>2 DEF Ends, Fails, PublishedThen
<1>11. \A q \in Runs, k \in Keys :
         dedup'[q][k] # None => dedup'[q][k] = dedup[q][k] \/ Publishes(c, q, k)
  BY <1>6, <1>9, <1>10 DEF Publishes
<1>12. Delivers(c, r, final)
  BY <1>5, <1>7 DEF Delivers
<1>. QED
  BY <1>2, <1>4, <1>7, <1>9, <1>11, <1>12, ResumptionEnds

LEMMA FollowerResumesKeeps ==
  ASSUME BrokerInv, NEW c \in Calls, FollowerResumes(c)
  PROVE  BrokerInv'
<1>1. TypeOK /\ FreshCall(c) /\ FollowInv
  BY DEF BrokerInv, CallsInv
<1>2. /\ pc[c] = "leader"
      /\ running' = running /\ used' = used /\ req' = req /\ dedup' = dedup /\ slot' = slot
      /\ signal' = signal /\ work' = work /\ detached' = detached
  BY DEF FollowerResumes, callVars
<1>3. req[c] # None
  BY <1>1, <1>2 DEF FreshCall
<1>4. PICK r \in Runs : r = req[c].run
  BY <1>1, <1>3, RequestType
<1>5. PICK l \in Calls : l = req[c].leader /\ Leads(l)
  BY Zenon, <1>1, <1>2 DEF FollowInv
<1>6. PICK final \in Final : CommitFinished(c, r, final, journal[r]) /\ Delivers(c, r, final)
  <2>1. CASE CommitFinished(c, r, Aborted(c, None, "none"), journal[r]) /\ spent' = spent
    <3>1. PICK final \in Final : /\ final = Aborted(c, None, "none")
                                 /\ final.disposition = "none" /\ final.reused = None
      BY AbortedType
    <3>. QED
      BY <2>1, <3>1 DEF Delivers
  <2>2. CASE CommitFinished(c, r, Outcome("cancelled", None, "none"), journal[r])
             /\ spent' = spent
    <3>1. PICK final \in Final : /\ final = Outcome("cancelled", None, "none")
                                 /\ final.disposition = "none" /\ final.reused = None
      BY OutcomeType
    <3>. QED
      BY <2>2, <3>1 DEF Delivers
  <2>3. CASE pc[l] = "returned" /\ settled[l] = Success /\ DeliverReuse(c, r, l, journal[r])
    <3>1. CASE /\ spent[r] < MaxOutput /\ spent' = [spent EXCEPT ![r] = @ + 1]
               /\ CommitFinished(c, r, Reuse(l), journal[r])
      <4>1. PICK final \in Final : final = Reuse(l) /\ final.reused = l
        BY FixedOutcomes
      <4>2. Published(req[c].leader)
        BY <1>5, <2>3 DEF Published
      <4>. QED
        BY <1>2, <1>5, <3>1, <4>1, <4>2 DEF Delivers
    <3>2. ASSUME NEW d \in {"none", "discarded"}, spent' = spent,
                 CommitFinished(c, r, Outcome("failed", "succeeded", d), journal[r])
          PROVE  \E final \in Final :
                   CommitFinished(c, r, final, journal[r]) /\ Delivers(c, r, final)
      <4>1. PICK final \in Final : /\ final = Outcome("failed", "succeeded", d)
                                   /\ final.disposition = d /\ final.reused = None
        BY OutcomeType
      <4>. QED
        BY <3>2, <4>1 DEF Delivers
    <3>. QED
      BY <2>3, <3>1, <3>2 DEF DeliverReuse
  <2>4. CASE /\ CommitFinished(c, r, [settled[l] EXCEPT !.disposition = "none"], journal[r])
             /\ spent' = spent
    <3>1. settled[l] \in Final /\ settled[l].reused = None
      BY <1>1, <1>5, CallTypes DEF Leads
    <3>2. PICK final : final = [settled[l] EXCEPT !.disposition = "none"]
      OBVIOUS
    <3>3. final \in Final /\ final.disposition = "none" /\ final.reused = None
      BY <3>1, <3>2 DEF Final
    <3>. QED
      BY <2>4, <3>2, <3>3 DEF Delivers
  <2>. QED
    BY <1>4, <1>5, <2>1, <2>2, <2>3, <2>4 DEF FollowerResumes
<1>7. dedup' \in [Runs -> [Keys -> Entry \union {None}]]
  BY <1>1, <1>2, RunTypes
<1>. QED
  BY <1>2, <1>4, <1>6, <1>7, ResumptionEnds

-----------------------------------------------------------------------------
(* The invariant holds.                                                     *)

LEMMA InitKeeps ==
  ASSUME Init
  PROVE  BrokerInv
<1>1. /\ running = Runs /\ used = [r \in Runs |-> 0] /\ life = [c \in Calls |-> "none"]
      /\ row = [c \in Calls |-> Blank] /\ journal = [r \in Runs |-> << >>]
      /\ req = [c \in Calls |-> None] /\ dedup = [r \in Runs |-> [k \in Keys |-> None]]
      /\ spent = [r \in Runs |-> 0] /\ pc = [c \in Calls |-> "new"]
      /\ signal = [c \in Calls |-> "none"] /\ work = [c \in Calls |-> "none"]
      /\ detached = {} /\ settled = [c \in Calls |-> Blank] /\ faults = 0
      /\ slot = [s \in Slots |-> [active |-> 0, waiters |-> << >>]]
  BY DEF Init
<1>2. /\ \A c \in Calls : /\ life[c] = "none" /\ row[c] = Blank /\ req[c] = None /\ pc[c] = "new"
                          /\ signal[c] = "none" /\ work[c] = "none" /\ settled[c] = Blank
      /\ \A r \in Runs : journal[r] = << >> /\ spent[r] = 0
      /\ \A r \in Runs, k \in Keys : dedup[r][k] = None
      /\ \A s \in Slots : slot[s].active = 0 /\ slot[s].waiters = << >>
  BY <1>1
<1>3. Blank \in Final /\ Blank.disposition = "none" /\ Blank.reused = None
  BY FixedOutcomes
<1>4. TypeOK
  <2>1. << >> \in Seq(Event) /\ << >> \in Seq(Calls)
    BY EmptySeq
  <2>2. /\ used \in [Runs -> 0 .. MaxRequests] /\ spent \in [Runs -> 0 .. MaxOutput]
        /\ faults \in 0 .. MaxFaults
    BY <1>1, BrokerAssumption
  <2>3. [active |-> 0, waiters |-> << >>] \in [active : Nat, waiters : Seq(Calls)]
    BY <2>1
  <2>4. slot \in [Slots -> [active : Nat, waiters : Seq(Calls)]]
    BY <1>1, <2>3
  <2>5. /\ life \in [Calls -> {"none", "requested", "running", "finished"}]
        /\ row \in [Calls -> Final] /\ settled \in [Calls -> Final]
        /\ req \in [Calls -> Request \union {None}]
        /\ pc \in [Calls -> {"new", "landing"} \union Waits \union Over]
        /\ signal \in [Calls -> {"none", "timeout", "cancel"}]
        /\ work \in [Calls -> {"none", "handler", "value", "failed", "cancelled",
                               "normalizer", "normalized", "rejected"}]
    BY <1>1, <1>3
  <2>6. journal \in [Runs -> Seq(Event)] /\ dedup \in [Runs -> [Keys -> Entry \union {None}]]
    BY <1>1, <2>1
  <2>. QED
    BY <1>1, <2>2, <2>4, <2>5, <2>6 DEF TypeOK
<1>5. CallsInv
  BY <1>1, <1>2, <1>3 DEF CallsInv, FreshCall, CallInv
<1>6. TracedInv
  BY <1>2, <1>3 DEF TracedInv, Asked, Waits
<1>7. \A r \in Runs : \A type, c : Position(r, type, c) = {}
  BY <1>2, EmptySeq DEF Position
<1>8. JournalInv
  BY <1>2, <1>7 DEF JournalInv
<1>9. DedupInv /\ FollowInv /\ ReuseInv
  BY <1>2, <1>3 DEF DedupInv, FollowInv, ReuseInv
<1>10. IsFiniteSet({}) /\ Cardinality({}) = 0
  BY FS_EmptySet
<1>11. BudgetInv
  <2>1. \A r \in Runs : AcceptedOf(r) = {}
    BY <1>2 DEF AcceptedOf
  <2>2. \A r \in Runs : IsFiniteSet(AcceptedOf(r)) /\ Cardinality(AcceptedOf(r)) = 0
    BY Zenon, <1>10, <2>1
  <2>. QED
    BY <1>2, <2>2 DEF BudgetInv
<1>12. QueueInv
  BY <1>2, EmptySeq DEF QueueInv
<1>13. HoldInv
  <2>1. \A s \in Slots : Holders(s) = {}
    BY <1>2 DEF Holders
  <2>2. \A s \in Slots : Capacity(s) \in Nat
    BY <1>4, SlotTypes
  <2>3. \A s \in Slots : IsFiniteSet(Holders(s)) /\ Cardinality(Holders(s)) = 0
    BY Zenon, <1>10, <2>1
  <2>. QED
    BY <1>2, <2>2, <2>3 DEF HoldInv
<1>. QED
  BY <1>4, <1>5, <1>6, <1>8, <1>9, <1>11, <1>12, <1>13 DEF BrokerInv

LEMMA NextKeeps ==
  ASSUME BrokerInv, [Next]_vars
  PROVE  BrokerInv'
<1>1. ASSUME NEW c \in Calls, Invoke(c)
      PROVE  BrokerInv'
  <2>1. PICK r \in Runs, k \in Keys :
          \/ InvokeOverBudget(c, r, k) \/ InvokeNotRunning(c, r, k) \/ InvokeUnrecorded(c, r, k)
          \/ InvokeRefused(c, r, k) \/ InvokeReuses(c, r, k) \/ InvokeCoalesces(c, r, k)
          \/ \E b \in BOOLEAN : InvokeLeads(c, r, k, b)
    BY <1>1 DEF Invoke
  <2>2. ASSUME NEW b \in BOOLEAN, InvokeLeads(c, r, k, b)
        PROVE  BrokerInv'
    BY <2>2, LeadsKeeps
  <2>. QED
    BY <2>1, <2>2, OverBudgetKeeps, NotRunningKeeps, UnrecordedKeeps, RefusedKeeps, ReusesKeeps,
       CoalescesKeeps
<1>2. ASSUME NEW c \in Calls, Resume(c)
      PROVE  BrokerInv'
  BY <1>2, QueueAbortedKeeps, TakeProcessSlotKeeps, StartHandlerKeeps, DoNotStartKeeps,
     StartFailsKeeps, DetachHandlerKeeps, HandlerFailedKeeps, NormalizeKeeps,
     DetachNormalizerKeeps, OutputCheckedKeeps, LandFailedKeeps, LandAcceptedKeeps,
     FollowerResumesKeeps DEF Resume
<1>3. ASSUME NEW c \in Calls, NEW kind \in {"timeout", "cancel"}, Abort(c, kind)
      PROVE  BrokerInv'
  BY <1>3, AbortKeeps
<1>4. ASSUME NEW c \in Calls, WorkSettles(c)
      PROVE  BrokerInv'
  BY <1>4, WorkSettlesKeeps
<1>5. ASSUME NEW c \in Calls, DetachedSettles(c)
      PROVE  BrokerInv'
  BY <1>5, DetachedSettlesKeeps
<1>6. ASSUME NEW r \in Runs, RunLeaves(r)
      PROVE  BrokerInv'
  <2>1. running' \subseteq running /\ SameButRunning
    BY <1>6 DEF RunLeaves, SameButRunning, auditVars, callVars
  <2>. QED
    BY <2>1, RunLeavesKeeps
<1>7. CASE UNCHANGED vars
  <2>1. running' \subseteq running /\ SameButRunning
    BY <1>7 DEF vars, SameButRunning, auditVars, callVars
  <2>. QED
    BY <2>1, RunLeavesKeeps
<1>8. CASE Next
  BY <1>1, <1>2, <1>3, <1>4, <1>5, <1>6, <1>8 DEF Next
<1>. QED
  BY <1>7, <1>8

(* The inductive invariant holds in every reachable state: the types, the   *)
(* place of each call against its row and its work, the journal, the        *)
(* deduplication table, the budget, the queues and the holders of slots.    *)
THEOREM BrokerInvariance == Spec => []BrokerInv
<1>1. Init => BrokerInv
  BY InitKeeps
<1>2. BrokerInv /\ [Next]_vars => BrokerInv'
  BY NextKeeps
<1>. QED
  BY <1>1, <1>2, PTL DEF Spec

(* The variables of the broker keep their types: the request and output     *)
(* budgets are never exceeded, whatever reserves them.                      *)
THEOREM BrokerTypeCorrect == Spec => []TypeOK
<1>1. BrokerInv => TypeOK
  BY DEF BrokerInv
<1>. QED
  BY <1>1, BrokerInvariance, PTL

-----------------------------------------------------------------------------
(* What the invariant says.                                                 *)

LEMMA CapsHold ==
  ASSUME BrokerInv
  PROVE  CapsRespected
<1>1. TypeOK /\ CallsInv /\ HoldInv
  BY DEF BrokerInv
<1>. DEFINE busy == {c \in Calls : work[c] \in {"handler", "normalizer"}}
            busyOf(r) == {c \in busy : req[c].run = r}
<1>2. ASSUME NEW c \in busy
      PROVE  /\ c \in Calls /\ req[c] # None
             /\ c \in detached \/ pc[c] \in {"handler", "normalizer"}
  BY <1>1, <1>2 DEF CallsInv, FreshCall, CallInv
<1>3. busy \subseteq Holders("process")
  BY <1>2, HoldersDef
<1>4. ASSUME NEW r \in Runs
      PROVE  busyOf(r) \subseteq Holders(r)
  BY <1>2, HoldersDef
<1>. HIDE DEF busy, busyOf
<1>5. Cardinality(busy) <= MaxProcess
  <2>1. PICK s \in Slots : s = "process" /\ Capacity(s) = MaxProcess
    BY DEF Slots, Capacity
  <2>2. busy \subseteq Holders(s)
    BY <1>3, <2>1
  <2>3. /\ IsFiniteSet(Holders(s)) /\ Cardinality(Holders(s)) \in Nat
        /\ Cardinality(Holders(s)) <= Capacity(s) /\ Capacity(s) \in Nat
    BY <1>1, HoldTypes
  <2>4. Cardinality(busy) \in Nat /\ Cardinality(busy) <= Cardinality(Holders(s))
    BY <2>2, <2>3, CardSub
  <2>. QED
    BY <2>1, <2>3, <2>4
<1>6. ASSUME NEW r \in Runs
      PROVE  Cardinality(busyOf(r)) <= MaxPerRun
  <2>1. r \in Slots /\ Capacity(r) = MaxPerRun
    BY BrokerAssumption DEF Slots, Capacity
  <2>2. /\ IsFiniteSet(Holders(r)) /\ Cardinality(Holders(r)) \in Nat
        /\ Cardinality(Holders(r)) <= Capacity(r) /\ Capacity(r) \in Nat
    BY <1>1, <2>1, HoldTypes
  <2>3. /\ Cardinality(busyOf(r)) \in Nat
        /\ Cardinality(busyOf(r)) <= Cardinality(Holders(r))
    BY <1>4, <2>2, CardSub
  <2>. QED
    BY <2>1, <2>2, <2>3
<1>. QED
  BY <1>5, <1>6 DEF CapsRespected, busy, busyOf

(* A set of at most one element.                                            *)
LEMMA AtMostOne ==
  ASSUME NEW S, \A i, j \in S : i = j
  PROVE  Cardinality(S) <= 1
<1>1. CASE S = {}
  BY <1>1, FS_EmptySet
<1>2. CASE S # {}
  <2>1. PICK i : S = {i}
    BY <1>2
  <2>2. Cardinality({i}) = 1
    BY FS_Singleton
  <2>. QED
    BY <2>1, <2>2
<1>. QED
  BY <1>1, <1>2

LEMMA AuditHolds ==
  ASSUME BrokerInv
  PROVE  AuditAgrees
<1>1. TypeOK /\ CallsInv /\ JournalInv
  BY DEF BrokerInv
<1>2. ASSUME NEW c \in Calls, NEW r \in Runs
      PROVE  LET done == Position(r, "tool.completed", c)
             IN /\ Cardinality(done) <= 1
                /\ \A i \in done :
                     LET final == journal[r][i].final
                     IN /\ req[c].run = r
                        /\ life[c] = "finished"
                        /\ \/ row[c] = final
                           \/ /\ final.reported = None
                              /\ \E w \in {"succeeded", "failed", "cancelled"} :
                                   row[c] = [final EXCEPT !.reported = w,
                                                          !.disposition = "discarded"]
                /\ (life[c] = "finished" /\ req[c].run = r /\ done = {}) => r \notin running
  <2>1. PICK done : done = Position(r, "tool.completed", c)
    OBVIOUS
  <2>2. /\ done # {} => req[c].run = r
        /\ \A i, j \in done : i = j
        /\ \A i \in done : life[c] = "finished" /\ journal[r][i].final = settled[c]
        /\ (life[c] = "finished" /\ req[c].run = r /\ done = {}) => r \notin running
    BY <1>1, <2>1 DEF JournalInv
  <2>3. Cardinality(done) <= 1
    BY <2>2, AtMostOne
  <2>4. ASSUME NEW i \in done
        PROVE  /\ req[c].run = r /\ life[c] = "finished"
               /\ Said(journal[r][i].final, row[c])
    <3>1. life[c] = "finished" /\ journal[r][i].final = settled[c] /\ req[c].run = r
      BY <2>2
    <3>2. Said(settled[c], row[c])
      BY <1>1, <3>1 DEF CallsInv, CallInv
    <3>. QED
      BY <3>1, <3>2
  <2>. QED
    BY Zenon, <2>1, <2>2, <2>3, <2>4 DEF Said
<1>. QED
  BY Zenon, <1>2 DEF AuditAgrees

(* The broker's books and bounds, for any caps and any number of Runs and   *)
(* calls: work in progress, detached work included, stays within the caps;  *)
(* a call has at most one completed event, which its row agrees with; no    *)
(* handler runs without a durable requested event.                          *)
THEOREM BrokerSound == Spec => []BrokerSafe
<1>1. BrokerInv => WorkWasRequested
  BY DEF BrokerInv, TracedInv, WorkWasRequested
<1>2. BrokerInv => BrokerSafe
  BY <1>1, CapsHold, AuditHolds DEF BrokerSafe
<1>. QED
  BY <1>2, BrokerInvariance, PTL

LEMMA ReuseGrounded ==
  ASSUME BrokerInv
  PROVE  ReuseIsGrounded
<1>1. TypeOK /\ CallsInv /\ ReuseInv
  BY DEF BrokerInv
<1>2. ASSUME NEW c \in Calls, row[c].reused # None
      PROVE  LET l == row[c].reused
             IN /\ req[l].run = req[c].run /\ req[l].key = req[c].key
                /\ life[l] = "finished" /\ row[l] = Success
  <2>1. PICK l \in Calls : l = row[c].reused
    BY <1>1, <1>2, CallTypes DEF Final
  <2>2. Kin(l, c) /\ Published(l)
    BY Zenon, <1>1, <1>2, <2>1 DEF ReuseInv
  <2>3. pc[l] = "returned" /\ settled[l] = Success
    BY <2>2 DEF Published
  <2>4. life[l] = "finished" /\ Said(Success, row[l])
    BY <1>1, <2>3 DEF CallsInv, CallInv
  <2>5. row[l] = Success
    BY <2>4, FixedOutcomes, NoneAssumption DEF Said
  <2>. QED
    BY <2>1, <2>2, <2>4, <2>5 DEF Kin
<1>. QED
  BY Zenon, <1>2 DEF ReuseIsGrounded

LEMMA RefreshHolds ==
  ASSUME BrokerInv
  PROVE  RefreshIsHonoured
<1>1. TypeOK /\ CallsInv /\ TracedInv /\ ReuseInv
  BY DEF BrokerInv
<1>2. SUFFICES ASSUME NEW c \in Calls, NEW x \in Calls, row[c].reused # None, WasRequested(x),
                      req[x].refresh, req[x].run = req[c].run, req[x].key = req[c].key
               PROVE  LET r == req[c].run
                          at(d) == CHOOSE i \in Position(r, "tool.requested", d) : TRUE
                      IN ~ (at(row[c].reused) < at(x) /\ at(x) < at(c))
  BY Zenon DEF RefreshIsHonoured
<1>3. PICK l \in Calls : l = row[c].reused
  BY <1>1, <1>2, CallTypes DEF Final
<1>4. Kin(l, c) /\ Leads(l) /\ NotOvertaken(l, c)
  BY Zenon, <1>1, <1>2, <1>3 DEF ReuseInv
<1>5. WasRequested(c)
  BY <1>1, <1>2 DEF TracedInv
<1>6. WasRequested(l)
  BY <1>4 DEF Leads
<1>7. PICK r : r = req[c].run
  OBVIOUS
<1>8. /\ Position(r, "tool.requested", l) # {} /\ Position(r, "tool.requested", x) # {}
      /\ Position(r, "tool.requested", c) # {}
  BY <1>2, <1>4, <1>5, <1>6, <1>7 DEF WasRequested, Kin
<1>9. PICK i, j, m : /\ i = CHOOSE n \in Position(r, "tool.requested", l) : TRUE
                     /\ j = CHOOSE n \in Position(r, "tool.requested", x) : TRUE
                     /\ m = CHOOSE n \in Position(r, "tool.requested", c) : TRUE
  OBVIOUS
<1>10. /\ i \in Position(r, "tool.requested", l) /\ j \in Position(r, "tool.requested", x)
       /\ m \in Position(r, "tool.requested", c)
  BY <1>8, <1>9
<1>11. req[x] # None /\ Kin(x, c)
  BY <1>2 DEF WasRequested, Kin
<1>12. ~ (i < j /\ j < m)
  BY <1>2, <1>4, <1>7, <1>10, <1>11 DEF NotOvertaken
<1>. QED
  BY Zenon, <1>3, <1>7, <1>9, <1>12

LEMMA BudgetHolds ==
  ASSUME BrokerInv
  PROVE  OutputWithinBudget
<1>1. TypeOK /\ BudgetInv
  BY DEF BrokerInv
<1>2. ASSUME NEW r \in Runs
      PROVE  Cardinality(AcceptedOf(r)) <= MaxOutput
  <2>1. IsFiniteSet(AcceptedOf(r)) /\ Cardinality(AcceptedOf(r)) <= spent[r]
    BY <1>1 DEF BudgetInv
  <2>2. Cardinality(AcceptedOf(r)) \in Nat
    BY <2>1, FS_CardinalityType
  <2>3. spent[r] \in 0 .. MaxOutput
    BY <1>1, RunTypes
  <2>. QED
    BY <2>1, <2>2, <2>3, BrokerAssumption
<1>. QED
  BY Zenon, <1>2 DEF OutputWithinBudget, AcceptedOf

(* Reuse is sound for any number of calls, keys and refreshes: a reused     *)
(* result is a committed success of the same Run and key, a refresh is not  *)
(* undone by what it was to replace, and reused results count.              *)
THEOREM ReuseSound == Spec => []ReuseSafe
<1>1. BrokerInv => ReuseSafe
  BY ReuseGrounded, RefreshHolds, BudgetHolds, AuditHolds DEF ReuseSafe
<1>. QED
  BY <1>1, BrokerInvariance, PTL

-----------------------------------------------------------------------------
(* A Run that has left.                                                     *)

(* What a step leaves alone in the Runs that have left.                     *)
LeftAlone ==
  \A r \in Runs \ running :
    /\ journal'[r] = journal[r]
    /\ \A c \in Calls :
         (req'[c] # None /\ req'[c].run = r) =>
           /\ row'[c].disposition = "accepted" => row[c].disposition = "accepted"
           /\ work'[c] = "handler" => work[c] = "handler"

(* The call finishes in a Run that is running, or writes no event and       *)
(* delivers nothing.                                                        *)
Checked(c, r, final, log) ==
  r \notin running => log = journal[r] /\ final.disposition # "accepted"

LEMMA CommitLeaves ==
  ASSUME TypeOK, NEW c \in Calls, NEW r \in Runs, NEW final \in Final, NEW log \in Seq(Event),
         CommitFinished(c, r, final, log), Checked(c, r, final, log),
         req'[c].run = r, work' = work
  PROVE  LeftAlone
<1>1. /\ \A q \in Runs \ {r} : journal'[q] = journal[q]
      /\ \A d \in Calls \ {c} : row'[d] = row[d]
      /\ Ends(c, r, final, log) \/ Fails(c, r, log)
  BY CommitEffect
<1>2. r \notin running => journal'[r] = journal[r] /\ row'[c].disposition # "accepted"
  BY <1>1 DEF Ends, Fails, Checked
<1>. QED
  BY <1>1, <1>2 DEF LeftAlone

(* A step that writes no event and delivers nothing.                        *)
LEMMA QuietLeaves ==
  ASSUME \A r \in Runs \ running : journal'[r] = journal[r],
         \A d \in Calls : row'[d].disposition = "accepted" => row[d].disposition = "accepted",
         \A d \in Calls : work'[d] = "handler" => work[d] = "handler" \/ req'[d].run \in running
  PROVE  LeftAlone
  BY DEF LeftAlone

(* The log of a call, asked for in a running Run.                           *)
LEMMA AskedLog ==
  ASSUME TypeOK, NEW c \in Calls, NEW r \in Runs
  PROVE  /\ journal[r] \in Seq(Event)
         /\ Append(journal[r], Requested(c)) \in Seq(Event)
<1>1. journal[r] \in Seq(Event)
  BY RunTypes
<1>. QED
  BY <1>1, EventType, AppendProperties

LEMMA InvokeLeaves ==
  ASSUME BrokerInv, NEW c \in Calls, Invoke(c)
  PROVE  LeftAlone
<1>1. TypeOK
  BY DEF BrokerInv
<1>2. PICK r \in Runs, k \in Keys :
        \/ InvokeOverBudget(c, r, k) \/ InvokeNotRunning(c, r, k) \/ InvokeUnrecorded(c, r, k)
        \/ InvokeRefused(c, r, k) \/ InvokeReuses(c, r, k) \/ InvokeCoalesces(c, r, k)
        \/ \E b \in BOOLEAN : InvokeLeads(c, r, k, b)
  BY DEF Invoke
<1>3. journal[r] \in Seq(Event) /\ Append(journal[r], Requested(c)) \in Seq(Event)
  BY <1>1, AskedLog
<1>4. ASSUME Arrives(c, r, k, FALSE, None)
      PROVE  req'[c].run = r
  BY <1>4, ArrivesEffect
<1>5. ASSUME InvokeOverBudget(c, r, k) \/ InvokeNotRunning(c, r, k)
      PROVE  LeftAlone
  <2>1. /\ Arrives(c, r, k, FALSE, None) /\ work' = work
        /\ \E a \in {"failed", "cancelled"} :
             CommitFinished(c, r, Outcome(a, None, "none"), journal[r])
    BY <1>5 DEF InvokeOverBudget, InvokeNotRunning, callVars
  <2>2. PICK final \in Final : /\ CommitFinished(c, r, final, journal[r])
                               /\ final.disposition = "none"
    BY <2>1, OutcomeType
  <2>. QED
    BY <1>1, <1>3, <1>4, <2>1, <2>2, CommitLeaves DEF Checked
<1>6. CASE InvokeUnrecorded(c, r, k)
  <2>1. Throws(c) /\ journal' = journal /\ work' = work
    BY <1>6 DEF InvokeUnrecorded, callVars
  <2>2. row' = row
    BY <1>1, <2>1, ThrowsEffect
  <2>. QED
    BY <2>1, <2>2, QuietLeaves
<1>7. CASE InvokeRefused(c, r, k)
  <2>1. /\ r \in running /\ Arrives(c, r, k, FALSE, None) /\ work' = work
        /\ CommitFinished(c, r, Outcome("denied", None, "none"),
                          Append(journal[r], Requested(c)))
    BY <1>7 DEF InvokeRefused, callVars
  <2>2. PICK final \in Final : CommitFinished(c, r, final, Append(journal[r], Requested(c)))
    BY <2>1, OutcomeType
  <2>. QED
    BY <1>1, <1>3, <1>4, <2>1, <2>2, CommitLeaves DEF Checked
<1>8. CASE InvokeReuses(c, r, k)
  <2>1. /\ r \in running /\ Arrives(c, r, k, FALSE, None) /\ work' = work
        /\ dedup[r][k] # None
        /\ DeliverReuse(c, r, dedup[r][k].leader, Append(journal[r], Requested(c)))
    BY <1>8 DEF InvokeReuses, callVars
  <2>2. PICK l \in Calls : l = dedup[r][k].leader
    BY <1>1, <2>1, RunTypes DEF Entry
  <2>3. PICK final \in Final : CommitFinished(c, r, final, Append(journal[r], Requested(c)))
    BY <2>1, <2>2, OutcomeType, FixedOutcomes DEF DeliverReuse
  <2>. QED
    BY <1>1, <1>3, <1>4, <2>1, <2>3, CommitLeaves DEF Checked
<1>9. ASSUME InvokeCoalesces(c, r, k) \/ \E b \in BOOLEAN : InvokeLeads(c, r, k, b)
      PROVE  LeftAlone
  <2>1. /\ r \in running /\ work' = work /\ row' = row
        /\ journal' = [journal EXCEPT ![r] = Append(@, Requested(c))]
    BY <1>9 DEF InvokeCoalesces, InvokeLeads, callVars
  <2>2. \A q \in Runs \ {r} : journal'[q] = journal[q]
    BY <1>1, <2>1, RunTypes
  <2>. QED
    BY <2>1, <2>2, QuietLeaves
<1>. QED
  BY <1>2, <1>5, <1>6, <1>7, <1>8, <1>9

LEMMA LateLeaves ==
  ASSUME TypeOK, NEW c \in Calls, NEW w \in {"value", "failed", "cancelled"}, LateReport(c, w)
  PROVE  \A d \in Calls : row'[d].disposition = "accepted" => row[d].disposition = "accepted"
<1>1. /\ \A d \in Calls \ {c} : row'[d] = row[d]
      /\ row'[c].disposition \in {row[c].disposition, "discarded"}
  BY LateReportEffect
<1>. QED
  BY <1>1

(* The steps of executePhysical.                                            *)
LEMMA PhysicalLeaves ==
  ASSUME BrokerInv, NEW c \in Calls,
         \/ QueueAborted(c) \/ TakeProcessSlot(c) \/ StartHandler(c) \/ DoNotStart(c)
         \/ StartFails(c) \/ DetachHandler(c) \/ HandlerFailed(c) \/ Normalize(c)
         \/ DetachNormalizer(c) \/ OutputChecked(c)
  PROVE  LeftAlone
<1>1. TypeOK /\ CallInv(c)
  BY DEF BrokerInv, CallsInv
<1>2. journal' = journal
  BY DEF QueueAborted, TakeProcessSlot, StartHandler, DoNotStart, StartFails, DetachHandler,
         HandlerFailed, Normalize, DetachNormalizer, OutputChecked, auditVars
<1>3. CASE StartHandler(c)
  <2>1. row' = row /\ req' = req /\ req[c].run \in running /\ work' = [work EXCEPT ![c] = "handler"]
    BY <1>3 DEF StartHandler, MayStart
  <2>2. \A d \in Calls \ {c} : work'[d] = work[d]
    BY <1>1, <2>1, CallTypes
  <2>. QED
    BY <1>2, <2>1, <2>2, QuietLeaves
<1>4. CASE StartFails(c)
  <2>1. Throws(c) /\ work' = work
    BY <1>4 DEF StartFails, callVars
  <2>2. row' = row
    BY <1>1, <2>1, ThrowsEffect
  <2>. QED
    BY <1>2, <2>1, <2>2, QuietLeaves
<1>5. CASE DetachHandler(c)
  <2>1. work' = work /\ pc[c] = "handler"
    BY <1>5 DEF DetachHandler
  <2>2. row' = row \/ (work[c] # "handler" /\ LateReport(c, work[c]))
    BY <1>5 DEF DetachHandler
  <2>3. ASSUME work[c] # "handler", LateReport(c, work[c])
        PROVE  \A d \in Calls :
                 row'[d].disposition = "accepted" => row[d].disposition = "accepted"
    <3>1. PICK w \in {"value", "failed", "cancelled"} : w = work[c]
      BY <1>1, <2>1, <2>3 DEF CallInv
    <3>2. LateReport(c, w)
      BY <2>3, <3>1
    <3>. QED
      BY <1>1, <3>2, LateLeaves
  <2>. QED
    BY <1>2, <2>1, <2>2, <2>3, QuietLeaves
<1>6. CASE Normalize(c)
  <2>1. row' = row /\ work' = [work EXCEPT ![c] = "normalizer"]
    BY <1>6 DEF Normalize, auditVars
  <2>2. work'[c] # "handler" /\ \A d \in Calls \ {c} : work'[d] = work[d]
    BY <1>1, <2>1, CallTypes
  <2>. QED
    BY <1>2, <2>1, <2>2, QuietLeaves
<1>7. ASSUME \/ QueueAborted(c) \/ TakeProcessSlot(c) \/ DoNotStart(c) \/ HandlerFailed(c)
             \/ DetachNormalizer(c) \/ OutputChecked(c)
      PROVE  LeftAlone
  <2>1. row' = row /\ work' = work
    BY <1>7 DEF QueueAborted, TakeProcessSlot, DoNotStart, HandlerFailed, DetachNormalizer,
                OutputChecked, callVars
  <2>. QED
    BY <1>2, <2>1, QuietLeaves
<1>. QED
  BY <1>3, <1>4, <1>5, <1>6, <1>7

(* The ends of leaders and followers.                                       *)
LEMMA EndLeaves ==
  ASSUME BrokerInv, NEW c \in Calls, LandFailed(c) \/ LandAccepted(c) \/ FollowerResumes(c)
  PROVE  LeftAlone
<1>1. TypeOK /\ FreshCall(c) /\ CallInv(c) /\ FollowInv
  BY DEF BrokerInv, CallsInv
<1>2. /\ pc[c] \in {"landing", "leader"} /\ req' = req /\ work' = work
  BY DEF LandFailed, LandAccepted, FollowerResumes, callVars
<1>3. req[c] # None
  BY <1>1, <1>2 DEF FreshCall
<1>4. PICK r \in Runs : r = req[c].run
  BY <1>1, <1>3, RequestType
<1>5. journal[r] \in Seq(Event)
  BY <1>1, RunTypes
<1>6. SUFFICES \E final \in Final : /\ CommitFinished(c, r, final, journal[r])
                                    /\ Checked(c, r, final, journal[r])
  BY <1>1, <1>2, <1>4, <1>5, CommitLeaves
<1>7. CASE LandFailed(c)
  <2>1. CASE settled[c] # Success /\ CommitFinished(c, r, settled[c], journal[r])
    <3>1. settled[c] \in Final
      BY <1>1, CallTypes
    <3>2. settled[c].disposition # "accepted"
      BY <1>1, <1>7, <2>1 DEF CallInv, LandFailed
    <3>. QED
      BY <2>1, <3>1, <3>2 DEF Checked
  <2>2. CASE CommitFinished(c, r, Outcome("cancelled", "succeeded", "discarded"), journal[r])
    BY <2>2, OutcomeType DEF Checked
  <2>3. ASSUME NEW d \in {"none", "discarded"},
               CommitFinished(c, r, Outcome("failed", "succeeded", d), journal[r])
        PROVE  \E final \in Final : /\ CommitFinished(c, r, final, journal[r])
                                    /\ Checked(c, r, final, journal[r])
    BY <2>3, OutcomeType DEF Checked
  <2>. QED
    BY <1>4, <1>7, <2>1, <2>2, <2>3 DEF LandFailed
<1>8. CASE LandAccepted(c)
  BY <1>4, <1>8, FixedOutcomes DEF LandAccepted, Checked
<1>9. CASE FollowerResumes(c)
  <2>1. PICK l \in Calls : l = req[c].leader
    <3>1. pc[c] = "leader"
      BY <1>9 DEF FollowerResumes
    <3>. QED
      BY Zenon, <1>1, <3>1 DEF FollowInv
  <2>2. CASE CommitFinished(c, r, Aborted(c, None, "none"), journal[r])
    BY <2>2, AbortedType DEF Checked
  <2>3. CASE CommitFinished(c, r, Outcome("cancelled", None, "none"), journal[r])
    BY <2>3, OutcomeType DEF Checked
  <2>4. CASE r \in running /\ DeliverReuse(c, r, l, journal[r])
    BY <2>4, OutcomeType, FixedOutcomes DEF Checked, DeliverReuse
  <2>5. CASE /\ r \in running
             /\ CommitFinished(c, r, [settled[l] EXCEPT !.disposition = "none"], journal[r])
    <3>1. settled[l] \in Final
      BY <1>1, CallTypes
    <3>2. PICK final : final = [settled[l] EXCEPT !.disposition = "none"]
      OBVIOUS
    <3>3. final \in Final
      BY <3>1, <3>2 DEF Final
    <3>. QED
      BY <2>5, <3>2, <3>3 DEF Checked
  <2>. QED
    BY <1>4, <1>9, <2>1, <2>2, <2>3, <2>4, <2>5 DEF FollowerResumes
<1>. QED
  BY <1>7, <1>8, <1>9

LEMMA NextLeaves ==
  ASSUME BrokerInv, [Next]_vars
  PROVE  LeftAlone
<1>1. TypeOK
  BY DEF BrokerInv
<1>2. ASSUME NEW c \in Calls, Resume(c)
      PROVE  LeftAlone
  BY <1>2, PhysicalLeaves, EndLeaves DEF Resume
<1>3. ASSUME NEW c \in Calls, NEW kind \in {"timeout", "cancel"}, Abort(c, kind)
      PROVE  LeftAlone
  BY <1>3, QuietLeaves DEF Abort, auditVars
<1>4. ASSUME NEW c \in Calls, WorkSettles(c)
      PROVE  LeftAlone
  <2>1. /\ journal' = journal /\ row' = row
        /\ \E w \in {"value", "failed", "cancelled", "normalized", "rejected"} :
             work' = [work EXCEPT ![c] = w]
    BY <1>4 DEF WorkSettles, auditVars
  <2>2. \A d \in Calls : work'[d] = "handler" => work[d] = "handler"
    BY <1>1, <2>1, CallTypes
  <2>. QED
    BY <2>1, <2>2, QuietLeaves
<1>5. ASSUME NEW c \in Calls, DetachedSettles(c)
      PROVE  LeftAlone
  <2>1. /\ journal' = journal
        /\ \/ \E w \in {"value", "failed", "cancelled"} :
                work' = [work EXCEPT ![c] = w] /\ LateReport(c, w)
           \/ work' = [work EXCEPT ![c] = "normalized"] /\ row' = row
    BY <1>5 DEF DetachedSettles
  <2>2. \A d \in Calls : work'[d] = "handler" => work[d] = "handler"
    BY <1>1, <2>1, CallTypes
  <2>3. \A d \in Calls : row'[d].disposition = "accepted" => row[d].disposition = "accepted"
    BY <1>1, <2>1, LateLeaves
  <2>. QED
    BY <2>1, <2>2, <2>3, QuietLeaves
<1>6. ASSUME NEW r \in Runs, RunLeaves(r)
      PROVE  LeftAlone
  BY <1>6, QuietLeaves DEF RunLeaves, auditVars, callVars
<1>7. CASE UNCHANGED vars
  BY <1>7, QuietLeaves DEF vars, auditVars, callVars
<1>8. CASE Next
  BY <1>2, <1>3, <1>4, <1>5, <1>6, <1>8, InvokeLeaves DEF Next
<1>. QED
  BY <1>7, <1>8

(* Whatever was under way when a Run left running, and however late it      *)
(* ends, the Run gets no event, no accepted result and no handler.          *)
THEOREM LeftRunsStay == Spec => NothingAfterRunLeft
<1>1. BrokerInv /\ [Next]_vars =>
        [\A r \in Runs \ running :
           /\ journal'[r] = journal[r]
           /\ \A c \in Calls :
                (req'[c] # None /\ req'[c].run = r) =>
                  /\ row'[c].disposition = "accepted" => row[c].disposition = "accepted"
                  /\ work'[c] = "handler" => work[c] = "handler"]_vars
  BY NextLeaves DEF LeftAlone
<1>. QED
  BY <1>1, BrokerInvariance, PTL DEF Spec, NothingAfterRunLeft

=============================================================================
