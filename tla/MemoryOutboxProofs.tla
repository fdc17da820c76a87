------------------------- MODULE MemoryOutboxProofs -------------------------
(***************************************************************************)
(* Theorems about MemoryOutbox, for any Runs, corrections and retirements,  *)
(* any batch and attempt limits, and any number of faults, failing calls,   *)
(* preemptions, foreign leases and restarts.                                *)
(***************************************************************************)
EXTENDS MemoryOutbox, SequenceTheorems, WellFoundedInduction, TLAPS

-----------------------------------------------------------------------------
(* The inductive invariant.                                                 *)

(* The tables: what is due is pending and listed once, an attempt is left   *)
(* for what is pending.                                                     *)
TablesTyped ==
  /\ memoryJobs \in [Job -> [status : JobStatus, attempts : 0 .. MaxJobAttempts]]
  /\ \A j \in Job : Pending(j) => memoryJobs[j].attempts < MaxJobAttempts
  /\ ops \in [OpKeys -> [status : JobStatus, job : Job \cup {NoJob}]]
  /\ store \subseteq Job

DueListed ==
  /\ dueJobs \in Seq(Job)
  /\ \A i \in 1 .. Len(dueJobs) : Pending(dueJobs[i])
  /\ \A h, i \in 1 .. Len(dueJobs) : dueJobs[h] = dueJobs[i] => h = i

Absent(j) == memoryJobs[j].status = "absent"

(* An operation without a row has no jobs; one with a row is bound to its   *)
(* first or to its real job and has that job's status, and the source of a  *)
(* correction is neither followed up nor acknowledged before the operation  *)
(* is bound to the correct.                                                 *)
Bound(k) ==
  /\ ops[k].status = "absent" => Absent(FirstJob(k)) /\ Absent(RealJob(k))
  /\ ops[k].status # "absent" =>
       /\ ops[k].job \in {FirstJob(k), RealJob(k)}
       /\ ops[k].status = memoryJobs[ops[k].job].status
       /\ ~ Absent(FirstJob(k))
       /\ ops[k].job # RealJob(k) =>
            Absent(RealJob(k)) /\ memoryJobs[FirstJob(k)].status # "acked"

(* What is acknowledged was applied, and a source before its correct.       *)
Applied ==
  /\ \A j \in Job : memoryJobs[j].status = "acked" => j \in store
  /\ \A k \in Corrections : ~ Absent(<<"correct", k>>) => <<"source", k>> \in store

OutboxInv ==
  /\ TablesTyped
  /\ DueListed
  /\ \A k \in OpKeys : Bound(k)
  /\ Applied

(* The tick runs pending jobs of its page, each once; a call belongs to a   *)
(* tick with room for it; a service that has stopped has no tick.           *)
TickInv ==
  /\ tick \in [on : BOOLEAN, aborted : BOOLEAN, executed : 0 .. DrainBatch, page : Seq(Job),
               more : BOOLEAN, before : Nat]
  /\ call \in Job \cup {NoJob}
  /\ \A i \in 1 .. Len(tick.page) : Pending(tick.page[i]) /\ tick.page[i] # call
  /\ \A h, i \in 1 .. Len(tick.page) : tick.page[h] = tick.page[i] => h = i
  /\ call # NoJob => tick.on /\ Pending(call) /\ tick.executed < DrainBatch
  /\ memoryLife \in {"stopped", "down"} => ~ tick.on

(* Where extractions are, and the turn of each has its raw event.           *)
CultivationInv ==
  /\ run \in [Runs -> {"live", "selected", "superseded"}]
  /\ cult \in [Runs -> {"idle", "calling", "killed"}]
  /\ retry \in [Runs -> 0 .. MaxRetries]
  /\ base \in [Runs -> 0 .. MaxRetries]
  /\ anchor \in Runs \cup {UnitFree}
  /\ \A r \in Runs : cult[r] # "idle" => ~ Absent(<<"event", r>>)
  /\ \A r \in Runs : ~ Absent(<<"remember", r>>) => ~ Absent(<<"event", r>>)

GateInv ==
  /\ gate \in [holder : Runs \cup {UnitFree, Other, "distill"}, closed : BOOLEAN]
  /\ OneModelCall

RestInv ==
  /\ distill \in Job \cup {NoJob}
  /\ memoryLife \in {"up", "stopping", "stopped", "down"}

MemoryInv == OutboxInv /\ TickInv /\ CultivationInv /\ GateInv /\ RestInv

-----------------------------------------------------------------------------
(* Jobs.                                                                    *)

(* What a job is named after.                                               *)
LEMMA JobsOfRuns ==
  ASSUME NEW r \in Runs
  PROVE  /\ <<"event", r>> \in Job
         /\ <<"feedback", r>> \in Job
         /\ <<"remember", r>> \in Job
         /\ <<"distill", r>> \in Job
BY DEF Job

LEMMA JobsOfKeys ==
  ASSUME NEW k \in OpKeys
  PROVE  /\ FirstJob(k) \in Job /\ RealJob(k) \in Job
         /\ k \in Corrections => FirstJob(k) = <<"source", k>> /\ RealJob(k) = <<"correct", k>>
         /\ k \notin Corrections => FirstJob(k) = <<"retire", k>> /\ RealJob(k) = <<"retire", k>>
BY MemoryAssumption DEF Job, OpKeys, FirstJob, RealJob

LEMMA NoJobIsNone == NoJob \notin Job
<1>. SUFFICES ASSUME NoJob \in Job PROVE FALSE
  OBVIOUS
<1>1. NoJob = <<"none">>
  BY DEF NoJob
<1>2. PICK a, b : NoJob = <<a, b>>
  BY DEF Job
<1>3. DOMAIN <<"none">> = 1 .. 1 /\ DOMAIN <<a, b>> = 1 .. 2
  OBVIOUS
<1>. QED
  BY <1>1, <1>2, <1>3

(* Jobs of different operations are different, and so are the jobs of Runs. *)
LEMMA JobsApart ==
  ASSUME NEW k \in OpKeys, NEW l \in OpKeys, k # l
  PROVE  /\ FirstJob(k) # FirstJob(l) /\ FirstJob(k) # RealJob(l)
         /\ RealJob(k) # RealJob(l) /\ RealJob(k) # FirstJob(l)
BY JobsOfKeys

OpJobs == {FirstJob(k) : k \in OpKeys} \cup {RealJob(k) : k \in OpKeys}

LEMMA RunJobsAreNoOpJobs ==
  ASSUME NEW x, NEW kind \in {"event", "feedback", "remember", "distill"}
  PROVE  <<kind, x>> \notin OpJobs
BY JobsOfKeys DEF OpJobs

LEMMA SourceJobs ==
  ASSUME NEW j \in Job, j[1] = "source"
  PROVE  j[2] \in Corrections /\ j[2] \in OpKeys /\ j = <<"source", j[2]>>
BY DEF Job, OpKeys

(* A call that is no source is no first job of a correction.                *)
LEMMA OtherJobs ==
  ASSUME NEW j \in Job, j[1] # "source", NEW k \in OpKeys, j = FirstJob(k)
  PROVE  k \notin Corrections /\ j = RealJob(k)
BY JobsOfKeys

-----------------------------------------------------------------------------
(* The due list.                                                            *)

(* What is left of w without c: the others, once each.                       *)
Left(v, w, c) ==
  /\ v \in Seq(Job)
  /\ \A i, j \in 1 .. Len(v) : v[i] = v[j] => i = j
  /\ \A i \in 1 .. Len(v) : v[i] # c /\ \E j \in 1 .. Len(w) : v[i] = w[j]

LEMMA WithoutEffect ==
  ASSUME NEW w \in Seq(Job), NEW c,
         \A i, j \in 1 .. Len(w) : w[i] = w[j] => i = j,
         NEW v, v = Without(w, c)
  PROVE  Left(v, w, c)
<1>1. Len(w) \in Nat /\ \A i \in 1 .. Len(w) : w[i] \in Job
  BY LenProperties, ElementOfSeq
<1>2. CASE \E i \in 1 .. Len(w) : w[i] = c
  <2>1. PICK x : x = CHOOSE i \in 1 .. Len(w) : w[i] = c
    OBVIOUS
  <2>2. x \in 1 .. Len(w) /\ w[x] = c
    BY <1>2, <2>1
  <2>3. PICK n \in Nat : n = Len(w) - 1
    BY SMTT(40), <1>1, <2>2
  <2>4. v = [i \in 1 .. n |-> IF i < x THEN w[i] ELSE w[i + 1]]
    BY Zenon, <1>2, <2>1, <2>3 DEF Without
  <2>5. ASSUME NEW i \in 1 .. n
        PROVE  \E y \in 1 .. Len(w) : v[i] = w[y] /\ y # x
                                      /\ y = (IF i < x THEN i ELSE i + 1)
    <3>1. CASE i < x
      BY <1>1, <2>2, <2>3, <2>4, <3>1
    <3>2. CASE ~ (i < x)
      <4>1. i + 1 \in 1 .. Len(w) /\ i + 1 # x
        BY <1>1, <2>2, <2>3, <3>2
      <4>2. v[i] = w[i + 1]
        BY <2>4, <3>2
      <4>. QED
        BY <3>2, <4>1, <4>2
    <3>. QED
      BY <3>1, <3>2
  <2>6. v \in [1 .. n -> Job]
    <3>1. \A i \in 1 .. n : (IF i < x THEN w[i] ELSE w[i + 1]) \in Job
      BY <1>1, <2>2, <2>3
    <3>. QED
      BY <2>4, <3>1
  <2>7. v \in Seq(Job) /\ Len(v) = n
    BY <2>6
  <2>8. ASSUME NEW i \in 1 .. n, NEW j \in 1 .. n, v[i] = v[j]
        PROVE  i = j
    <3>1. PICK y \in 1 .. Len(w) : v[i] = w[y] /\ y = (IF i < x THEN i ELSE i + 1)
      BY <2>5
    <3>2. PICK z \in 1 .. Len(w) : v[j] = w[z] /\ z = (IF j < x THEN j ELSE j + 1)
      BY <2>5
    <3>3. y = z
      BY <2>8, <3>1, <3>2
    <3>4. x \in Nat
      BY <1>1, <2>2
    <3>. QED
      BY <3>1, <3>2, <3>3, <3>4
  <2>9. ASSUME NEW i \in 1 .. n
        PROVE  v[i] # c /\ \E j \in 1 .. Len(w) : v[i] = w[j]
    <3>1. PICK y \in 1 .. Len(w) : v[i] = w[y] /\ y # x
      BY <2>5
    <3>2. w[y] # w[x]
      BY <2>2, <3>1
    <3>. QED
      BY <2>2, <3>1, <3>2
  <2>. QED
    BY <2>7, <2>8, <2>9 DEF Left
<1>3. CASE ~ \E i \in 1 .. Len(w) : w[i] = c
  <2>1. v = w
    BY <1>3 DEF Without
  <2>. QED
    BY <1>3, <2>1 DEF Left
<1>. QED
  BY <1>2, <1>3

(* Jobs to be inserted: absent so far, each once.                           *)
FreshList(new) ==
  /\ new \in Seq(Job)
  /\ \A i \in 1 .. Len(new) : Absent(new[i])
  /\ \A h, i \in 1 .. Len(new) : new[h] = new[i] => h = i

Has(new, j) == \E i \in 1 .. Len(new) : new[i] = j

LEMMA NothingIsFresh == FreshList(<<>>) /\ \A j : ~ Has(<<>>, j)
BY EmptySeq DEF FreshList, Has

LEMMA FreshOne ==
  ASSUME NEW j \in Job
  PROVE  /\ FreshList(Fresh(j))
         /\ \A i : Has(Fresh(j), i) <=> i = j /\ Absent(j)
<1>1. CASE Absent(j)
  <2>1. Fresh(j) = <<j>>
    BY <1>1 DEF Fresh, Absent
  <2>2. <<j>> \in Seq(Job) /\ Len(<<j>>) = 1 /\ <<j>>[1] = j
    OBVIOUS
  <2>. QED
    BY <1>1, <2>1, <2>2 DEF FreshList, Has
<1>2. CASE ~ Absent(j)
  <2>1. Fresh(j) = <<>>
    BY <1>2 DEF Fresh, Absent
  <2>. QED
    BY Zenon, <1>2, <2>1, NothingIsFresh
<1>. QED
  BY <1>1, <1>2

LEMMA FreshTwo ==
  ASSUME NEW v, FreshList(v), NEW w, FreshList(w), \A j : ~ (Has(v, j) /\ Has(w, j))
  PROVE  /\ FreshList(v \o w)
         /\ \A j : Has(v \o w, j) <=> Has(v, j) \/ Has(w, j)
<1>1. v \in Seq(Job) /\ w \in Seq(Job)
  BY DEF FreshList
<1>2. /\ v \o w \in Seq(Job)
      /\ Len(v \o w) = Len(v) + Len(w)
      /\ \A i \in 1 .. Len(v) + Len(w) :
           (v \o w)[i] = IF i <= Len(v) THEN v[i] ELSE w[i - Len(v)]
  BY <1>1, ConcatProperties
<1>3. Len(v) \in Nat /\ Len(w) \in Nat
  BY <1>1, LenProperties
<1>4. ASSUME NEW i \in 1 .. Len(v \o w)
      PROVE  \/ i \in 1 .. Len(v) /\ (v \o w)[i] = v[i]
             \/ i - Len(v) \in 1 .. Len(w) /\ (v \o w)[i] = w[i - Len(v)]
  BY <1>2, <1>3
<1>5. \A i \in 1 .. Len(v) : i \in 1 .. Len(v \o w) /\ (v \o w)[i] = v[i]
  BY <1>2, <1>3
<1>6. \A i \in 1 .. Len(w) : Len(v) + i \in 1 .. Len(v \o w) /\ (v \o w)[Len(v) + i] = w[i]
  BY <1>2, <1>3
<1>7. \A j : Has(v \o w, j) <=> Has(v, j) \/ Has(w, j)
  BY SMTT(30), <1>4, <1>5, <1>6 DEF Has
<1>8. ASSUME NEW h \in 1 .. Len(v \o w), NEW i \in 1 .. Len(v \o w), (v \o w)[h] = (v \o w)[i]
      PROVE  h = i
  <2>1. CASE h \in 1 .. Len(v) /\ i \in 1 .. Len(v)
    BY <1>5, <1>8, <2>1 DEF FreshList
  <2>2. CASE h \notin 1 .. Len(v) /\ i \notin 1 .. Len(v)
    <3>1. w[h - Len(v)] = w[i - Len(v)] /\ h - Len(v) \in 1 .. Len(w) /\ i - Len(v) \in 1 .. Len(w)
      BY <1>4, <1>8, <2>2
    <3>2. h - Len(v) = i - Len(v)
      BY <3>1 DEF FreshList
    <3>. QED
      BY <1>2, <1>3, <3>2
  <2>3. CASE h \in 1 .. Len(v) /\ i \notin 1 .. Len(v)
    <3>1. v[h] = w[i - Len(v)] /\ i - Len(v) \in 1 .. Len(w)
      BY <1>4, <1>5, <1>8, <2>3
    <3>2. Has(v, v[h]) /\ Has(w, v[h])
      BY <2>3, <3>1 DEF Has
    <3>. QED
      BY <3>2
  <2>4. CASE h \notin 1 .. Len(v) /\ i \in 1 .. Len(v)
    <3>1. v[i] = w[h - Len(v)] /\ h - Len(v) \in 1 .. Len(w)
      BY <1>4, <1>5, <1>8, <2>4
    <3>2. Has(v, v[i]) /\ Has(w, v[i])
      BY <2>4, <3>1 DEF Has
    <3>. QED
      BY <3>2
  <2>. QED
    BY <2>1, <2>2, <2>3, <2>4
<1>9. \A i \in 1 .. Len(v \o w) : Absent((v \o w)[i])
  BY <1>4 DEF FreshList
<1>. QED
  BY <1>2, <1>7, <1>8, <1>9 DEF FreshList

(* The rows of the jobs are written, the others left as they are.           *)
LEMMA EnqueueRows ==
  ASSUME memoryJobs \in [Job -> [status : JobStatus, attempts : 0 .. MaxJobAttempts]],
         \A j \in Job : Pending(j) => memoryJobs[j].attempts < MaxJobAttempts,
         NEW new, FreshList(new), Enqueue(new)
  PROVE  /\ memoryJobs' \in [Job -> [status : JobStatus, attempts : 0 .. MaxJobAttempts]]
         /\ \A j \in Job : memoryJobs'[j].status = "pending" =>
                             memoryJobs'[j].attempts < MaxJobAttempts
         /\ \A j \in Job : Has(new, j) => Absent(j) /\ memoryJobs'[j].status = "pending"
         /\ \A j \in Job : ~ Has(new, j) => memoryJobs'[j] = memoryJobs[j]
<1>1. new \in Seq(Job)
  BY DEF FreshList
<1>2. DOMAIN new = 1 .. Len(new)
  BY <1>1, LenProperties
<1>3. memoryJobs' = [j \in Job |-> IF Has(new, j) THEN [status |-> "pending", attempts |-> 0]
                                   ELSE memoryJobs[j]]
  BY <1>2 DEF Enqueue, Has
<1>4. /\ [status |-> "pending", attempts |-> 0] \in [status : JobStatus, attempts : 0 .. MaxJobAttempts]
      /\ 0 < MaxJobAttempts
  BY MemoryAssumption DEF JobStatus
<1>5. \A j \in Job : Has(new, j) => Absent(j)
  BY DEF Has, FreshList
<1>. QED
  BY <1>3, <1>4, <1>5 DEF Pending

LEMMA DueFacts ==
  ASSUME DueListed
  PROVE  /\ dueJobs \in Seq(Job)
         /\ \A i \in 1 .. Len(dueJobs) : dueJobs[i] \in Job /\ Pending(dueJobs[i])
         /\ \A h, i \in 1 .. Len(dueJobs) : dueJobs[h] = dueJobs[i] => h = i
BY ElementOfSeq DEF DueListed

LEMMA EnqueueLists ==
  ASSUME NEW w \in Seq(Job),
         \A h, i \in 1 .. Len(w) : w[h] = w[i] => h = i,
         \A i \in 1 .. Len(w) : Pending(w[i]) /\ memoryJobs'[w[i]].status = "pending",
         NEW new, FreshList(new), dueJobs' = w \o new,
         \A j \in Job : Has(new, j) => memoryJobs'[j].status = "pending"
  PROVE  DueListed'
<1>1. new \in Seq(Job) /\ w \in Seq(Job)
  BY DEF FreshList
<1>2. /\ w \o new \in Seq(Job)
      /\ Len(w \o new) = Len(w) + Len(new)
      /\ \A i \in 1 .. Len(w) + Len(new) :
           (w \o new)[i] = IF i <= Len(w) THEN w[i] ELSE new[i - Len(w)]
  BY <1>1, ConcatProperties
<1>3. Len(w) \in Nat /\ Len(new) \in Nat
  BY <1>1, LenProperties
<1>4. ASSUME NEW i \in 1 .. Len(dueJobs')
      PROVE  \/ i \in 1 .. Len(w) /\ dueJobs'[i] = w[i]
             \/ /\ i \notin 1 .. Len(w)
                /\ i - Len(w) \in 1 .. Len(new) /\ dueJobs'[i] = new[i - Len(w)]
  BY <1>2, <1>3
<1>5. \A i \in 1 .. Len(w) : w[i] \in Job
  BY ElementOfSeq, <1>1
<1>6. \A i \in 1 .. Len(new) : new[i] \in Job /\ Absent(new[i]) /\ Has(new, new[i])
  BY ElementOfSeq, <1>1 DEF FreshList, Has
<1>7. \A i \in 1 .. Len(dueJobs') : memoryJobs'[dueJobs'[i]].status = "pending"
  BY <1>4, <1>5, <1>6
<1>8. ASSUME NEW h \in 1 .. Len(dueJobs'), NEW i \in 1 .. Len(dueJobs'), dueJobs'[h] = dueJobs'[i]
      PROVE  h = i
  <2>0. h \in Nat /\ i \in Nat
    BY <1>2, <1>3
  <2>1. CASE h \in 1 .. Len(w) /\ i \in 1 .. Len(w)
    BY <1>4, <1>8, <2>1
  <2>2. CASE h \notin 1 .. Len(w) /\ i \notin 1 .. Len(w)
    <3>1. /\ new[h - Len(w)] = new[i - Len(w)]
          /\ h - Len(w) \in 1 .. Len(new) /\ i - Len(w) \in 1 .. Len(new)
      BY <1>4, <1>8, <2>2
    <3>2. h - Len(w) = i - Len(w)
      BY <3>1 DEF FreshList
    <3>. QED
      BY <1>3, <2>0, <3>2
  <2>3. CASE h \in 1 .. Len(w) /\ i \notin 1 .. Len(w)
    <3>1. w[h] = new[i - Len(w)] /\ i - Len(w) \in 1 .. Len(new)
      BY <1>4, <1>8, <2>3
    <3>. QED
      BY <1>5, <1>6, <2>3, <3>1 DEF Pending, Absent
  <2>4. CASE h \notin 1 .. Len(w) /\ i \in 1 .. Len(w)
    <3>1. w[i] = new[h - Len(w)] /\ h - Len(w) \in 1 .. Len(new)
      BY <1>4, <1>8, <2>4
    <3>. QED
      BY <1>5, <1>6, <2>4, <3>1 DEF Pending, Absent
  <2>. QED
    BY <2>1, <2>2, <2>3, <2>4
<1>. QED
  BY <1>2, <1>7, <1>8 DEF DueListed, Pending

LEMMA WithoutDue ==
  ASSUME DueListed, NEW c, NEW w, w = Without(dueJobs, c)
  PROVE  Left(w, dueJobs, c)
<1>1. /\ dueJobs \in Seq(Job)
      /\ \A h, i \in 1 .. Len(dueJobs) : dueJobs[h] = dueJobs[i] => h = i
  BY Zenon DEF DueListed
<1>. QED
  BY Zenon, <1>1, WithoutEffect

LEMMA SettleAndEnqueue ==
  ASSUME DueListed, NEW c, NEW new, FreshList(new), dueJobs' = Without(dueJobs, c) \o new,
         \A j \in Job : Has(new, j) => memoryJobs'[j].status = "pending",
         \A j \in Job : Pending(j) /\ j # c => memoryJobs'[j].status = "pending"
  PROVE  DueListed'
<1>1. PICK w : w = Without(dueJobs, c)
  OBVIOUS
<1>2. /\ w \in Seq(Job)
      /\ \A h, i \in 1 .. Len(w) : w[h] = w[i] => h = i
      /\ \A i \in 1 .. Len(w) : w[i] # c /\ \E h \in 1 .. Len(dueJobs) : w[i] = dueJobs[h]
  <2>1. Left(w, dueJobs, c)
    BY Zenon, <1>1, WithoutDue
  <2>. QED
    BY Zenon, <2>1 DEF Left
<1>3. \A i \in 1 .. Len(w) : Pending(w[i]) /\ memoryJobs'[w[i]].status = "pending"
  BY Zenon, <1>2, DueFacts
<1>. QED
  BY Zenon, <1>1, <1>2, <1>3, EnqueueLists

(* A job leaves the list when its call settles.                             *)
LEMMA SettleLists ==
  ASSUME DueListed, NEW j, dueJobs' = Without(dueJobs, j),
         \A i \in Job : Pending(i) /\ i # j => memoryJobs'[i].status = "pending"
  PROVE  DueListed' /\ \A i \in 1 .. Len(dueJobs') : dueJobs'[i] # j
<1>1. /\ dueJobs' \in Seq(Job)
      /\ \A h, i \in 1 .. Len(dueJobs') : dueJobs'[h] = dueJobs'[i] => h = i
      /\ \A i \in 1 .. Len(dueJobs') : dueJobs'[i] # j /\ \E h \in 1 .. Len(dueJobs) : dueJobs'[i] = dueJobs[h]
  <2>1. Left(dueJobs', dueJobs, j)
    BY Zenon, WithoutDue
  <2>. QED
    BY Zenon, <2>1 DEF Left
<1>2. \A h \in 1 .. Len(dueJobs) : dueJobs[h] \in Job /\ Pending(dueJobs[h])
  BY ElementOfSeq DEF DueListed
<1>3. \A i \in 1 .. Len(dueJobs') : memoryJobs'[dueJobs'[i]].status = "pending"
  <2>. SUFFICES ASSUME NEW i \in 1 .. Len(dueJobs')
                PROVE  memoryJobs'[dueJobs'[i]].status = "pending"
    BY Zenon
  <2>1. PICK h \in 1 .. Len(dueJobs) : dueJobs'[i] = dueJobs[h] /\ dueJobs[h] # j
    BY Zenon, <1>1
  <2>2. PICK x \in Job : x = dueJobs[h]
    BY Zenon, <1>2
  <2>3. Pending(x) /\ x # j
    BY Zenon, <1>2, <2>1, <2>2
  <2>4. memoryJobs'[x].status = "pending"
    BY Zenon, <2>3
  <2>. QED
    BY Zenon, <2>1, <2>2, <2>4
<1>. QED
  BY Zenon, <1>1, <1>3 DEF DueListed, Pending

-----------------------------------------------------------------------------
(* The transactions of the outbox.                                          *)

(* Only the job that is called leaves the pending ones, and no row is       *)
(* deleted.                                                                 *)
OutboxMoves ==
  \A j \in Job :
    /\ memoryJobs[j].status = "pending" /\ j # call => memoryJobs'[j].status = "pending"
    /\ memoryJobs[j].status # "absent" => memoryJobs'[j].status # "absent"

OutboxKept == OutboxInv' /\ OutboxMoves

LEMMA OutboxSame ==
  ASSUME OutboxInv, UNCHANGED <<memoryJobs, dueJobs, ops>>, store' = store
  PROVE  OutboxKept
BY DEF OutboxInv, OutboxKept, OutboxMoves, TablesTyped, DueListed, Bound, Applied, Absent, Pending

(* Jobs that belong to no operation are inserted.                           *)
LEMMA RunJobsEnqueued ==
  ASSUME OutboxInv, NEW new, FreshList(new), \A j \in OpJobs : ~ Has(new, j),
         Enqueue(new), UNCHANGED <<ops, store>>
  PROVE  OutboxKept
<1>1. /\ memoryJobs' \in [Job -> [status : JobStatus, attempts : 0 .. MaxJobAttempts]]
      /\ \A j \in Job : memoryJobs'[j].status = "pending" =>
                          memoryJobs'[j].attempts < MaxJobAttempts
      /\ \A j \in Job : Has(new, j) => Absent(j) /\ memoryJobs'[j].status = "pending"
      /\ \A j \in Job : ~ Has(new, j) => memoryJobs'[j] = memoryJobs[j]
  BY Zenon, EnqueueRows DEF OutboxInv, TablesTyped
<1>2. OutboxMoves
  BY <1>1 DEF OutboxMoves, Absent
<1>3. DueListed'
  <2>1. \A j \in Job : Pending(j) => memoryJobs'[j].status = "pending"
    BY <1>1 DEF Pending, Absent
  <2>2. dueJobs' = dueJobs \o new
    BY DEF Enqueue
  <2>. QED
    BY Zenon, <1>1, <2>1, <2>2, DueFacts, EnqueueLists DEF OutboxInv
<1>4. \A k \in OpKeys : Bound(k)'
  <2>. SUFFICES ASSUME NEW k \in OpKeys PROVE Bound(k)'
    OBVIOUS
  <2>1. /\ memoryJobs'[FirstJob(k)] = memoryJobs[FirstJob(k)]
        /\ memoryJobs'[RealJob(k)] = memoryJobs[RealJob(k)]
    BY Zenon, <1>1, JobsOfKeys DEF OpJobs
  <2>2. Bound(k) /\ ops' = ops
    BY DEF OutboxInv
  <2>. QED
    BY <2>1, <2>2 DEF Bound, Absent
<1>5. Applied'
  <2>1. \A k \in Corrections : memoryJobs'[<<"correct", k>>] = memoryJobs[<<"correct", k>>]
    <3>. SUFFICES ASSUME NEW k \in Corrections
                  PROVE  memoryJobs'[<<"correct", k>>] = memoryJobs[<<"correct", k>>]
      OBVIOUS
    <3>1. k \in OpKeys /\ RealJob(k) = <<"correct", k>> /\ RealJob(k) \in Job
      BY Zenon, JobsOfKeys DEF OpKeys
    <3>. QED
      BY <1>1, <3>1 DEF OpJobs
  <2>2. \A j \in Job : memoryJobs'[j].status = "acked" => memoryJobs[j].status = "acked"
    BY <1>1
  <2>. QED
    BY <2>1, <2>2 DEF OutboxInv, Applied, Absent
<1>6. TablesTyped'
  BY <1>1 DEF OutboxInv, TablesTyped, Pending
<1>. QED
  BY <1>2, <1>3, <1>4, <1>5, <1>6 DEF OutboxInv, OutboxKept

(* stageMemoryMutationAtomic.                                               *)
LEMMA StageAtomicKeeps ==
  ASSUME OutboxInv, NEW k \in OpKeys, StageAtomic(k), store' = store
  PROVE  OutboxKept
<1>1. CASE ops[k].status # "absent"
  BY Zenon, <1>1, OutboxSame DEF StageAtomic, outbox
<1>2. CASE ops[k].status = "absent"
  <2>0. FirstJob(k) \in Job /\ RealJob(k) \in Job
    BY Zenon, JobsOfKeys
  <2>1. /\ Enqueue(Fresh(FirstJob(k)))
        /\ ops' = [ops EXCEPT ![k] = [status |-> "pending", job |-> FirstJob(k)]]
    BY <1>2 DEF StageAtomic
  <2>2. Absent(FirstJob(k)) /\ Absent(RealJob(k))
    BY <1>2 DEF OutboxInv, Bound
  <2>3. /\ FreshList(Fresh(FirstJob(k)))
        /\ \A j : Has(Fresh(FirstJob(k)), j) <=> j = FirstJob(k)
    BY Zenon, <2>0, <2>2, FreshOne
  <2>4. /\ memoryJobs' \in [Job -> [status : JobStatus, attempts : 0 .. MaxJobAttempts]]
        /\ \A j \in Job : memoryJobs'[j].status = "pending" =>
                            memoryJobs'[j].attempts < MaxJobAttempts
        /\ memoryJobs'[FirstJob(k)].status = "pending"
        /\ \A j \in Job : j # FirstJob(k) => memoryJobs'[j] = memoryJobs[j]
    BY Zenon, <2>0, <2>1, <2>3, EnqueueRows DEF OutboxInv, TablesTyped
  <2>5. OutboxMoves
    BY <2>2, <2>4 DEF OutboxMoves, Absent
  <2>6. DueListed'
    <3>1. \A j \in Job : Pending(j) => memoryJobs'[j].status = "pending"
      BY <2>4 DEF Pending
    <3>2. dueJobs' = dueJobs \o Fresh(FirstJob(k))
      BY <2>1 DEF Enqueue
    <3>. QED
      BY Zenon, <2>0, <2>3, <2>4, <3>1, <3>2, DueFacts, EnqueueLists DEF OutboxInv
  <2>7. ASSUME NEW l \in OpKeys PROVE Bound(l)'
    <3>1. CASE l = k
      <4>1. ops'[k] = [status |-> "pending", job |-> FirstJob(k)]
        BY <2>1 DEF OutboxInv, TablesTyped
      <4>2. FirstJob(k) # RealJob(k) => memoryJobs'[RealJob(k)] = memoryJobs[RealJob(k)]
        BY <2>0, <2>4
      <4>. QED
        BY <2>2, <2>4, <3>1, <4>1, <4>2 DEF Bound, Absent
    <3>2. CASE l # k
      <4>1. ops'[l] = ops[l]
        BY <2>1, <3>2 DEF OutboxInv, TablesTyped
      <4>2. /\ memoryJobs'[FirstJob(l)] = memoryJobs[FirstJob(l)]
            /\ memoryJobs'[RealJob(l)] = memoryJobs[RealJob(l)]
        BY Zenon, <2>4, <3>2, JobsApart, JobsOfKeys
      <4>3. Bound(l)
        BY DEF OutboxInv
      <4>. QED
        BY <4>1, <4>2, <4>3 DEF Bound, Absent
    <3>. QED
      BY <3>1, <3>2
  <2>8. Applied'
    <3>1. ASSUME NEW l \in Corrections
          PROVE  memoryJobs'[<<"correct", l>>] = memoryJobs[<<"correct", l>>]
      <4>1. l \in OpKeys /\ <<"correct", l>> \in Job /\ RealJob(l) = <<"correct", l>>
        BY Zenon, JobsOfKeys DEF OpKeys
      <4>2. RealJob(l) # FirstJob(k)
        BY <4>1, JobsOfKeys, JobsApart
      <4>. QED
        BY <2>4, <4>1, <4>2
    <3>2. \A j \in Job : memoryJobs'[j].status = "acked" => memoryJobs[j].status = "acked"
      BY <2>4
    <3>. QED
      BY <3>1, <3>2 DEF OutboxInv, Applied, Absent
  <2>9. TablesTyped'
    <3>1. [status |-> "pending", job |-> FirstJob(k)] \in [status : JobStatus, job : Job \cup {NoJob}]
      BY <2>0 DEF JobStatus
    <3>2. ops' \in [OpKeys -> [status : JobStatus, job : Job \cup {NoJob}]]
      BY <2>1, <3>1 DEF OutboxInv, TablesTyped
    <3>. QED
      BY <2>4, <3>2 DEF OutboxInv, TablesTyped, Pending
  <2>. QED
    BY <2>5, <2>6, <2>7, <2>8, <2>9 DEF OutboxInv, OutboxKept
<1>. QED
  BY <1>1, <1>2

(* The binding of a correction to its real job, whether the source is       *)
(* acknowledged in the same step or stays pending.                          *)
LEMMA FollowupKeeps ==
  ASSUME OutboxInv, NEW k \in Corrections, call = <<"source", k>>,
         <<"source", k>> \in store, Pending(<<"source", k>>),
         memoryJobs' \in [Job -> [status : JobStatus, attempts : 0 .. MaxJobAttempts]],
         \A j \in Job \ {<<"source", k>>, <<"correct", k>>} : memoryJobs'[j] = memoryJobs[j],
         memoryJobs'[<<"source", k>>].status \in {"pending", "acked"},
         memoryJobs'[<<"source", k>>].attempts = memoryJobs[<<"source", k>>].attempts,
         Absent(<<"correct", k>>) => memoryJobs'[<<"correct", k>>] = [status |-> "pending", attempts |-> 0],
         ~ Absent(<<"correct", k>>) => memoryJobs'[<<"correct", k>>] = memoryJobs[<<"correct", k>>],
         ops' = [ops EXCEPT ![k].job = <<"correct", k>>],
         store' = store, DueListed'
  PROVE  OutboxKept
<1>1. /\ k \in OpKeys /\ FirstJob(k) = <<"source", k>> /\ RealJob(k) = <<"correct", k>>
      /\ FirstJob(k) \in Job /\ RealJob(k) \in Job /\ FirstJob(k) # RealJob(k)
  BY JobsOfKeys DEF OpKeys
<1>2. Bound(k) /\ ops[k].status # "absent" /\ ops[k] \in [status : JobStatus, job : Job \cup {NoJob}]
  BY <1>1 DEF OutboxInv, TablesTyped, Bound, Absent, Pending
<1>3. ops'[k] = [ops[k] EXCEPT !.job = <<"correct", k>>]
  BY <1>1 DEF OutboxInv, TablesTyped
<1>4. OutboxMoves
  <2>1. ASSUME NEW j \in Job
        PROVE  /\ memoryJobs[j].status = "pending" /\ j # call => memoryJobs'[j].status = "pending"
               /\ memoryJobs[j].status # "absent" => memoryJobs'[j].status # "absent"
    <3>1. CASE j = <<"source", k>>
      BY <3>1
    <3>2. CASE j = <<"correct", k>>
      BY <1>1, <3>2 DEF Absent
    <3>3. CASE j \notin {<<"source", k>>, <<"correct", k>>}
      BY <3>3
    <3>. QED
      BY <3>1, <3>2, <3>3
  <2>. QED
    BY <2>1 DEF OutboxMoves
<1>5. ASSUME NEW l \in OpKeys PROVE Bound(l)'
  <2>1. CASE l = k
    <3>1. ops'[k].job = RealJob(k) /\ ops'[k].status = ops[k].status
      BY <1>1, <1>2, <1>3
    <3>2. ops[k].status = memoryJobs'[RealJob(k)].status
      <4>1. CASE ops[k].job = RealJob(k)
        <5>1. ~ Absent(<<"correct", k>>)
          BY <1>1, <1>2, <4>1 DEF Bound, Absent
        <5>. QED
          BY <1>1, <1>2, <4>1, <5>1 DEF Bound
      <4>2. CASE ops[k].job # RealJob(k)
        <5>1. Absent(<<"correct", k>>) /\ ops[k].status = "pending"
          BY <1>1, <1>2, <4>2 DEF Bound, Pending
        <5>. QED
          BY <1>1, <5>1
      <4>. QED
        BY <4>1, <4>2
    <3>3. memoryJobs'[FirstJob(k)].status # "absent"
      BY <1>1
    <3>. QED
      BY <1>2, <2>1, <3>1, <3>2, <3>3 DEF Bound, Absent
  <2>2. CASE l # k
    <3>1. ops'[l] = ops[l]
      BY <1>1, <2>2 DEF OutboxInv, TablesTyped
    <3>2. /\ memoryJobs'[FirstJob(l)] = memoryJobs[FirstJob(l)]
          /\ memoryJobs'[RealJob(l)] = memoryJobs[RealJob(l)]
      BY Zenon, <1>1, <2>2, JobsApart, JobsOfKeys
    <3>3. Bound(l)
      BY DEF OutboxInv
    <3>. QED
      BY ZenonT(30), <3>1, <3>2, <3>3 DEF Bound, Absent
  <2>. QED
    BY <2>1, <2>2
<1>6. Applied'
  <2>1. ASSUME NEW j \in Job, memoryJobs'[j].status = "acked"
        PROVE  j \in store
    <3>1. CASE j = <<"source", k>>
      BY <3>1
    <3>2. CASE j # <<"source", k>>
      <4>1. memoryJobs[j].status = "acked"
        BY <1>1, <2>1, <3>2
      <4>. QED
        BY <4>1 DEF OutboxInv, Applied
    <3>. QED
      BY <3>1, <3>2
  <2>2. ASSUME NEW l \in Corrections, memoryJobs'[<<"correct", l>>].status # "absent"
        PROVE  <<"source", l>> \in store
    <3>1. CASE l = k
      BY <3>1
    <3>2. CASE l # k
      <4>1. <<"correct", l>> \in Job \ {<<"source", k>>, <<"correct", k>>}
        BY <3>2 DEF Job
      <4>2. ~ Absent(<<"correct", l>>)
        BY <2>2, <4>1 DEF Absent
      <4>. QED
        BY <4>2 DEF OutboxInv, Applied
    <3>. QED
      BY <3>1, <3>2
  <2>. QED
    BY <2>1, <2>2 DEF Applied, Absent
<1>7. TablesTyped'
  <2>1. ops'[k] \in [status : JobStatus, job : Job \cup {NoJob}]
    BY SMTT(30), <1>1, <1>2, <1>3
  <2>2. ops' \in [OpKeys -> [status : JobStatus, job : Job \cup {NoJob}]]
    BY <1>1, <2>1 DEF OutboxInv, TablesTyped
  <2>3. ASSUME NEW j \in Job, memoryJobs'[j].status = "pending"
        PROVE  memoryJobs'[j].attempts < MaxJobAttempts
    <3>0. \A i \in Job : Pending(i) => memoryJobs[i].attempts < MaxJobAttempts
      BY DEF OutboxInv, TablesTyped
    <3>1. CASE j = <<"source", k>>
      BY <1>1, <3>0, <3>1
    <3>2. CASE j = <<"correct", k>>
      BY <1>1, <2>3, <3>0, <3>2, MemoryAssumption DEF Pending
    <3>3. CASE j \notin {<<"source", k>>, <<"correct", k>>}
      BY <2>3, <3>0, <3>3 DEF Pending
    <3>. QED
      BY <3>1, <3>2, <3>3
  <2>. QED
    BY <2>2, <2>3 DEF OutboxInv, TablesTyped, Pending
<1>. QED
  BY <1>4, <1>5, <1>6, <1>7 DEF OutboxInv, OutboxKept

(* bindCorrectionFollowupAtomic by itself: the acknowledgement failed.      *)
LEMMA BindFollowupKeeps ==
  ASSUME OutboxInv, NEW k \in Corrections, call = <<"source", k>>,
         <<"source", k>> \in store, Pending(<<"source", k>>), BindFollowup(k), store' = store
  PROVE  OutboxKept
<1>1. <<"source", k>> \in Job /\ <<"correct", k>> \in Job /\ <<"source", k>> # <<"correct", k>>
  BY DEF Job
<1>2. /\ FreshList(Fresh(<<"correct", k>>))
      /\ \A j : Has(Fresh(<<"correct", k>>), j) <=> j = <<"correct", k>> /\ Absent(<<"correct", k>>)
  BY Zenon, <1>1, FreshOne
<1>3. Enqueue(Fresh(<<"correct", k>>)) /\ ops' = [ops EXCEPT ![k].job = <<"correct", k>>]
  BY DEF BindFollowup
<1>4. /\ memoryJobs' \in [Job -> [status : JobStatus, attempts : 0 .. MaxJobAttempts]]
      /\ \A j \in Job : Has(Fresh(<<"correct", k>>), j) => memoryJobs'[j].status = "pending"
      /\ \A j \in Job : ~ Has(Fresh(<<"correct", k>>), j) => memoryJobs'[j] = memoryJobs[j]
  BY Zenon, <1>2, <1>3, EnqueueRows DEF OutboxInv, TablesTyped
<1>5. /\ \A j \in Job \ {<<"source", k>>, <<"correct", k>>} : memoryJobs'[j] = memoryJobs[j]
      /\ memoryJobs'[<<"source", k>>] = memoryJobs[<<"source", k>>]
      /\ ~ Absent(<<"correct", k>>) => memoryJobs'[<<"correct", k>>] = memoryJobs[<<"correct", k>>]
  BY <1>1, <1>2, <1>4
<1>6. Absent(<<"correct", k>>) => memoryJobs'[<<"correct", k>>] = [status |-> "pending", attempts |-> 0]
  <2>. SUFFICES ASSUME Absent(<<"correct", k>>)
                PROVE  memoryJobs'[<<"correct", k>>] = [status |-> "pending", attempts |-> 0]
    OBVIOUS
  <2>1. Fresh(<<"correct", k>>) = << <<"correct", k>> >>
    BY DEF Fresh, Absent
  <2>2. \E i \in DOMAIN Fresh(<<"correct", k>>) : Fresh(<<"correct", k>>)[i] = <<"correct", k>>
    BY <2>1
  <2>. QED
    BY <1>1, <1>3, <2>2 DEF Enqueue
<1>7. DueListed'
  <2>1. \A j \in Job : Pending(j) => memoryJobs'[j].status = "pending"
    BY <1>2, <1>4 DEF Pending, Absent
  <2>2. dueJobs' = dueJobs \o Fresh(<<"correct", k>>)
    BY <1>3 DEF Enqueue
  <2>. QED
    BY Zenon, <1>2, <1>4, <2>1, <2>2, DueFacts, EnqueueLists DEF OutboxInv
<1>8. memoryJobs'[<<"source", k>>].status = "pending"
  BY <1>5 DEF Pending
<1>. QED
  BY Zenon, <1>3, <1>4, <1>5, <1>6, <1>7, <1>8, FollowupKeeps

LEMMA RowSettles ==
  ASSUME NEW row \in [status : JobStatus, attempts : 0 .. MaxJobAttempts], NEW s \in JobStatus
  PROVE  /\ [row EXCEPT !.status = s] \in [status : JobStatus, attempts : 0 .. MaxJobAttempts]
         /\ [row EXCEPT !.status = s].status = s
         /\ [row EXCEPT !.status = s].attempts = row.attempts
OBVIOUS

LEMMA TwoRows ==
  ASSUME NEW K, NEW T, NEW f \in [K -> T], NEW a \in K, NEW b \in K, a # b, NEW x \in T, NEW y \in T,
         NEW g, g = [f EXCEPT ![a] = x, ![b] = y]
  PROVE  /\ g[a] = x /\ g[b] = y
         /\ \A j \in K \ {a, b} : g[j] = f[j]
         /\ g \in [K -> T]
OBVIOUS

LEMMA TwoRowsChange ==
  ASSUME OutboxInv, NEW a \in Job, NEW b \in Job, a # b, Pending(a),
         memoryJobs' = [memoryJobs EXCEPT
                          ![a].status = IF @ = "pending" THEN "acked" ELSE @,
                          ![b] = IF @.status = "absent"
                                                THEN [status |-> "pending", attempts |-> 0] ELSE @]
  PROVE  /\ \A j \in Job \ {a, b} : memoryJobs'[j] = memoryJobs[j]
         /\ memoryJobs'[a].status = "acked"
         /\ memoryJobs'[a].attempts = memoryJobs[a].attempts
         /\ Absent(b) => memoryJobs'[b] = [status |-> "pending", attempts |-> 0]
         /\ ~ Absent(b) => memoryJobs'[b] = memoryJobs[b]
         /\ memoryJobs' \in [Job -> [status : JobStatus, attempts : 0 .. MaxJobAttempts]]
<1>2. memoryJobs \in [Job -> [status : JobStatus, attempts : 0 .. MaxJobAttempts]]
  BY DEF OutboxInv, TablesTyped
<1>3. PICK one : one = [memoryJobs[a] EXCEPT !.status = "acked"]
  OBVIOUS
<1>4. /\ one \in [status : JobStatus, attempts : 0 .. MaxJobAttempts]
      /\ one.status = "acked" /\ one.attempts = memoryJobs[a].attempts
  BY Zenon, <1>2, <1>3, RowSettles DEF JobStatus
<1>5. CASE Absent(b)
  <2>0. PICK two : two = [status |-> "pending", attempts |-> 0]
    OBVIOUS
  <2>1. memoryJobs' = [memoryJobs EXCEPT ![a] = one, ![b] = two]
    BY <1>2, <1>3, <1>5, <2>0 DEF Pending, Absent
  <2>2. two \in [status : JobStatus, attempts : 0 .. MaxJobAttempts]
    BY <2>0, MemoryAssumption DEF JobStatus
  <2>3. /\ memoryJobs'[a] = one
        /\ memoryJobs'[b] = two
        /\ \A j \in Job \ {a, b} : memoryJobs'[j] = memoryJobs[j]
        /\ memoryJobs' \in [Job -> [status : JobStatus, attempts : 0 .. MaxJobAttempts]]
    <3>1. PICK rows : rows = [status : JobStatus, attempts : 0 .. MaxJobAttempts]
      OBVIOUS
    <3>2. memoryJobs \in [Job -> rows] /\ one \in rows /\ two \in rows
      BY <1>2, <1>4, <2>2, <3>1
    <3>3. /\ memoryJobs'[a] = one
          /\ memoryJobs'[b] = two
          /\ \A j \in Job \ {a, b} : memoryJobs'[j] = memoryJobs[j]
          /\ memoryJobs' \in [Job -> rows]
      <4>1. PICK f : f = memoryJobs
        OBVIOUS
      <4>2. PICK g : g = [f EXCEPT ![a] = one, ![b] = two]
        OBVIOUS
      <4>3. f \in [Job -> rows]
        BY <3>2, <4>1
      <4>4. g = memoryJobs'
        BY Zenon, <2>1, <4>1, <4>2
      <4>5. g[a] = one /\ g[b] = two /\ (\A j \in Job \ {a, b} : g[j] = f[j]) /\ g \in [Job -> rows]
        BY Zenon, <3>2, <4>2, <4>3, TwoRows
      <4>. QED
        BY Zenon, <4>1, <4>4, <4>5
    <3>. QED
      BY Zenon, <3>1, <3>3
  <2>. QED
    BY Zenon, <1>4, <1>5, <2>0, <2>3
<1>6. CASE ~ Absent(b)
  <2>1. memoryJobs' = [memoryJobs EXCEPT ![a] = one,
                                         ![b] = memoryJobs[b]]
    BY <1>2, <1>3, <1>6 DEF Pending, Absent
  <2>2. memoryJobs[b] \in [status : JobStatus, attempts : 0 .. MaxJobAttempts]
    BY <1>2
  <2>3. /\ memoryJobs'[a] = one
        /\ memoryJobs'[b] = memoryJobs[b]
        /\ \A j \in Job \ {a, b} : memoryJobs'[j] = memoryJobs[j]
        /\ memoryJobs' \in [Job -> [status : JobStatus, attempts : 0 .. MaxJobAttempts]]
    BY SMTT(30), <1>2, <1>4, <2>1, <2>2, TwoRows
  <2>. QED
    BY Zenon, <1>4, <1>6, <2>3
<1>. QED
  BY <1>5, <1>6

(* The follow-up and the acknowledgement of its source: the rows ...        *)
LEMMA SourceAckRows ==
  ASSUME OutboxInv, NEW k \in Corrections, Pending(<<"source", k>>),
         memoryJobs' = [memoryJobs EXCEPT
                          ![<<"source", k>>].status = IF @ = "pending" THEN "acked" ELSE @,
                          ![<<"correct", k>>] = IF @.status = "absent"
                                                THEN [status |-> "pending", attempts |-> 0] ELSE @]
  PROVE  /\ \A j \in Job \ {<<"source", k>>, <<"correct", k>>} : memoryJobs'[j] = memoryJobs[j]
         /\ memoryJobs'[<<"source", k>>].status = "acked"
         /\ memoryJobs'[<<"source", k>>].attempts = memoryJobs[<<"source", k>>].attempts
         /\ Absent(<<"correct", k>>) => memoryJobs'[<<"correct", k>>] = [status |-> "pending", attempts |-> 0]
         /\ ~ Absent(<<"correct", k>>) => memoryJobs'[<<"correct", k>>] = memoryJobs[<<"correct", k>>]
         /\ memoryJobs' \in [Job -> [status : JobStatus, attempts : 0 .. MaxJobAttempts]]
<1>1. <<"source", k>> \in Job /\ <<"correct", k>> \in Job /\ <<"source", k>> # <<"correct", k>>
  BY DEF Job
<1>. QED
  BY Zenon, <1>1, TwoRowsChange

(* ... and the rest.                                                        *)
LEMMA SourceAckKeeps ==
  ASSUME OutboxInv, NEW k \in Corrections, call = <<"source", k>>,
         <<"source", k>> \in store, Pending(<<"source", k>>),
         \A j \in Job \ {<<"source", k>>, <<"correct", k>>} : memoryJobs'[j] = memoryJobs[j],
         memoryJobs'[<<"source", k>>].status = "acked",
         memoryJobs'[<<"source", k>>].attempts = memoryJobs[<<"source", k>>].attempts,
         Absent(<<"correct", k>>) => memoryJobs'[<<"correct", k>>] = [status |-> "pending", attempts |-> 0],
         ~ Absent(<<"correct", k>>) => memoryJobs'[<<"correct", k>>] = memoryJobs[<<"correct", k>>],
         memoryJobs' \in [Job -> [status : JobStatus, attempts : 0 .. MaxJobAttempts]],
         dueJobs' = Without(dueJobs, <<"source", k>>) \o Fresh(<<"correct", k>>),
         ops' = [ops EXCEPT ![k].job = <<"correct", k>>],
         store' = store
  PROVE  OutboxKept
<1>1. <<"source", k>> \in Job /\ <<"correct", k>> \in Job /\ <<"source", k>> # <<"correct", k>>
  BY DEF Job
<1>2. DueListed'
  <2>1. PICK new : new = Fresh(<<"correct", k>>)
    OBVIOUS
  <2>2. PICK c : c = <<"source", k>>
    OBVIOUS
  <2>3. /\ FreshList(new)
        /\ \A j : Has(new, j) <=> j = <<"correct", k>> /\ Absent(<<"correct", k>>)
    BY Zenon, <1>1, <2>1, FreshOne
  <2>4. ASSUME NEW j \in Job, Has(new, j)
        PROVE  memoryJobs'[j].status = "pending"
    <3>1. j = <<"correct", k>> /\ Absent(<<"correct", k>>)
      BY <2>3, <2>4
    <3>2. memoryJobs'[j] = [status |-> "pending", attempts |-> 0]
      BY Zenon, <3>1
    <3>. QED
      BY <3>2
  <2>5. ASSUME NEW j \in Job, Pending(j), j # c
        PROVE  memoryJobs'[j].status = "pending"
    <3>1. CASE j = <<"correct", k>>
      <4>1. memoryJobs[j].status = "pending" /\ ~ (memoryJobs[j].status = "absent")
        BY <2>5 DEF Pending
      <4>2. ~ Absent(<<"correct", k>>)
        BY Zenon, <3>1, <4>1 DEF Absent
      <4>. QED
        BY Zenon, <3>1, <4>1, <4>2
    <3>2. CASE j # <<"correct", k>>
      <4>1. j \in Job \ {<<"source", k>>, <<"correct", k>>}
        BY <2>2, <2>5, <3>2
      <4>2. memoryJobs'[j] = memoryJobs[j]
        BY <4>1
      <4>. QED
        BY Zenon, <2>5, <4>2 DEF Pending
    <3>. QED
      BY <3>1, <3>2
  <2>6. dueJobs' = Without(dueJobs, c) \o new
    BY <2>1, <2>2
  <2>7. DueListed
    BY DEF OutboxInv
  <2>. QED
    BY Zenon, <2>3, <2>4, <2>5, <2>6, <2>7, SettleAndEnqueue
<1>. QED
  BY Zenon, <1>2, FollowupKeeps

(* A settled job takes the operations that are bound to it along.           *)
LEMMA MirrorKeeps ==
  ASSUME OutboxInv, NEW j \in Job, call = j, Pending(j), NEW s \in {"acked", "failed"},
         NEW n \in 0 .. MaxJobAttempts,
         s = "acked" => j \in store /\ j[1] # "source",
         memoryJobs' = [memoryJobs EXCEPT ![j] = [status |-> s, attempts |-> n]],
         dueJobs' = Without(dueJobs, j), ops' = MirrorOf(ops, j, s), store' = store
  PROVE  OutboxKept
<1>1. memoryJobs \in [Job -> [status : JobStatus, attempts : 0 .. MaxJobAttempts]]
  BY DEF OutboxInv, TablesTyped
<1>2. /\ memoryJobs'[j] = [status |-> s, attempts |-> n]
      /\ \A i \in Job : i # j => memoryJobs'[i] = memoryJobs[i]
      /\ memoryJobs' \in [Job -> [status : JobStatus, attempts : 0 .. MaxJobAttempts]]
  BY <1>1 DEF JobStatus
<1>3. OutboxMoves
  BY <1>2 DEF OutboxMoves
<1>4. DueListed'
  <2>1. \A i \in Job : Pending(i) /\ i # j => memoryJobs'[i].status = "pending"
    BY <1>2 DEF Pending
  <2>. QED
    BY Zenon, <2>1, SettleLists DEF OutboxInv
<1>5. \A k \in OpKeys : ops'[k] = IF ops[k].job = j /\ ops[k].status = "pending"
                                  THEN [ops[k] EXCEPT !.status = s] ELSE ops[k]
  BY DEF MirrorOf
<1>6. ASSUME NEW k \in OpKeys PROVE Bound(k)'
  <2>1. Bound(k) /\ ops[k] \in [status : JobStatus, job : Job \cup {NoJob}]
    BY DEF OutboxInv, TablesTyped
  <2>2. ops'[k].job = ops[k].job
    BY <1>5, <2>1
  <2>3. FirstJob(k) \in Job /\ RealJob(k) \in Job
    BY Zenon, JobsOfKeys
  <2>4. ~ Absent(j)
    BY DEF Pending, Absent
  <2>5. ops'[k].status = "absent" <=> ops[k].status = "absent"
    BY <1>5, <2>1
  <2>6. CASE ops[k].status = "absent"
    <3>1. FirstJob(k) # j /\ RealJob(k) # j
      BY <2>1, <2>4, <2>6 DEF Bound
    <3>. QED
      BY <1>2, <2>1, <2>3, <2>5, <2>6, <3>1 DEF Bound, Absent
  <2>7. CASE ops[k].status # "absent"
    <3>1. ops'[k].status = memoryJobs'[ops[k].job].status
      <4>1. CASE ops[k].job = j
        <5>1. ops[k].status = "pending"
          BY <2>1, <2>7, <4>1 DEF Bound, Pending
        <5>2. ops'[k] = [ops[k] EXCEPT !.status = s]
          BY <1>5, <4>1, <5>1
        <5>. QED
          BY <1>2, <2>1, <4>1, <5>2
      <4>2. CASE ops[k].job # j
        <5>1. ops'[k] = ops[k] /\ ops[k].job \in Job
          BY <1>5, <2>1, <2>3, <2>7, <4>2 DEF Bound
        <5>. QED
          BY <1>2, <2>1, <2>7, <4>2, <5>1 DEF Bound
      <4>. QED
        BY <4>1, <4>2
    <3>2. memoryJobs'[FirstJob(k)].status # "absent"
      BY <1>2, <2>1, <2>3, <2>7 DEF Bound, Absent
    <3>3. ASSUME ops[k].job # RealJob(k)
          PROVE  /\ memoryJobs'[RealJob(k)].status = "absent"
                 /\ memoryJobs'[FirstJob(k)].status # "acked"
      <4>1. Absent(RealJob(k)) /\ memoryJobs[FirstJob(k)].status # "acked"
        BY <2>1, <2>7, <3>3 DEF Bound
      <4>2. RealJob(k) # j
        BY <2>4, <4>1
      <4>3. FirstJob(k) = j => s # "acked"
        <5>1. CASE k \in Corrections
          <6>1. FirstJob(k)[1] = "source"
            BY <5>1, JobsOfKeys
          <6>. QED
            BY <6>1
        <5>2. CASE k \notin Corrections
          BY Zenon, <4>2, <5>2, JobsOfKeys
        <5>. QED
          BY <5>1, <5>2
      <4>. QED
        BY <1>2, <2>3, <4>1, <4>2, <4>3 DEF Absent
    <3>. QED
      BY <2>1, <2>2, <2>5, <2>7, <3>1, <3>2, <3>3 DEF Bound, Absent
  <2>. QED
    BY <2>6, <2>7
<1>7. Applied'
  <2>1. \A i \in Job : memoryJobs'[i].status = "acked" => i \in store
    BY <1>2 DEF OutboxInv, Applied
  <2>2. ASSUME NEW k \in Corrections, memoryJobs'[<<"correct", k>>].status # "absent"
        PROVE  <<"source", k>> \in store
    <3>1. <<"correct", k>> \in Job
      BY DEF Job
    <3>2. ~ Absent(<<"correct", k>>)
      BY <1>2, <2>2, <3>1 DEF Absent, Pending
    <3>. QED
      BY <3>2 DEF OutboxInv, Applied
  <2>. QED
    BY <2>1, <2>2 DEF Applied, Absent
<1>8. TablesTyped'
  <2>1. \A i \in Job : memoryJobs'[i].status = "pending" => memoryJobs'[i].attempts < MaxJobAttempts
    BY <1>2 DEF OutboxInv, TablesTyped, Pending
  <2>2. ops' \in [OpKeys -> [status : JobStatus, job : Job \cup {NoJob}]]
    <3>1. \A k \in OpKeys : ops'[k] \in [status : JobStatus, job : Job \cup {NoJob}]
      BY ZenonT(40), <1>5 DEF OutboxInv, TablesTyped, JobStatus
    <3>. QED
      BY <3>1 DEF MirrorOf
  <2>. QED
    BY <1>2, <2>1, <2>2 DEF OutboxInv, TablesTyped, Pending
<1>. QED
  BY <1>3, <1>4, <1>6, <1>7, <1>8 DEF OutboxInv, OutboxKept

(* ackMemoryJobWithOperationMirror.                                         *)
LEMMA AckKeeps ==
  ASSUME OutboxInv, NEW j \in Job, call = j, Pending(j), j \in store, j[1] # "source",
         AckWithMirror(j), store' = store
  PROVE  OutboxKept
<1>1. memoryJobs[j] \in [status : JobStatus, attempts : 0 .. MaxJobAttempts]
      /\ memoryJobs[j].status = "pending"
  BY DEF OutboxInv, TablesTyped, Pending
<1>2. memoryJobs' = [memoryJobs EXCEPT ![j] = [status |-> "acked", attempts |-> memoryJobs[j].attempts]]
  <2>1. memoryJobs' = [memoryJobs EXCEPT ![j] = [memoryJobs[j] EXCEPT !.status = "acked"]]
    BY <1>1 DEF AckWithMirror
  <2>2. [memoryJobs[j] EXCEPT !.status = "acked"] = [status |-> "acked", attempts |-> memoryJobs[j].attempts]
    BY <1>1
  <2>. QED
    BY <2>1, <2>2
<1>3. memoryJobs[j].attempts \in 0 .. MaxJobAttempts
  BY <1>1
<1>. QED
  BY Zenon, <1>2, <1>3, MirrorKeeps DEF AckWithMirror

(* failMemoryJobWithOperationMirror: an end, or another attempt later.      *)
LEMMA FailKeeps ==
  ASSUME OutboxInv, NEW j \in Job, call = j, Pending(j), NEW max \in {1, MaxJobAttempts},
         FailWithMirror(j, max), store' = store
  PROVE  OutboxKept
<1>1. memoryJobs \in [Job -> [status : JobStatus, attempts : 0 .. MaxJobAttempts]]
  BY DEF OutboxInv, TablesTyped
<1>2. memoryJobs[j].attempts \in Nat /\ memoryJobs[j].attempts < MaxJobAttempts
  BY <1>1 DEF OutboxInv, TablesTyped
<1>3. PICK n : n = memoryJobs[j].attempts + 1
  OBVIOUS
<1>4. n \in 0 .. MaxJobAttempts /\ (~ (n >= max) => n < MaxJobAttempts)
  BY <1>2, <1>3, MemoryAssumption
<1>5. CASE n >= max
  <2>1. /\ memoryJobs' = [memoryJobs EXCEPT ![j] = [status |-> "failed", attempts |-> n]]
        /\ dueJobs' = Without(dueJobs, j) /\ ops' = MirrorOf(ops, j, "failed")
    BY <1>3, <1>5 DEF FailWithMirror
  <2>. QED
    BY Zenon, <1>4, <2>1, MirrorKeeps
<1>6. CASE ~ (n >= max)
  <2>1. /\ memoryJobs' = [memoryJobs EXCEPT ![j] = [status |-> "pending", attempts |-> n]]
        /\ dueJobs' = Without(dueJobs, j) /\ ops' = ops
    BY <1>3, <1>6 DEF FailWithMirror
  <2>2. /\ memoryJobs'[j] = [status |-> "pending", attempts |-> n]
        /\ \A i \in Job : i # j => memoryJobs'[i] = memoryJobs[i]
        /\ \A i \in Job : memoryJobs'[i].status = memoryJobs[i].status
        /\ memoryJobs' \in [Job -> [status : JobStatus, attempts : 0 .. MaxJobAttempts]]
    BY <1>1, <1>4, <2>1 DEF JobStatus, Pending
  <2>3. DueListed'
    BY Zenon, <2>1, <2>2, SettleLists DEF OutboxInv, Pending
  <2>4. TablesTyped'
    BY <1>4, <1>6, <2>1, <2>2 DEF OutboxInv, TablesTyped, Pending
  <2>5. \A k \in OpKeys : Bound(k)'
    <3>1. ASSUME NEW k \in OpKeys PROVE Bound(k)'
      <4>1. Bound(k) /\ FirstJob(k) \in Job /\ RealJob(k) \in Job
        BY Zenon, JobsOfKeys DEF OutboxInv
      <4>. QED
        BY <2>1, <2>2, <4>1 DEF Bound, Absent
    <3>. QED
      BY <3>1
  <2>6. Applied'
    <3>1. \A k \in Corrections : <<"correct", k>> \in Job
      BY DEF Job
    <3>. QED
      BY <2>2, <3>1 DEF OutboxInv, Applied, Absent
  <2>7. OutboxMoves
    BY <2>2 DEF OutboxMoves
  <2>. QED
    BY <2>3, <2>4, <2>5, <2>6, <2>7 DEF OutboxInv, OutboxKept
<1>. QED
  BY <1>5, <1>6

(* The memory program stores a call.                                        *)
LEMMA ApplyKeeps ==
  ASSUME OutboxInv, call \in Job, store' = store \cup {call}, UNCHANGED <<memoryJobs, dueJobs, ops>>
  PROVE  OutboxKept
BY DEF OutboxInv, OutboxKept, OutboxMoves, TablesTyped, DueListed, Bound, Applied, Absent, Pending

(* The back-off of a pending job is over.                                   *)
LEMMA BackoffKeeps ==
  ASSUME OutboxInv, NEW j \in Job, BackoffEnds(j)
  PROVE  OutboxKept
<1>1. dueJobs \in Seq(Job) /\ DOMAIN dueJobs = 1 .. Len(dueJobs) /\ Len(dueJobs) \in Nat
  BY Zenon, DueFacts, LenProperties DEF OutboxInv
<1>2. UNCHANGED <<memoryJobs, ops, store>>
  BY DEF BackoffEnds
<1>3. DueListed'
  <2>1. dueJobs' = Append(dueJobs, j) /\ \A i \in 1 .. Len(dueJobs) : dueJobs[i] # j
    BY <1>1 DEF BackoffEnds
  <2>2. /\ Append(dueJobs, j) \in Seq(Job)
        /\ Len(Append(dueJobs, j)) = Len(dueJobs) + 1
        /\ \A i \in 1 .. Len(dueJobs) : Append(dueJobs, j)[i] = dueJobs[i]
        /\ Append(dueJobs, j)[Len(dueJobs) + 1] = j
    BY <1>1, AppendProperties
  <2>3. ASSUME NEW i \in 1 .. Len(dueJobs')
        PROVE  \/ i \in 1 .. Len(dueJobs) /\ dueJobs'[i] = dueJobs[i]
               \/ i = Len(dueJobs) + 1 /\ dueJobs'[i] = j
    BY <1>1, <2>1, <2>2
  <2>4. Pending(j)
    BY DEF BackoffEnds
  <2>5. \A h, i \in 1 .. Len(dueJobs') : dueJobs'[h] = dueJobs'[i] => h = i
    BY <2>1, <2>3, DueFacts DEF OutboxInv
  <2>6. \A i \in 1 .. Len(dueJobs') : memoryJobs'[dueJobs'[i]].status = "pending"
    BY Zenon, <1>2, <2>3, <2>4, DueFacts DEF OutboxInv, Pending
  <2>. QED
    BY <2>1, <2>2, <2>5, <2>6 DEF DueListed, Pending
<1>. QED
  BY <1>2, <1>3 DEF OutboxInv, OutboxKept, OutboxMoves, TablesTyped, Bound, Applied, Absent, Pending

-----------------------------------------------------------------------------
(* What each transaction adds to the table.                                 *)

(* No pending job stops being pending, no row is deleted.                   *)
PendingKept == \A j \in Job : Pending(j) => memoryJobs'[j].status = "pending"

(* No memory of a Run is queued.                                            *)
NoMemoryAdded ==
  \A r \in Runs : Absent(<<"remember", r>>) => memoryJobs'[<<"remember", r>>].status = "absent"

LEMMA EnqueueAdds ==
  ASSUME OutboxInv, NEW new, FreshList(new), Enqueue(new)
  PROVE  /\ PendingKept
         /\ (\A r \in Runs : ~ Has(new, <<"remember", r>>)) => NoMemoryAdded
         /\ \A j \in Job : Has(new, j) => memoryJobs'[j].status = "pending"
<1>1. /\ \A j \in Job : Has(new, j) => Absent(j) /\ memoryJobs'[j].status = "pending"
      /\ \A j \in Job : ~ Has(new, j) => memoryJobs'[j] = memoryJobs[j]
  BY Zenon, EnqueueRows DEF OutboxInv, TablesTyped
<1>2. PendingKept
  BY <1>1 DEF PendingKept, Pending
<1>3. (\A r \in Runs : ~ Has(new, <<"remember", r>>)) => NoMemoryAdded
  BY Zenon, <1>1, JobsOfRuns DEF NoMemoryAdded, Absent
<1>. QED
  BY <1>1, <1>2, <1>3

LEMMA StageAdds ==
  ASSUME OutboxInv, NEW k \in OpKeys, StageAtomic(k)
  PROVE  PendingKept /\ NoMemoryAdded
<1>1. CASE ops[k].status # "absent"
  BY <1>1 DEF StageAtomic, outbox, PendingKept, NoMemoryAdded, Pending, Absent
<1>2. CASE ops[k].status = "absent"
  <2>1. Enqueue(Fresh(FirstJob(k))) /\ FirstJob(k) \in Job
    BY Zenon, <1>2, JobsOfKeys DEF StageAtomic
  <2>2. /\ FreshList(Fresh(FirstJob(k)))
        /\ \A j : Has(Fresh(FirstJob(k)), j) => j = FirstJob(k)
    BY Zenon, <2>1, FreshOne
  <2>3. \A r \in Runs : <<"remember", r>> # FirstJob(k)
    BY Zenon, RunJobsAreNoOpJobs DEF OpJobs
  <2>4. \A r \in Runs : ~ Has(Fresh(FirstJob(k)), <<"remember", r>>)
    BY <2>2, <2>3
  <2>. QED
    BY Zenon, <2>1, <2>2, <2>4, EnqueueAdds
<1>. QED
  BY <1>1, <1>2

(* The settled call changes its own row, and that of the correct job.       *)
LEMMA SettleAdds ==
  ASSUME NEW j \in Job, Pending(j),
         \A i \in Job : i # j /\ i[1] # "correct" => memoryJobs'[i] = memoryJobs[i]
  PROVE  NoMemoryAdded
<1>. SUFFICES ASSUME NEW r \in Runs, Absent(<<"remember", r>>)
              PROVE  memoryJobs'[<<"remember", r>>].status = "absent"
  BY DEF NoMemoryAdded
<1>1. <<"remember", r>> \in Job /\ <<"remember", r>>[1] # "correct"
  BY Zenon, JobsOfRuns
<1>2. <<"remember", r>> # j
  BY DEF Pending, Absent
<1>. QED
  BY <1>1, <1>2 DEF Absent

-----------------------------------------------------------------------------
(* The drain tick.                                                          *)

(* A set of numbers has a least one.                                        *)
LEMMA HasLeast ==
  ASSUME NEW S, S \subseteq Nat, S # {}
  PROVE  \E e \in S : \A x \in S : e <= x
<1> DEFINE R == OpToRel(<, Nat)
<1>1. IsWellFoundedOn(R, Nat)
  BY NatLessThanWellFounded, Zenon
<1>2. \A a, b \in Nat : <<a, b>> \in R <=> a < b
  BY DEF OpToRel
<1> HIDE DEF R
<1>3. PICK e \in S : \A x \in S : ~(<<x, e>> \in R)
  BY <1>1, WFMin
<1>4. \A x \in S : e <= x
  <2> SUFFICES ASSUME NEW x \in S PROVE e <= x
    OBVIOUS
  <2>1. e \in Nat /\ x \in Nat
    OBVIOUS
  <2>2. ~(x < e)
    BY <1>2, <1>3, <2>1
  <2> QED
    BY <2>1, <2>2
<1> QED
  BY <1>4

TickType == [on : BOOLEAN, aborted : BOOLEAN, executed : 0 .. DrainBatch, page : Seq(Job),
             more : BOOLEAN, before : Nat]

LEMMA TicksTyped ==
  /\ IdleTick \in TickType /\ NewTick \in TickType
  /\ IdleTick.page = <<>> /\ NewTick.page = <<>>
  /\ ~ IdleTick.on /\ NewTick.on
  /\ Len(IdleTick.page) = 0 /\ Len(NewTick.page) = 0
<1>1. 0 \in 0 .. DrainBatch /\ 0 \in Nat
  BY MemoryAssumption
<1>2. PICK empty : empty = <<>>
  OBVIOUS
<1>3. empty \in Seq(Job) /\ Len(empty) = 0
  BY <1>2, EmptySeq
<1>4. IdleTick = [on |-> FALSE, aborted |-> FALSE, executed |-> 0, page |-> empty,
                  more |-> FALSE, before |-> 0]
  BY <1>2 DEF IdleTick
<1>5. NewTick = [on |-> TRUE, aborted |-> FALSE, executed |-> 0, page |-> empty,
                 more |-> TRUE, before |-> 0]
  <2>1. NewTick = [[on |-> FALSE, aborted |-> FALSE, executed |-> 0, page |-> empty,
                  more |-> FALSE, before |-> 0] EXCEPT !.on = TRUE, !.more = TRUE]
    BY Zenon, <1>4 DEF NewTick
  <2>. QED
    BY <2>1
<1>. QED
  BY <1>1, <1>2, <1>3, <1>4, <1>5 DEF TickType

(* A tick that begins, or none.                                             *)
LEMMA TickFresh ==
  ASSUME tick' \in {IdleTick, NewTick}, call' = NoJob, memoryLife' \in {"stopped", "down"} => tick' = IdleTick
  PROVE  TickInv'
<1>1. \A i \in 1 .. Len(tick'.page) : FALSE
  BY TicksTyped
<1>2. tick' \in TickType
  BY Zenon, TicksTyped
<1>3. memoryLife' \in {"stopped", "down"} => ~ tick'.on
  BY Zenon, TicksTyped
<1>. QED
  BY <1>1, <1>2, <1>3 DEF TickInv, TickType

(* The service goes on beside the tick, which joins it at most.             *)
LEMMA TickGoesOn ==
  ASSUME TickInv, PendingKept, call' = call, memoryLife' = memoryLife, tick' = tick \/ JoinTick
  PROVE  TickInv'
<1>1. CASE tick' = tick
  <2>1. \A i \in 1 .. Len(tick.page) : tick.page[i] \in Job
    BY ElementOfSeq DEF TickInv
  <2>2. \A i \in 1 .. Len(tick.page) : memoryJobs'[tick.page[i]].status = "pending"
    BY <2>1 DEF TickInv, PendingKept
  <2>3. call # NoJob => memoryJobs'[call].status = "pending"
    BY DEF TickInv, PendingKept
  <2>. QED
    BY <1>1, <2>2, <2>3 DEF TickInv, Pending
<1>2. CASE tick' # tick
  <2>1. ~ tick.on /\ Up /\ tick' = NewTick
    BY <1>2 DEF JoinTick
  <2>2. call' = NoJob /\ memoryLife' = "up"
    BY <2>1 DEF TickInv, Up
  <2>. QED
    BY Zenon, <2>1, <2>2, TickFresh
<1>. QED
  BY <1>1, <1>2

(* The call settles.                                                        *)
LEMMA TickDropsDue ==
  ASSUME TickInv, OutboxMoves, CallSettles
  PROVE  TickInv'
<1>1. /\ call' = NoJob /\ call # NoJob /\ memoryLife' = memoryLife
      /\ tick' = [tick EXCEPT !.executed = tick.executed + 1]
  BY DEF CallSettles
<1>2. tick \in TickType
  BY DEF TickInv, TickType
<1>3. tick.on /\ tick.executed + 1 \in 0 .. DrainBatch
  BY <1>1, <1>2, MemoryAssumption DEF TickInv, TickType
<1>4. tick' \in TickType /\ tick'.page = tick.page /\ tick'.on = tick.on
  BY <1>1, <1>2, <1>3 DEF TickType
<1>5. ASSUME NEW i \in 1 .. Len(tick.page)
      PROVE  memoryJobs'[tick.page[i]].status = "pending" /\ tick.page[i] # NoJob
  <2>1. tick.page[i] \in Job
    BY <1>2, ElementOfSeq DEF TickType
  <2>2. Pending(tick.page[i]) /\ tick.page[i] # call
    BY DEF TickInv
  <2>. QED
    BY Zenon, <2>1, <2>2, NoJobIsNone DEF OutboxMoves, Pending
<1>6. \A h, i \in 1 .. Len(tick'.page) : tick'.page[h] = tick'.page[i] => h = i
  BY <1>4 DEF TickInv
<1>7. \A i \in 1 .. Len(tick'.page) : memoryJobs'[tick'.page[i]].status = "pending"
                                      /\ tick'.page[i] # call'
  BY <1>1, <1>4, <1>5
<1>8. memoryLife' \in {"stopped", "down"} => ~ tick'.on
  BY <1>1, <1>4 DEF TickInv
<1>. QED
  BY <1>1, <1>4, <1>6, <1>7, <1>8 DEF TickInv, TickType, Pending

(* A page is read.                                                          *)
LEMMA TickReadsKeeps ==
  ASSUME OutboxInv, TickInv, TickReads
  PROVE  TickInv'
<1>1. /\ call = NoJob /\ ~ TickHalted
      /\ UNCHANGED <<memoryJobs, dueJobs, ops, call, memoryLife>>
  BY DEF TickReads, outbox
<1>2. PICK n : n = IF Len(dueJobs) < DrainBatch - tick.executed THEN Len(dueJobs)
                   ELSE DrainBatch - tick.executed
  OBVIOUS
<1>3. tick' = [tick EXCEPT !.page = SubSeq(dueJobs, 1, n), !.more = n = DrainBatch - tick.executed,
                           !.before = tick.executed]
  BY Zenon, <1>2 DEF TickReads
<1>4. tick \in TickType /\ dueJobs \in Seq(Job) /\ Len(dueJobs) \in Nat
  BY Zenon, DueFacts, LenProperties DEF TickInv, TickType, OutboxInv
<1>5. n \in Nat /\ n <= Len(dueJobs) /\ tick.executed \in Nat /\ tick.executed < DrainBatch
  BY <1>1, <1>2, <1>4, MemoryAssumption DEF TickHalted, TickType
<1>6. PICK page : page = SubSeq(dueJobs, 1, n)
  OBVIOUS
<1>7. \A i \in 1 .. Len(dueJobs) : dueJobs[i] \in Job /\ Pending(dueJobs[i])
  BY Zenon, DueFacts DEF OutboxInv
<1>8. /\ page \in Seq(Job)
      /\ Len(page) = n
      /\ \A i \in 1 .. n : page[i] = dueJobs[i]
  <2>1. \A i \in 1 .. n : i \in 1 .. Len(dueJobs)
    BY <1>4, <1>5
  <2>2. \A i \in 1 .. n : dueJobs[i] \in Job
    BY <1>7, <2>1
  <2>3. 1 \in Int /\ n \in Int
    BY <1>5
  <2>4. /\ page \in Seq(Job)
        /\ Len(page) = IF 1 <= n THEN n - 1 + 1 ELSE 0
        /\ \A i \in 1 .. n - 1 + 1 : page[i] = dueJobs[1 + i - 1]
    BY <1>6, <2>2, <2>3, SubSeqProperties
  <2>. QED
    BY <1>5, <2>4
<1>9. /\ tick' \in TickType /\ tick'.page = page /\ tick'.on = tick.on
  BY <1>3, <1>4, <1>5, <1>6, <1>8 DEF TickType
<1>10. \A i \in 1 .. Len(page) : i \in 1 .. Len(dueJobs) /\ page[i] = dueJobs[i]
  BY <1>4, <1>5, <1>8
<1>11. \A i \in 1 .. Len(page) : Pending(page[i]) /\ page[i] # NoJob
  BY Zenon, <1>7, <1>10, NoJobIsNone
<1>12. \A h, i \in 1 .. Len(page) : page[h] = page[i] => h = i
  <2>1. \A h, i \in 1 .. Len(dueJobs) : dueJobs[h] = dueJobs[i] => h = i
    BY Zenon, DueFacts DEF OutboxInv
  <2>. QED
    BY <1>10, <2>1
<1>. QED
  BY <1>1, <1>9, <1>11, <1>12 DEF TickInv, TickType, Pending

(* The first job of the page that may run is called.                        *)
LEMMA TickCallsKeeps ==
  ASSUME TickInv, GateInv, TickCalls
  PROVE  /\ TickInv'
         /\ call' \in Job
         /\ \/ call'[1] = "distill" /\ gate.holder = UnitFree /\ gate' = [gate EXCEPT !.holder = "distill"]
            \/ call'[1] # "distill" /\ gate' = gate
<1>1. /\ tick.on /\ call = NoJob /\ ~ TickHalted /\ Runnable # {}
      /\ UNCHANGED <<memoryJobs, dueJobs, ops, memoryLife>>
  BY DEF TickCalls, outbox
<1>2. tick \in TickType /\ Len(tick.page) \in Nat /\ DOMAIN tick.page = 1 .. Len(tick.page)
  BY LenProperties DEF TickInv, TickType
<1>3. Runnable \subseteq Nat /\ Runnable \subseteq 1 .. Len(tick.page)
  BY <1>2 DEF Runnable
<1>4. PICK m : m = CHOOSE i \in Runnable : \A h \in Runnable : i <= h
  OBVIOUS
<1>5. m \in Runnable
  <2>1. \E e \in Runnable : \A h \in Runnable : e <= h
    BY Zenon, <1>1, <1>3, HasLeast
  <2>. QED
    BY Zenon, <1>4, <2>1
<1>6. m \in 1 .. Len(tick.page) /\ Admitted(tick.page[m])
  BY <1>3, <1>5 DEF Runnable
<1>7. /\ call' = tick.page[m]
      /\ tick' = [tick EXCEPT !.page = SubSeq(tick.page, m + 1, Len(tick.page))]
      /\ gate' = IF tick.page[m][1] = "distill" THEN [gate EXCEPT !.holder = "distill"] ELSE gate
  BY Zenon, <1>4 DEF TickCalls
<1>8. PICK page : page = SubSeq(tick.page, m + 1, Len(tick.page))
  OBVIOUS
<1>9. \A i \in 1 .. Len(tick.page) : tick.page[i] \in Job /\ Pending(tick.page[i])
  BY <1>2, ElementOfSeq DEF TickInv, TickType
<1>10. /\ page \in Seq(Job)
       /\ \A i \in 1 .. Len(page) : m + i \in 1 .. Len(tick.page) /\ page[i] = tick.page[m + i]
  <2>1. m + 1 \in Int /\ Len(tick.page) \in Int /\ m \in Nat
    BY <1>2, <1>6
  <2>2. \A i \in m + 1 .. Len(tick.page) : tick.page[i] \in Job
    BY <1>2, <1>6, <1>9
  <2>3. /\ page \in Seq(Job)
        /\ Len(page) = IF m + 1 <= Len(tick.page) THEN Len(tick.page) - (m + 1) + 1 ELSE 0
        /\ \A i \in 1 .. Len(tick.page) - (m + 1) + 1 : page[i] = tick.page[m + 1 + i - 1]
    BY <1>8, <2>1, <2>2, SubSeqProperties
  <2>4. ASSUME NEW i \in 1 .. Len(page)
        PROVE  m + i \in 1 .. Len(tick.page) /\ page[i] = tick.page[m + i]
    <3>1. i \in 1 .. Len(tick.page) - (m + 1) + 1 /\ m + 1 + i - 1 = m + i /\ m + i \in 1 .. Len(tick.page)
      BY <1>2, <2>1, <2>3
    <3>. QED
      BY <2>3, <3>1
  <2>. QED
    BY <2>3, <2>4
<1>11. tick' \in TickType /\ tick'.page = page /\ tick'.on = tick.on /\ tick'.executed = tick.executed
  BY <1>2, <1>7, <1>8, <1>10 DEF TickType
<1>12. \A h, i \in 1 .. Len(tick.page) : tick.page[h] = tick.page[i] => h = i
  BY DEF TickInv
<1>13. ASSUME NEW i \in 1 .. Len(page)
       PROVE  Pending(page[i]) /\ page[i] # tick.page[m]
  <2>1. m + i \in 1 .. Len(tick.page) /\ page[i] = tick.page[m + i]
    BY <1>10
  <2>2. m + i # m
    BY <1>2, <1>6, <1>10, LenProperties
  <2>. QED
    BY <1>6, <1>9, <1>12, <2>1, <2>2
<1>14. \A h, i \in 1 .. Len(page) : page[h] = page[i] => h = i
  <2>. SUFFICES ASSUME NEW h \in 1 .. Len(page), NEW i \in 1 .. Len(page), page[h] = page[i]
                PROVE  h = i
    OBVIOUS
  <2>1. m + h = m + i
    BY <1>10, <1>12
  <2>2. Len(page) \in Nat /\ m \in Nat
    BY <1>2, <1>6, <1>10, LenProperties
  <2>. QED
    BY <2>1, <2>2
<1>15. tick.executed < DrainBatch
  BY <1>1, <1>2, MemoryAssumption DEF TickHalted, TickType
<1>16. call' \in Job /\ Pending(call')
  BY <1>6, <1>7, <1>9
<1>17. TickInv'
  <2>1. \A i \in 1 .. Len(tick'.page) : memoryJobs'[tick'.page[i]].status = "pending" /\ tick'.page[i] # call'
    BY <1>1, <1>7, <1>11, <1>13 DEF Pending
  <2>2. \A h, i \in 1 .. Len(tick'.page) : tick'.page[h] = tick'.page[i] => h = i
    BY <1>11, <1>14
  <2>3. memoryLife' \in {"stopped", "down"} => ~ tick'.on
    BY <1>1, <1>11 DEF TickInv
  <2>. QED
    BY <1>1, <1>11, <1>15, <1>16, <2>1, <2>2, <2>3 DEF TickInv, TickType, Pending
<1>18. call'[1] = "distill" => gate.holder = UnitFree
  BY <1>6, <1>7 DEF Admitted
<1>. QED
  BY <1>7, <1>16, <1>17, <1>18

(* stop() aborts the tick.                                                  *)
LEMMA TickAborts ==
  ASSUME TickInv, UNCHANGED <<memoryJobs, call>>, memoryLife' = "stopping",
         tick' = [tick EXCEPT !.aborted = tick.on]
  PROVE  TickInv'
<1>1. tick \in TickType
  BY DEF TickInv, TickType
<1>2. /\ tick' \in TickType
      /\ tick'.page = tick.page /\ tick'.on = tick.on /\ tick'.executed = tick.executed
  BY <1>1 DEF TickType
<1>. QED
  BY <1>2 DEF TickInv, TickType, Pending

-----------------------------------------------------------------------------
(* Cultivation.                                                             *)

(* The turns keep their events; no memory is queued without one.            *)
LEMMA CultivationGoesOn ==
  ASSUME CultivationInv, OutboxMoves, NoMemoryAdded, UNCHANGED anchor,
         run' \in [Runs -> {"live", "selected", "superseded"}],
         cult' \in [Runs -> {"idle", "calling", "killed"}],
         retry' \in [Runs -> 0 .. MaxRetries], base' \in [Runs -> 0 .. MaxRetries],
         \A r \in Runs : cult[r] = "idle" => cult'[r] = "idle"
  PROVE  CultivationInv'
<1>1. \A r \in Runs : ~ Absent(<<"event", r>>) => memoryJobs'[<<"event", r>>].status # "absent"
  BY Zenon, JobsOfRuns DEF OutboxMoves, Absent
<1>2. \A r \in Runs : cult'[r] # "idle" => memoryJobs'[<<"event", r>>].status # "absent"
  BY <1>1 DEF CultivationInv
<1>3. \A r \in Runs : memoryJobs'[<<"remember", r>>].status # "absent" =>
                        memoryJobs'[<<"event", r>>].status # "absent"
  BY <1>1 DEF CultivationInv, NoMemoryAdded
<1>4. anchor' \in Runs \cup {UnitFree}
  BY DEF CultivationInv
<1>. QED
  BY <1>2, <1>3, <1>4 DEF CultivationInv, Absent

LEMMA CultivationStays ==
  ASSUME CultivationInv, OutboxMoves, NoMemoryAdded, UNCHANGED cultivation
  PROVE  CultivationInv'
BY Zenon, CultivationGoesOn DEF CultivationInv, cultivation

LEMMA NoMemoryUnchanged == memoryJobs' = memoryJobs => NoMemoryAdded /\ PendingKept
BY DEF NoMemoryAdded, PendingKept, Absent, Pending

LEMMA KilledTyped ==
  ASSUME CultivationInv
  PROVE  /\ Killed(cult) \in [Runs -> {"idle", "calling", "killed"}]
         /\ \A r \in Runs : Killed(cult)[r] = "idle" <=> cult[r] = "idle"
BY DEF CultivationInv, Killed

-----------------------------------------------------------------------------
(* cultivateRun: what it stores, and where it leaves the call.              *)

Feedback(r) == IF r \in CitedRuns THEN Fresh(<<"feedback", r>>) ELSE <<>>

LEMMA FeedbackIsFresh ==
  ASSUME NEW r \in Runs
  PROVE  FreshList(Feedback(r)) /\ \A j : Has(Feedback(r), j) => j = <<"feedback", r>>
<1>1. <<"feedback", r>> \in Job
  BY Zenon, JobsOfRuns
<1>2. CASE r \in CitedRuns
  BY Zenon, <1>1, <1>2, FreshOne DEF Feedback
<1>3. CASE r \notin CitedRuns
  BY Zenon, <1>3, NothingIsFresh DEF Feedback
<1>. QED
  BY <1>2, <1>3

LEMMA EventIsFresh ==
  ASSUME NEW r \in Runs
  PROVE  /\ FreshList(Feedback(r) \o Fresh(<<"event", r>>))
         /\ \A j : Has(Feedback(r) \o Fresh(<<"event", r>>), j) =>
                     j \in {<<"feedback", r>>, <<"event", r>>}
         /\ Absent(<<"event", r>>) => Has(Feedback(r) \o Fresh(<<"event", r>>), <<"event", r>>)
<1>1. <<"event", r>> \in Job /\ <<"event", r>> # <<"feedback", r>>
  BY Zenon, JobsOfRuns
<1>2. FreshList(Feedback(r)) /\ \A j : Has(Feedback(r), j) => j = <<"feedback", r>>
  BY Zenon, FeedbackIsFresh
<1>3. /\ FreshList(Fresh(<<"event", r>>))
      /\ \A j : Has(Fresh(<<"event", r>>), j) <=> j = <<"event", r>> /\ Absent(<<"event", r>>)
  BY Zenon, <1>1, FreshOne
<1>4. PICK v : v = Feedback(r)
  OBVIOUS
<1>5. PICK w : w = Fresh(<<"event", r>>)
  OBVIOUS
<1>6. FreshList(v) /\ FreshList(w) /\ \A j : ~ (Has(v, j) /\ Has(w, j))
  BY <1>1, <1>2, <1>3, <1>4, <1>5
<1>7. FreshList(v \o w) /\ \A j : Has(v \o w, j) <=> Has(v, j) \/ Has(w, j)
  BY Zenon, <1>6, FreshTwo
<1>. QED
  BY <1>2, <1>3, <1>4, <1>5, <1>7

(* Jobs of a Run other than its memory are stored.                          *)
LEMMA RunJobsStored ==
  ASSUME OutboxInv, NEW r \in Runs, NEW new, FreshList(new),
         \A j : Has(new, j) => j \in {<<"feedback", r>>, <<"event", r>>, <<"distill", r>>},
         Enqueue(new), UNCHANGED <<ops, store>>
  PROVE  OutboxKept /\ PendingKept /\ NoMemoryAdded
<1>1. \A j \in OpJobs : ~ Has(new, j)
  <2>1. <<"feedback", r>> \notin OpJobs /\ <<"event", r>> \notin OpJobs /\ <<"distill", r>> \notin OpJobs
    BY Zenon, RunJobsAreNoOpJobs
  <2>. QED
    BY <2>1
<1>2. \A q \in Runs : ~ Has(new, <<"remember", q>>)
  <2>. SUFFICES ASSUME NEW q \in Runs, Has(new, <<"remember", q>>) PROVE FALSE
    OBVIOUS
  <2>1. <<"remember", q>> \in {<<"feedback", r>>, <<"event", r>>, <<"distill", r>>}
    OBVIOUS
  <2>. QED
    BY <2>1
<1>. QED
  BY Zenon, <1>1, <1>2, RunJobsEnqueued, EnqueueAdds

(* The gate when neither the cultivations nor the call move.                *)
LEMMA GateStays ==
  ASSUME GateInv, UNCHANGED <<gate, cult, call>>
  PROVE  GateInv'
BY DEF GateInv, OneModelCall

CultivateEffect(r) ==
  /\ OutboxKept /\ PendingKept /\ NoMemoryAdded
  /\ TickInv' /\ GateInv'
  /\ cult' \in [Runs -> {"idle", "calling", "killed"}]
  /\ base' \in [Runs -> 0 .. MaxRetries]
  /\ anchor' \in Runs \cup {UnitFree}
  /\ \A q \in Runs : cult'[q] # "idle" => cult[q] # "idle" \/ memoryJobs'[<<"event", q>>].status # "absent"

LEMMA CultivateKeeps ==
  ASSUME OutboxInv, TickInv, CultivationInv, GateInv, NEW r \in Runs, NEW n \in 0 .. MaxRetries,
         UNCHANGED <<store, call, memoryLife>>, Cultivate(r, n)
  PROVE  CultivateEffect(r)
<1>0. /\ cult \in [Runs -> {"idle", "calling", "killed"}]
      /\ base \in [Runs -> 0 .. MaxRetries] /\ anchor \in Runs \cup {UnitFree}
  BY DEF CultivationInv
<1>1. CASE run[r] = "superseded"
  <2>1. UNCHANGED <<memoryJobs, dueJobs, ops, tick, cult, base, anchor, gate>>
    BY <1>1 DEF Cultivate, outbox
  <2>2. OutboxKept /\ NoMemoryAdded /\ PendingKept
    BY Zenon, <2>1, OutboxSame, NoMemoryUnchanged
  <2>. QED
    BY Zenon, <1>0, <2>1, <2>2, TickGoesOn, GateStays DEF CultivateEffect
<1>2. CASE run[r] # "superseded"
  <2>1. anchor' \in Runs \cup {UnitFree} /\ ops' = ops
    BY <1>2 DEF Cultivate
  <2>2. CASE Enqueue(Feedback(r)) /\ UNCHANGED <<tick, cult, base, gate>>
    <3>1. OutboxKept /\ NoMemoryAdded /\ PendingKept
      BY Zenon, <2>1, <2>2, FeedbackIsFresh, RunJobsStored
    <3>. QED
      BY Zenon, <1>0, <2>1, <2>2, <3>1, TickGoesOn, GateStays DEF CultivateEffect
  <2>3. CASE /\ Enqueue(Feedback(r) \o Fresh(<<"event", r>>))
             /\ \/ /\ gate.holder = UnitFree
                   /\ gate' = [gate EXCEPT !.holder = r]
                   /\ cult' = [cult EXCEPT ![r] = "calling"]
                   /\ base' = [base EXCEPT ![r] = n]
                   /\ UNCHANGED tick
                \/ JoinTick /\ UNCHANGED <<cult, base, gate>>
    <3>0. PICK new : new = Feedback(r) \o Fresh(<<"event", r>>)
      OBVIOUS
    <3>1. FreshList(new) /\ Enqueue(new)
          /\ \A j : Has(new, j) => j \in {<<"feedback", r>>, <<"event", r>>, <<"distill", r>>}
      BY Zenon, <2>3, <3>0, EventIsFresh
    <3>2. OutboxKept /\ NoMemoryAdded /\ PendingKept
      BY Zenon, <2>1, <3>1, RunJobsStored
    <3>3. TickInv'
      BY Zenon, <2>3, <3>2, TickGoesOn
    <3>4. memoryJobs'[<<"event", r>>].status # "absent"
      <4>1. <<"event", r>> \in Job
        BY Zenon, JobsOfRuns
      <4>2. CASE Absent(<<"event", r>>)
        <5>1. Has(new, <<"event", r>>)
          BY Zenon, <3>0, <4>2, EventIsFresh
        <5>2. memoryJobs'[<<"event", r>>].status = "pending"
          BY Zenon, <3>1, <4>1, <5>1, EnqueueAdds
        <5>. QED
          BY <5>2
      <4>3. CASE ~ Absent(<<"event", r>>)
        BY <3>2, <4>1, <4>3 DEF OutboxKept, OutboxMoves, Absent
      <4>. QED
        BY <4>2, <4>3
    <3>5. CASE JoinTick /\ UNCHANGED <<cult, base, gate>>
      BY Zenon, <1>0, <2>1, <3>2, <3>3, <3>5, GateStays DEF CultivateEffect
    <3>6. CASE /\ gate.holder = UnitFree
               /\ gate' = [gate EXCEPT !.holder = r]
               /\ cult' = [cult EXCEPT ![r] = "calling"]
               /\ base' = [base EXCEPT ![r] = n]
      <4>1. cult' \in [Runs -> {"idle", "calling", "killed"}] /\ base' \in [Runs -> 0 .. MaxRetries]
        BY <1>0, <3>6
      <4>2. /\ gate \in [holder : Runs \cup {UnitFree, Other, "distill"}, closed : BOOLEAN]
            /\ gate' \in [holder : Runs \cup {UnitFree, Other, "distill"}, closed : BOOLEAN]
            /\ gate'.holder = r
        BY <3>6 DEF GateInv
      <4>3. r # UnitFree /\ r # "distill" /\ UnitFree \notin Runs
        BY MemoryAssumption DEF UnitFree
      <4>4. \A q \in Runs : cult[q] \notin {"calling", "killed"}
        BY <3>6, <4>3 DEF GateInv, OneModelCall
      <4>5. ~ (call # NoJob /\ call[1] = "distill")
        BY <3>6 DEF GateInv, OneModelCall, UnitFree
      <4>6. OneModelCall'
        BY <1>0, <3>6, <4>2, <4>3, <4>4, <4>5 DEF OneModelCall
      <4>7. \A q \in Runs : cult'[q] # "idle" => cult[q] # "idle" \/ memoryJobs'[<<"event", q>>].status # "absent"
        BY <1>0, <3>4, <3>6
      <4>. QED
        BY <2>1, <3>2, <3>3, <4>1, <4>2, <4>6, <4>7 DEF CultivateEffect, GateInv
    <3>. QED
      BY <2>3, <3>5, <3>6
  <2>4. \/ Enqueue(Feedback(r)) /\ UNCHANGED <<tick, cult, base, gate>>
        \/ /\ Enqueue(Feedback(r) \o Fresh(<<"event", r>>))
           /\ \/ /\ gate.holder = UnitFree
                 /\ gate' = [gate EXCEPT !.holder = r]
                 /\ cult' = [cult EXCEPT ![r] = "calling"]
                 /\ base' = [base EXCEPT ![r] = n]
                 /\ UNCHANGED tick
              \/ JoinTick /\ UNCHANGED <<cult, base, gate>>
    BY Zenon, <1>2 DEF Cultivate, Feedback
  <2>. QED
    BY Zenon, <2>2, <2>3, <2>4
<1>. QED
  BY <1>1, <1>2

-----------------------------------------------------------------------------
(* The invariant is kept by every action.                                   *)

(* The outbox and the memory program are left alone.                        *)
LEMMA OutboxUntouched ==
  ASSUME OutboxInv, UNCHANGED <<memoryJobs, dueJobs, ops, store>>
  PROVE  OutboxKept /\ PendingKept /\ NoMemoryAdded
BY Zenon, OutboxSame, NoMemoryUnchanged

LEMMA TickReadsStep == ASSUME MemoryInv, TickReads PROVE MemoryInv'
<1>1. UNCHANGED <<memoryJobs, dueJobs, ops, store, call, cultivation, distill, gate, memoryLife>>
  BY DEF TickReads, outbox
<1>2. OutboxKept /\ NoMemoryAdded
  BY Zenon, <1>1, OutboxUntouched DEF MemoryInv
<1>3. CultivationInv' /\ GateInv'
  BY Zenon, <1>1, <1>2, CultivationStays, GateStays DEF MemoryInv, OutboxKept, cultivation
<1>. QED
  BY Zenon, <1>1, <1>2, <1>3, TickReadsKeeps DEF MemoryInv, OutboxKept, RestInv

LEMMA TickCallsStep == ASSUME MemoryInv, TickCalls PROVE MemoryInv'
<1>1. UNCHANGED <<memoryJobs, dueJobs, ops, store, cultivation, distill, memoryLife>> /\ call = NoJob
  BY DEF TickCalls, outbox
<1>2. OutboxKept /\ NoMemoryAdded
  BY Zenon, <1>1, OutboxUntouched DEF MemoryInv
<1>3. CultivationInv'
  BY Zenon, <1>1, <1>2, CultivationStays DEF MemoryInv, OutboxKept
<1>4. /\ TickInv' /\ call' \in Job
      /\ \/ call'[1] = "distill" /\ gate.holder = UnitFree /\ gate' = [gate EXCEPT !.holder = "distill"]
         \/ call'[1] # "distill" /\ gate' = gate
  BY Zenon, TickCallsKeeps DEF MemoryInv
<1>5. GateInv'
  <2>0. /\ gate \in [holder : Runs \cup {UnitFree, Other, "distill"}, closed : BOOLEAN] /\ cult' = cult
        /\ "distill" \notin Runs /\ UnitFree \notin Runs /\ call' # NoJob /\ gate.holder # "distill" 
    BY Zenon, <1>1, <1>4, MemoryAssumption, NoJobIsNone DEF MemoryInv, GateInv, OneModelCall, cultivation, UnitFree
  <2>1. CASE call'[1] = "distill" /\ gate.holder = UnitFree /\ gate' = [gate EXCEPT !.holder = "distill"]
    <3>1. gate' \in [holder : Runs \cup {UnitFree, Other, "distill"}, closed : BOOLEAN] /\ gate'.holder = "distill"
      BY <2>0, <2>1
    <3>2. \A q \in Runs : cult[q] \notin {"calling", "killed"}
      BY <2>0, <2>1 DEF MemoryInv, GateInv, OneModelCall
    <3>. QED
      BY <2>0, <2>1, <3>1, <3>2 DEF GateInv, OneModelCall
  <2>2. CASE call'[1] # "distill" /\ gate' = gate
    BY <2>0, <2>2 DEF MemoryInv, GateInv, OneModelCall
  <2>. QED
    BY <1>4, <2>1, <2>2
<1>. QED
  BY <1>1, <1>2, <1>3, <1>4, <1>5 DEF MemoryInv, OutboxKept, RestInv

LEMMA TickEndsStep == ASSUME MemoryInv, TickEnds PROVE MemoryInv'
<1>1. /\ UNCHANGED <<memoryJobs, dueJobs, ops, store, call, cultivation, distill, gate, memoryLife>>
      /\ tick.on /\ call = NoJob /\ tick' \in {IdleTick, NewTick}
  BY DEF TickEnds, outbox
<1>2. OutboxKept /\ NoMemoryAdded
  BY Zenon, <1>1, OutboxUntouched DEF MemoryInv
<1>3. CultivationInv' /\ GateInv'
  BY Zenon, <1>1, <1>2, CultivationStays, GateStays DEF MemoryInv, OutboxKept, cultivation
<1>4. TickInv'
  BY Zenon, <1>1, TickFresh DEF MemoryInv, TickInv
<1>. QED
  BY <1>1, <1>2, <1>3, <1>4 DEF MemoryInv, OutboxKept, RestInv

LEMMA CliAppliesStep == ASSUME MemoryInv, CliApplies PROVE MemoryInv'
<1>1. /\ UNCHANGED <<memoryJobs, dueJobs, ops, tick, call, cultivation, distill, gate, memoryLife>>
      /\ call # NoJob /\ store' = store \cup {call}
  BY DEF CliApplies, outbox
<1>2. call \in Job
  BY <1>1 DEF MemoryInv, TickInv
<1>3. OutboxKept
  BY Zenon, <1>1, <1>2, ApplyKeeps DEF MemoryInv
<1>4. NoMemoryAdded /\ PendingKept
  BY Zenon, <1>1, NoMemoryUnchanged
<1>5. CultivationInv' /\ GateInv' /\ TickInv'
  BY Zenon, <1>1, <1>3, <1>4, CultivationStays, GateStays, TickGoesOn DEF MemoryInv, OutboxKept, cultivation
<1>. QED
  BY <1>1, <1>3, <1>5 DEF MemoryInv, OutboxKept, RestInv

(* A call settles: what follows from the outbox transaction.                *)
LEMMA SettlesStep ==
  ASSUME MemoryInv, CallSettles, OutboxKept, NoMemoryAdded, distill' \in {distill, NoJob}
  PROVE  MemoryInv'
<1>1. /\ UNCHANGED <<cultivation, memoryLife>> /\ call' = NoJob
      /\ gate' = IF gate.holder = "distill" THEN [gate EXCEPT !.holder = UnitFree] ELSE gate
  BY DEF CallSettles
<1>2. TickInv' /\ CultivationInv'
  BY Zenon, <1>1, TickDropsDue, CultivationStays DEF MemoryInv, OutboxKept
<1>3. GateInv'
  <2>0. /\ gate \in [holder : Runs \cup {UnitFree, Other, "distill"}, closed : BOOLEAN] /\ cult' = cult
        /\ "distill" \notin Runs /\ UnitFree \notin Runs /\ UnitFree # "distill"
    BY <1>1, MemoryAssumption DEF MemoryInv, GateInv, cultivation, UnitFree
  <2>1. CASE gate.holder = "distill"
    <3>1. /\ gate' \in [holder : Runs \cup {UnitFree, Other, "distill"}, closed : BOOLEAN]
          /\ gate'.holder = UnitFree
      BY <1>1, <2>0, <2>1
    <3>2. \A q \in Runs : cult[q] \notin {"calling", "killed"}
      BY <2>0, <2>1 DEF MemoryInv, GateInv, OneModelCall
    <3>. QED
      BY <1>1, <2>0, <3>1, <3>2 DEF GateInv, OneModelCall
  <2>2. CASE gate.holder # "distill"
    BY <1>1, <2>0, <2>2 DEF MemoryInv, GateInv, OneModelCall
  <2>. QED
    BY <2>1, <2>2
<1>. QED
  BY <1>1, <1>2, <1>3 DEF MemoryInv, OutboxKept, RestInv

(* The job whose call settles is pending.                                   *)
LEMMA CalledIsPending ==
  ASSUME MemoryInv, CallSettles
  PROVE  call \in Job /\ Pending(call) /\ OutboxInv /\ store' = store
BY DEF MemoryInv, TickInv, CallSettles

LEMMA CallAnswersOkStep == ASSUME MemoryInv, CallAnswersOk PROVE MemoryInv'
<1>1. /\ CallSettles /\ call \in store
      /\ call \in Job /\ Pending(call) /\ OutboxInv /\ store' = store
  BY Zenon, CalledIsPending DEF CallAnswersOk
<1>2. PICK j : j = call
  OBVIOUS
<1>3. \/ j[1] # "source" /\ AckWithMirror(j) /\ ForgetDistill(j)
      \/ /\ j[1] = "source"
         /\ memoryJobs' = [memoryJobs EXCEPT
                             ![j].status = IF @ = "pending" THEN "acked" ELSE @,
                             ![<<"correct", j[2]>>] = IF @.status = "absent"
                                                   THEN [status |-> "pending", attempts |-> 0] ELSE @]
         /\ dueJobs' = Without(dueJobs, j) \o Fresh(<<"correct", j[2]>>)
         /\ ops' = [ops EXCEPT ![j[2]].job = <<"correct", j[2]>>]
         /\ distill' = distill
      \/ j[1] = "source" /\ BindFollowup(j[2]) /\ distill' = distill
      \/ UNCHANGED <<memoryJobs, dueJobs, ops, distill>>
  BY <1>2 DEF CallAnswersOk, outbox
<1>4. CASE j[1] # "source" /\ AckWithMirror(j) /\ ForgetDistill(j)
  <2>1. OutboxKept
    BY Zenon, <1>1, <1>2, <1>4, AckKeeps
  <2>2. NoMemoryAdded
    BY Zenon, <1>1, <1>2, <1>4, SettleAdds DEF AckWithMirror, OutboxInv, TablesTyped
  <2>3. distill' \in {distill, NoJob}
    BY <1>4 DEF ForgetDistill
  <2>. QED
    BY Zenon, <1>1, <2>1, <2>2, <2>3, SettlesStep
<1>5. ASSUME j[1] = "source"
      PROVE  j[2] \in Corrections /\ j[2] \in OpKeys /\ j = <<"source", j[2]>>
  BY Zenon, <1>1, <1>2, <1>5, SourceJobs
<1>6. CASE /\ j[1] = "source"
           /\ memoryJobs' = [memoryJobs EXCEPT
                               ![j].status = IF @ = "pending" THEN "acked" ELSE @,
                               ![<<"correct", j[2]>>] = IF @.status = "absent"
                                                     THEN [status |-> "pending", attempts |-> 0] ELSE @]
           /\ dueJobs' = Without(dueJobs, j) \o Fresh(<<"correct", j[2]>>)
           /\ ops' = [ops EXCEPT ![j[2]].job = <<"correct", j[2]>>]
           /\ distill' = distill
  <2>1. PICK k \in Corrections : k = j[2] /\ j = <<"source", k>>
    BY <1>5, <1>6
  <2>2. /\ \A i \in Job \ {<<"source", k>>, <<"correct", k>>} : memoryJobs'[i] = memoryJobs[i]
        /\ memoryJobs'[<<"source", k>>].status = "acked"
        /\ memoryJobs'[<<"source", k>>].attempts = memoryJobs[<<"source", k>>].attempts
        /\ Absent(<<"correct", k>>) => memoryJobs'[<<"correct", k>>] = [status |-> "pending", attempts |-> 0]
        /\ ~ Absent(<<"correct", k>>) => memoryJobs'[<<"correct", k>>] = memoryJobs[<<"correct", k>>]
        /\ memoryJobs' \in [Job -> [status : JobStatus, attempts : 0 .. MaxJobAttempts]]
    <3>1. memoryJobs' = [memoryJobs EXCEPT
                          ![<<"source", k>>].status = IF @ = "pending" THEN "acked" ELSE @,
                          ![<<"correct", k>>] = IF @.status = "absent"
                                                THEN [status |-> "pending", attempts |-> 0] ELSE @]
      BY Zenon, <1>6, <2>1
    <3>. QED
      BY Zenon, <1>1, <1>2, <2>1, <3>1, SourceAckRows
  <2>3. OutboxKept
    <3>1. /\ dueJobs' = Without(dueJobs, <<"source", k>>) \o Fresh(<<"correct", k>>)
          /\ ops' = [ops EXCEPT ![k].job = <<"correct", k>>]
          /\ call = <<"source", k>> /\ <<"source", k>> \in store /\ Pending(<<"source", k>>)
      BY Zenon, <1>1, <1>2, <1>6, <2>1
    <3>. QED
      BY Zenon, <1>1, <2>2, <3>1, SourceAckKeeps
  <2>4. NoMemoryAdded
    <3>1. \A i \in Job : i # j /\ i[1] # "correct" => memoryJobs'[i] = memoryJobs[i]
      BY <2>1, <2>2
    <3>. QED
      BY Zenon, <1>1, <1>2, <3>1, SettleAdds
  <2>. QED
    BY Zenon, <1>1, <1>6, <2>3, <2>4, SettlesStep
<1>7. CASE j[1] = "source" /\ BindFollowup(j[2]) /\ distill' = distill
  <2>1. PICK k \in Corrections : k = j[2] /\ j = <<"source", k>>
    BY <1>5, <1>7
  <2>2. OutboxKept
    BY Zenon, <1>1, <1>2, <1>7, <2>1, BindFollowupKeeps
  <2>3. NoMemoryAdded
    <3>1. <<"correct", k>> \in Job /\ Enqueue(Fresh(<<"correct", k>>))
      BY <1>7, <2>1 DEF Job, BindFollowup
    <3>2. /\ FreshList(Fresh(<<"correct", k>>))
          /\ \A i : Has(Fresh(<<"correct", k>>), i) => i = <<"correct", k>>
      BY Zenon, <3>1, FreshOne
    <3>3. \A r \in Runs : ~ Has(Fresh(<<"correct", k>>), <<"remember", r>>)
      BY <3>2
    <3>. QED
      BY Zenon, <1>1, <3>1, <3>2, <3>3, EnqueueAdds
  <2>. QED
    BY Zenon, <1>1, <1>7, <2>2, <2>3, SettlesStep
<1>8. CASE UNCHANGED <<memoryJobs, dueJobs, ops, distill>>
  BY Zenon, <1>1, <1>8, OutboxUntouched, SettlesStep
<1>. QED
  BY <1>3, <1>4, <1>6, <1>7, <1>8

(* A counted failure, final or not.                                         *)
LEMMA FailureStep ==
  ASSUME MemoryInv, CallSettles, NEW max \in {1, MaxJobAttempts}, FailWithMirror(call, max),
         distill' \in {distill, NoJob}
  PROVE  MemoryInv'
<1>1. call \in Job /\ Pending(call) /\ OutboxInv /\ store' = store
  BY Zenon, CalledIsPending
<1>2. OutboxKept
  BY Zenon, <1>1, FailKeeps
<1>3. NoMemoryAdded
  BY Zenon, <1>1, SettleAdds DEF FailWithMirror, OutboxInv, TablesTyped
<1>. QED
  BY Zenon, <1>2, <1>3, SettlesStep

LEMMA JobCallFailsStep == ASSUME MemoryInv, JobCallFails PROVE MemoryInv'
<1>1. CallSettles /\ distill' = distill
  BY DEF JobCallFails
<1>2. CASE \E max \in {1, MaxJobAttempts} : FailWithMirror(call, max)
  BY Zenon, <1>1, <1>2, FailureStep
<1>3. CASE UNCHANGED <<memoryJobs, dueJobs, ops>>
  BY Zenon, <1>1, <1>3, OutboxUntouched, SettlesStep, CalledIsPending
<1>. QED
  BY <1>2, <1>3 DEF JobCallFails, outbox

LEMMA CallRefusedStep == ASSUME MemoryInv, CallRefused PROVE MemoryInv'
<1>1. CallSettles
  BY DEF CallRefused
<1>2. CASE FailWithMirror(call, 1) /\ ForgetDistill(call)
  BY Zenon, <1>1, <1>2, FailureStep DEF ForgetDistill
<1>3. CASE UNCHANGED <<memoryJobs, dueJobs, ops, distill>>
  BY Zenon, <1>1, <1>3, OutboxUntouched, SettlesStep, CalledIsPending
<1>. QED
  BY <1>2, <1>3 DEF CallRefused, outbox

LEMMA BackoffStep == ASSUME MemoryInv, NEW j \in Job, BackoffEnds(j) PROVE MemoryInv'
<1>1. UNCHANGED <<memoryJobs, tick, call, cultivation, distill, gate, memoryLife>>
  BY DEF BackoffEnds
<1>2. OutboxKept /\ NoMemoryAdded /\ PendingKept
  BY Zenon, <1>1, BackoffKeeps, NoMemoryUnchanged DEF MemoryInv
<1>3. CultivationInv' /\ GateInv' /\ TickInv'
  BY Zenon, <1>1, <1>2, CultivationStays, GateStays, TickGoesOn DEF MemoryInv, OutboxKept, cultivation
<1>. QED
  BY <1>1, <1>2, <1>3 DEF MemoryInv, OutboxKept, RestInv

(* A cultivation starts, with what its caller records.                      *)
LEMMA CultivateStep ==
  ASSUME MemoryInv, NEW r \in Runs, NEW n \in 0 .. MaxRetries, Cultivate(r, n),
         UNCHANGED <<store, call, distill, memoryLife>>,
         run' \in [Runs -> {"live", "selected", "superseded"}], retry' \in [Runs -> 0 .. MaxRetries]
  PROVE  MemoryInv'
<1>1. CultivateEffect(r)
  BY Zenon, CultivateKeeps DEF MemoryInv
<1>2. OutboxMoves /\ OutboxInv'
  BY <1>1 DEF CultivateEffect, OutboxKept
<1>3. \A q \in Runs : ~ Absent(<<"event", q>>) => memoryJobs'[<<"event", q>>].status # "absent"
  BY Zenon, <1>2, JobsOfRuns DEF OutboxMoves, Absent
<1>4. \A q \in Runs : cult'[q] # "idle" => memoryJobs'[<<"event", q>>].status # "absent"
  BY <1>1, <1>3 DEF CultivateEffect, MemoryInv, CultivationInv
<1>5. \A q \in Runs : memoryJobs'[<<"remember", q>>].status # "absent" =>
                        memoryJobs'[<<"event", q>>].status # "absent"
  BY <1>1, <1>3 DEF CultivateEffect, NoMemoryAdded, MemoryInv, CultivationInv
<1>6. CultivationInv'
  BY <1>1, <1>4, <1>5 DEF CultivateEffect, CultivationInv, Absent
<1>. QED
  BY <1>1, <1>2, <1>6 DEF CultivateEffect, MemoryInv, RestInv

LEMMA RunCompletesStep == ASSUME MemoryInv, NEW r \in Runs, RunCompletes(r) PROVE MemoryInv'
<1>1. /\ Cultivate(r, 0) /\ UNCHANGED <<store, call, distill, memoryLife, retry>>
      /\ run' = [run EXCEPT ![r] = "selected"]
  BY DEF RunCompletes
<1>2. run' \in [Runs -> {"live", "selected", "superseded"}] /\ retry' \in [Runs -> 0 .. MaxRetries]
  BY <1>1 DEF MemoryInv, CultivationInv
<1>3. 0 \in 0 .. MaxRetries
  BY MemoryAssumption
<1>. QED
  BY Zenon, <1>1, <1>2, <1>3, CultivateStep

LEMMA IdleRetryStep == ASSUME MemoryInv, NEW r \in Runs, IdleRetry(r) PROVE MemoryInv'
<1>1. /\ Cultivate(r, retry[r]) /\ UNCHANGED <<store, call, distill, memoryLife, run>>
      /\ retry' = [retry EXCEPT ![r] = 0]
  BY DEF IdleRetry
<1>2. run' \in [Runs -> {"live", "selected", "superseded"}] /\ retry' \in [Runs -> 0 .. MaxRetries]
  BY <1>1, MemoryAssumption DEF MemoryInv, CultivationInv
<1>3. retry[r] \in 0 .. MaxRetries
  BY DEF MemoryInv, CultivationInv
<1>. QED
  BY Zenon, <1>1, <1>2, <1>3, CultivateStep

LEMMA SupersededStep == ASSUME MemoryInv, NEW r \in Runs, Superseded(r) PROVE MemoryInv'
<1>1. /\ UNCHANGED <<memoryJobs, dueJobs, ops, store, tick, call, cult, retry, base, anchor,
                     distill, gate, memoryLife>>
      /\ run' = [run EXCEPT ![r] = "superseded"]
  BY DEF Superseded, outbox
<1>2. OutboxKept /\ NoMemoryAdded /\ PendingKept
  BY Zenon, <1>1, OutboxUntouched DEF MemoryInv
<1>3. run' \in [Runs -> {"live", "selected", "superseded"}]
  BY <1>1 DEF MemoryInv, CultivationInv
<1>4. CultivationInv'
  BY Zenon, <1>1, <1>2, <1>3, CultivationGoesOn DEF MemoryInv, OutboxKept, CultivationInv
<1>5. GateInv' /\ TickInv'
  BY Zenon, <1>1, <1>2, GateStays, TickGoesOn DEF MemoryInv
<1>. QED
  BY <1>1, <1>2, <1>4, <1>5 DEF MemoryInv, OutboxKept, RestInv

LEMMA ExtractionReturnsStep ==
  ASSUME MemoryInv, NEW r \in Runs, ExtractionReturns(r)
  PROVE  MemoryInv'
<1>1. /\ cult[r] \in {"calling", "killed"} /\ cult' = [cult EXCEPT ![r] = "idle"]
      /\ gate' = [gate EXCEPT !.holder = UnitFree] /\ JoinTick
      /\ UNCHANGED <<ops, store, call, run, base, anchor, distill, memoryLife>>
  BY DEF ExtractionReturns
<1>2. \/ Enqueue(Fresh(<<"remember", r>>)) \/ UNCHANGED <<memoryJobs, dueJobs>>
  BY DEF ExtractionReturns
<1>3. retry' \in [Runs -> 0 .. MaxRetries]
  <2>1. /\ retry \in [Runs -> 0 .. MaxRetries] /\ base[r] \in 0 .. MaxRetries
    BY DEF MemoryInv, CultivationInv
  <2>2. (IF Up /\ ~gate.closed /\ base[r] < MaxRetries THEN base[r] + 1 ELSE 0) \in 0 .. MaxRetries
    BY <2>1, MemoryAssumption
  <2>3. \/ retry' = [retry EXCEPT ![r] = IF Up /\ ~gate.closed /\ base[r] < MaxRetries THEN base[r] + 1 ELSE 0]
        \/ retry' = retry
    BY Zenon DEF ExtractionReturns
  <2>. QED
    BY <2>1, <2>2, <2>3
<1>4. /\ <<"remember", r>> \in Job /\ <<"event", r>> \in Job /\ ~ Absent(<<"event", r>>)
  BY Zenon, <1>1, JobsOfRuns DEF MemoryInv, CultivationInv
<1>5. OutboxKept /\ PendingKept
      /\ \A q \in Runs : q # r /\ Absent(<<"remember", q>>) => memoryJobs'[<<"remember", q>>].status = "absent"
  <2>1. CASE Enqueue(Fresh(<<"remember", r>>))
    <3>1. /\ FreshList(Fresh(<<"remember", r>>))
          /\ \A i : Has(Fresh(<<"remember", r>>), i) => i = <<"remember", r>>
      BY Zenon, <1>4, FreshOne
    <3>2. \A j \in OpJobs : ~ Has(Fresh(<<"remember", r>>), j)
      BY Zenon, <3>1, RunJobsAreNoOpJobs
    <3>3. OutboxKept /\ PendingKept
      BY Zenon, <1>1, <2>1, <3>1, <3>2, RunJobsEnqueued, EnqueueAdds DEF MemoryInv
    <3>4. \A j \in Job : ~ Has(Fresh(<<"remember", r>>), j) => memoryJobs'[j] = memoryJobs[j]
      BY Zenon, <2>1, <3>1, EnqueueRows DEF MemoryInv, OutboxInv, TablesTyped
    <3>5. \A q \in Runs : q # r => <<"remember", q>> \in Job /\ ~ Has(Fresh(<<"remember", r>>), <<"remember", q>>)
      BY Zenon, <3>1, JobsOfRuns
    <3>. QED
      BY <3>3, <3>4, <3>5 DEF Absent
  <2>2. CASE UNCHANGED <<memoryJobs, dueJobs>>
    BY Zenon, <1>1, <2>2, OutboxUntouched DEF MemoryInv, NoMemoryAdded
  <2>. QED
    BY <1>2, <2>1, <2>2
<1>6. CultivationInv'
  <2>1. \A q \in Runs : ~ Absent(<<"event", q>>) => memoryJobs'[<<"event", q>>].status # "absent"
    BY Zenon, <1>5, JobsOfRuns DEF OutboxKept, OutboxMoves, Absent
  <2>2. \A q \in Runs : cult'[q] # "idle" => cult[q] # "idle"
    BY <1>1 DEF MemoryInv, CultivationInv
  <2>3. \A q \in Runs : memoryJobs'[<<"remember", q>>].status # "absent" =>
                          memoryJobs'[<<"event", q>>].status # "absent"
    BY <1>4, <1>5, <2>1 DEF MemoryInv, CultivationInv
  <2>4. cult' \in [Runs -> {"idle", "calling", "killed"}]
    BY <1>1 DEF MemoryInv, CultivationInv
  <2>. QED
    BY <1>1, <1>3, <2>1, <2>2, <2>3, <2>4 DEF MemoryInv, CultivationInv, Absent
<1>7. GateInv'
  <2>0. /\ gate \in [holder : Runs \cup {UnitFree, Other, "distill"}, closed : BOOLEAN]
        /\ "distill" \notin Runs /\ UnitFree \notin Runs /\ UnitFree # "distill"
        /\ cult \in [Runs -> {"idle", "calling", "killed"}]
    BY MemoryAssumption DEF MemoryInv, GateInv, CultivationInv, UnitFree
  <2>1. gate.holder = r
    BY <1>1 DEF MemoryInv, GateInv, OneModelCall
  <2>2. \A q \in Runs : q # r => cult[q] \notin {"calling", "killed"}
    BY <2>1 DEF MemoryInv, GateInv, OneModelCall
  <2>3. ~ (call # NoJob /\ call[1] = "distill")
    BY <2>0, <2>1 DEF MemoryInv, GateInv, OneModelCall
  <2>4. \A q \in Runs : cult'[q] \notin {"calling", "killed"}
    BY <1>1, <2>0, <2>2
  <2>5. /\ gate' \in [holder : Runs \cup {UnitFree, Other, "distill"}, closed : BOOLEAN]
        /\ gate'.holder = UnitFree
    BY <1>1, <2>0
  <2>. QED
    BY <1>1, <2>0, <2>3, <2>4, <2>5 DEF GateInv, OneModelCall
<1>8. TickInv'
  BY Zenon, <1>1, <1>5, TickGoesOn DEF MemoryInv
<1>. QED
  BY <1>1, <1>5, <1>6, <1>7, <1>8 DEF MemoryInv, OutboxKept, RestInv

LEMMA IdleDistillStep == ASSUME MemoryInv, IdleDistill PROVE MemoryInv'
<1>1. UNCHANGED <<ops, store, call, cultivation, gate, memoryLife>>
  BY DEF IdleDistill
<1>2. PICK key : key = <<"distill", anchor>>
  OBVIOUS
<1>3. /\ \/ UNCHANGED <<memoryJobs, dueJobs>>
         \/ anchor # UnitFree /\ Enqueue(Fresh(key))
      /\ tick' = tick \/ JoinTick
      /\ distill' \in {distill, NoJob} \/ (anchor # UnitFree /\ distill' = key)
  BY <1>2 DEF IdleDistill
<1>4. anchor # UnitFree => anchor \in Runs /\ key \in Job
  BY Zenon, <1>2, JobsOfRuns DEF MemoryInv, CultivationInv
<1>5. OutboxKept /\ PendingKept /\ NoMemoryAdded
  <2>1. CASE UNCHANGED <<memoryJobs, dueJobs>>
    BY Zenon, <1>1, <2>1, OutboxUntouched DEF MemoryInv
  <2>2. CASE anchor # UnitFree /\ Enqueue(Fresh(key))
    <3>1. anchor \in Runs /\ FreshList(Fresh(key)) /\ \A j : Has(Fresh(key), j) => j = <<"distill", anchor>>
      BY Zenon, <1>2, <1>4, <2>2, FreshOne
    <3>. QED
      BY Zenon, <1>1, <2>2, <3>1, RunJobsStored DEF MemoryInv
  <2>. QED
    BY <1>3, <2>1, <2>2
<1>6. CultivationInv' /\ GateInv' /\ TickInv'
  BY Zenon, <1>1, <1>3, <1>5, CultivationStays, GateStays, TickGoesOn DEF MemoryInv, OutboxKept, cultivation
<1>7. distill' \in Job \cup {NoJob}
  BY <1>3, <1>4 DEF MemoryInv, RestInv
<1>. QED
  BY <1>1, <1>5, <1>6, <1>7 DEF MemoryInv, OutboxKept, RestInv

(* Steps that leave all but the flags of the maintenance, the stagings and  *)
(* the budget alone.                                                        *)
LEMMA AsideStep ==
  ASSUME MemoryInv,
         UNCHANGED <<memoryJobs, dueJobs, ops, store, tick, call, cultivation, distill, gate, memoryLife>>
  PROVE  MemoryInv'
<1>1. OutboxKept /\ NoMemoryAdded /\ PendingKept
  BY Zenon, OutboxUntouched DEF MemoryInv
<1>2. CultivationInv' /\ GateInv' /\ TickInv'
  BY Zenon, <1>1, CultivationStays, GateStays, TickGoesOn DEF MemoryInv, OutboxKept, cultivation
<1>. QED
  BY <1>1, <1>2 DEF MemoryInv, OutboxKept, RestInv

LEMMA StageEndsStep == ASSUME MemoryInv, NEW k \in OpKeys, StageEnds(k) PROVE MemoryInv'
<1>1. UNCHANGED <<store, tick, call, cultivation, distill, gate, memoryLife>>
  BY DEF StageEnds
<1>2. CASE UNCHANGED outbox
  BY Zenon, <1>1, <1>2, AsideStep DEF outbox
<1>3. CASE StageAtomic(k)
  <2>1. OutboxKept /\ NoMemoryAdded /\ PendingKept
    BY Zenon, <1>1, <1>3, StageAtomicKeeps, StageAdds DEF MemoryInv
  <2>2. CultivationInv' /\ GateInv' /\ TickInv'
    BY Zenon, <1>1, <2>1, CultivationStays, GateStays, TickGoesOn DEF MemoryInv, OutboxKept, cultivation
  <2>. QED
    BY <1>1, <2>1, <2>2 DEF MemoryInv, OutboxKept, RestInv
<1>. QED
  BY <1>2, <1>3 DEF StageEnds

(* The aborted extractions keep their lease.                                *)
LEMMA GateAborts ==
  ASSUME CultivationInv, GateInv, cult' = Killed(cult), call' = call,
         gate' = gate \/ gate' = [gate EXCEPT !.closed = TRUE]
  PROVE  GateInv'
<1>1. /\ gate' \in [holder : Runs \cup {UnitFree, Other, "distill"}, closed : BOOLEAN]
      /\ gate'.holder = gate.holder
  BY DEF GateInv
<1>2. \A r \in Runs : cult'[r] \in {"calling", "killed"} <=> cult[r] \in {"calling", "killed"}
  BY DEF CultivationInv, Killed
<1>. QED
  BY <1>1, <1>2 DEF GateInv, OneModelCall

LEMMA NotifyForegroundStep == ASSUME MemoryInv, NotifyForeground PROVE MemoryInv'
<1>1. /\ UNCHANGED <<memoryJobs, dueJobs, ops, store, tick, call, run, retry, base, anchor,
                     distill, gate, memoryLife>>
      /\ cult' = Killed(cult)
  BY DEF NotifyForeground, outbox
<1>2. OutboxKept /\ NoMemoryAdded /\ PendingKept
  BY Zenon, <1>1, OutboxUntouched DEF MemoryInv
<1>3. CultivationInv'
  BY Zenon, <1>1, <1>2, KilledTyped, CultivationGoesOn DEF MemoryInv, OutboxKept, CultivationInv
<1>4. GateInv' /\ TickInv'
  BY Zenon, <1>1, <1>2, GateAborts, TickGoesOn DEF MemoryInv
<1>. QED
  BY <1>1, <1>2, <1>3, <1>4 DEF MemoryInv, OutboxKept, RestInv

LEMMA OtherUnitStep == ASSUME MemoryInv, OtherUnit PROVE MemoryInv'
<1>1. /\ UNCHANGED <<memoryJobs, dueJobs, ops, store, tick, call, cultivation, distill, memoryLife>>
      /\ \/ gate.holder = UnitFree /\ gate' = [gate EXCEPT !.holder = Other]
         \/ gate.holder = Other /\ gate' = [gate EXCEPT !.holder = UnitFree]
  BY DEF OtherUnit, outbox
<1>2. OutboxKept /\ NoMemoryAdded /\ PendingKept
  BY Zenon, <1>1, OutboxUntouched DEF MemoryInv
<1>3. CultivationInv' /\ TickInv'
  BY Zenon, <1>1, <1>2, CultivationStays, TickGoesOn DEF MemoryInv, OutboxKept
<1>4. GateInv'
  <2>0. /\ gate \in [holder : Runs \cup {UnitFree, Other, "distill"}, closed : BOOLEAN] /\ cult' = cult
        /\ "distill" \notin Runs /\ UnitFree \notin Runs /\ Other \notin Runs
        /\ UnitFree # "distill" /\ Other # "distill"
    BY <1>1, MemoryAssumption DEF MemoryInv, GateInv, cultivation, UnitFree, Other
  <2>1. gate' \in [holder : Runs \cup {UnitFree, Other, "distill"}, closed : BOOLEAN]
        /\ gate.holder \in {UnitFree, Other} /\ gate'.holder \in {UnitFree, Other}
    BY <1>1, <2>0
  <2>2. \A q \in Runs : cult[q] \notin {"calling", "killed"}
    BY <2>0, <2>1 DEF MemoryInv, GateInv, OneModelCall
  <2>3. ~ (call # NoJob /\ call[1] = "distill")
    BY <2>0, <2>1 DEF MemoryInv, GateInv, OneModelCall
  <2>. QED
    BY <1>1, <2>0, <2>1, <2>2, <2>3 DEF GateInv, OneModelCall
<1>. QED
  BY <1>1, <1>2, <1>3, <1>4 DEF MemoryInv, OutboxKept, RestInv

LEMMA StopStep == ASSUME MemoryInv, Stop PROVE MemoryInv'
<1>1. /\ UNCHANGED <<memoryJobs, dueJobs, ops, store, call, run, retry, base, anchor, distill>>
      /\ memoryLife' = "stopping" /\ cult' = Killed(cult)
      /\ gate' = [gate EXCEPT !.closed = TRUE] /\ tick' = [tick EXCEPT !.aborted = tick.on]
  BY DEF Stop, outbox
<1>2. OutboxKept /\ NoMemoryAdded /\ PendingKept
  BY Zenon, <1>1, OutboxUntouched DEF MemoryInv
<1>3. CultivationInv'
  BY Zenon, <1>1, <1>2, KilledTyped, CultivationGoesOn DEF MemoryInv, OutboxKept, CultivationInv
<1>4. GateInv' /\ TickInv'
  BY Zenon, <1>1, GateAborts, TickAborts DEF MemoryInv
<1>. QED
  BY <1>1, <1>2, <1>3, <1>4 DEF MemoryInv, OutboxKept, RestInv

LEMMA StopResolvesStep == ASSUME MemoryInv, StopResolves PROVE MemoryInv'
<1>1. /\ UNCHANGED <<memoryJobs, dueJobs, ops, store, tick, call, cultivation, distill, gate>>
      /\ memoryLife' = "stopped" /\ ~ tick.on
  BY DEF StopResolves, outbox
<1>2. OutboxKept /\ NoMemoryAdded
  BY Zenon, <1>1, OutboxUntouched DEF MemoryInv
<1>3. CultivationInv' /\ GateInv'
  BY Zenon, <1>1, <1>2, CultivationStays, GateStays DEF MemoryInv, OutboxKept, cultivation
<1>4. TickInv'
  BY <1>1 DEF MemoryInv, TickInv, Pending
<1>. QED
  BY <1>1, <1>2, <1>3, <1>4 DEF MemoryInv, OutboxKept, RestInv

LEMMA MemoryProcessEndsStep == ASSUME MemoryInv, MemoryProcessEnds PROVE MemoryInv'
<1>1. /\ UNCHANGED <<memoryJobs, dueJobs, ops, store>>
      /\ memoryLife' = "down" /\ tick' = IdleTick /\ call' = NoJob
      /\ cult' = [r \in Runs |-> "idle"] /\ retry' = [r \in Runs |-> 0] /\ base' = [r \in Runs |-> 0]
      /\ anchor' = UnitFree /\ distill' = NoJob /\ gate' = [holder |-> UnitFree, closed |-> FALSE]
      /\ run' = run \/ \E r \in budget.runs : run' = [run EXCEPT ![r] = "selected"]
  BY DEF MemoryProcessEnds, outbox
<1>2. OutboxKept /\ NoMemoryAdded
  BY Zenon, <1>1, OutboxUntouched DEF MemoryInv
<1>3. run' \in [Runs -> {"live", "selected", "superseded"}]
  BY <1>1 DEF MemoryInv, CultivationInv
<1>4. CultivationInv'
  <2>1. 0 \in 0 .. MaxRetries
    BY MemoryAssumption
  <2>2. \A r \in Runs : memoryJobs'[<<"remember", r>>].status # "absent" =>
                          memoryJobs'[<<"event", r>>].status # "absent"
    BY <1>1 DEF MemoryInv, CultivationInv, Absent
  <2>. QED
    BY <1>1, <1>3, <2>1, <2>2 DEF CultivationInv, Absent
<1>5. TickInv'
  BY Zenon, <1>1, TickFresh
<1>6. GateInv'
  BY <1>1, MemoryAssumption DEF GateInv, OneModelCall, UnitFree
<1>. QED
  BY <1>1, <1>2, <1>4, <1>5, <1>6 DEF MemoryInv, OutboxKept, RestInv

LEMMA RestartStep == ASSUME MemoryInv, Restart PROVE MemoryInv'
<1>1. /\ UNCHANGED <<memoryJobs, dueJobs, ops, store, call, cultivation, distill, gate>>
      /\ memoryLife = "down" /\ memoryLife' = "up" /\ tick' = NewTick
  BY DEF Restart, outbox
<1>2. OutboxKept /\ NoMemoryAdded
  BY Zenon, <1>1, OutboxUntouched DEF MemoryInv
<1>3. CultivationInv' /\ GateInv'
  BY Zenon, <1>1, <1>2, CultivationStays, GateStays DEF MemoryInv, OutboxKept, cultivation
<1>4. call = NoJob
  BY <1>1 DEF MemoryInv, TickInv
<1>5. TickInv'
  BY Zenon, <1>1, <1>4, TickFresh
<1>. QED
  BY <1>1, <1>2, <1>3, <1>5 DEF MemoryInv, OutboxKept, RestInv

-----------------------------------------------------------------------------
(* The theorems.                                                            *)

LEMMA MemoryStarts == MemoryInit => MemoryInv
<1>. SUFFICES ASSUME MemoryInit PROVE MemoryInv
  OBVIOUS
<1>1. 0 \in 0 .. MaxJobAttempts /\ 0 < MaxJobAttempts /\ 0 \in 0 .. MaxRetries
  BY MemoryAssumption
<1>2. TablesTyped
  BY <1>1 DEF MemoryInit, TablesTyped, JobStatus, Pending
<1>3. DueListed
  <2>1. dueJobs \in Seq(Job) /\ Len(dueJobs) = 0
    BY EmptySeq DEF MemoryInit
  <2>. QED
    BY <2>1 DEF DueListed
<1>4. \A j \in Job : Absent(j)
  BY DEF MemoryInit, Absent
<1>5. \A k \in OpKeys : Bound(k)
  <2>. SUFFICES ASSUME NEW k \in OpKeys PROVE Bound(k)
    OBVIOUS
  <2>1. FirstJob(k) \in Job /\ RealJob(k) \in Job
    BY Zenon, JobsOfKeys
  <2>2. ops[k].status = "absent"
    BY DEF MemoryInit
  <2>. QED
    BY <1>4, <2>1, <2>2 DEF Bound
<1>6. Applied
  <2>1. \A k \in Corrections : <<"correct", k>> \in Job
    BY DEF Job
  <2>. QED
    BY <1>4, <2>1 DEF Applied, Absent
<1>7. TickInv
  <2>1. tick \in TickType /\ Len(tick.page) = 0 /\ call = NoJob /\ memoryLife = "up"
    BY Zenon, TicksTyped DEF MemoryInit
  <2>. QED
    BY <2>1 DEF TickInv, TickType
<1>8. CultivationInv
  BY Zenon, <1>1, <1>4, JobsOfRuns DEF MemoryInit, CultivationInv, Absent
<1>9. GateInv
  BY MemoryAssumption DEF MemoryInit, GateInv, OneModelCall, UnitFree
<1>10. RestInv
  BY DEF MemoryInit, RestInv
<1>. QED
  BY <1>2, <1>3, <1>5, <1>6, <1>7, <1>8, <1>9, <1>10 DEF MemoryInv, OutboxInv

LEMMA MemoryStep == MemoryInv /\ [MemoryNext]_memoryVars => MemoryInv'
<1>. SUFFICES ASSUME MemoryInv, [MemoryNext]_memoryVars PROVE MemoryInv'
  OBVIOUS
<1>1. CASE DrainStep
  BY Zenon, <1>1, TickReadsStep, TickCallsStep, TickEndsStep, CliAppliesStep, CallAnswersOkStep,
     JobCallFailsStep, CallRefusedStep DEF DrainStep
<1>2. CASE \E j \in Job : BackoffEnds(j)
  BY Zenon, <1>2, BackoffStep
<1>3. CASE \E r \in Runs : RunCompletes(r) \/ Superseded(r) \/ IdleRetry(r) \/ ExtractionReturns(r)
  BY Zenon, <1>3, RunCompletesStep, SupersededStep, IdleRetryStep, ExtractionReturnsStep
<1>4. CASE IdleDistill
  BY Zenon, <1>4, IdleDistillStep
<1>5. CASE AssociateStarts \/ AssociateReturns
  BY Zenon, <1>5, AsideStep DEF AssociateStarts, AssociateReturns, outbox
<1>6. CASE \E k \in OpKeys : StageBegins(k) \/ StageEnds(k)
  <2>1. ASSUME NEW k \in OpKeys, StageBegins(k) PROVE MemoryInv'
    BY Zenon, <2>1, AsideStep DEF StageBegins, outbox
  <2>. QED
    BY Zenon, <1>6, <2>1, StageEndsStep
<1>7. CASE NotifyForeground \/ OtherUnit
  BY Zenon, <1>7, NotifyForegroundStep, OtherUnitStep
<1>8. CASE Stop \/ StopResolves \/ MemoryProcessEnds \/ Restart
  BY Zenon, <1>8, StopStep, StopResolvesStep, MemoryProcessEndsStep, RestartStep
<1>9. CASE UNCHANGED memoryVars
  BY Zenon, <1>9, AsideStep DEF memoryVars, cultivation
<1>. QED
  BY <1>1, <1>2, <1>3, <1>4, <1>5, <1>6, <1>7, <1>8, <1>9 DEF MemoryNext

(* The invariant holds of every state of the memory service.                *)
THEOREM MemoryInvariance == MemorySpec => []MemoryInv
<1>. QED
  BY MemoryStarts, MemoryStep, PTL DEF MemorySpec

LEMMA MemoryInvTyped == MemoryInv => MemoryTypeOK
<1>. SUFFICES ASSUME MemoryInv PROVE MemoryTypeOK
  OBVIOUS
<1>1. DOMAIN dueJobs = 1 .. Len(dueJobs)
  BY Zenon, DueFacts, LenProperties DEF MemoryInv, OutboxInv
<1>2. \A i \in DOMAIN dueJobs : dueJobs[i] \in Job /\ Pending(dueJobs[i])
  BY Zenon, <1>1, DueFacts DEF MemoryInv, OutboxInv
<1>3. \A h, i \in DOMAIN dueJobs : dueJobs[h] = dueJobs[i] => h = i
  BY Zenon, <1>1, DueFacts DEF MemoryInv, OutboxInv
<1>4. /\ memoryJobs \in [Job -> [status : JobStatus, attempts : 0 .. MaxJobAttempts]]
      /\ ops \in [OpKeys -> [status : JobStatus, job : Job \cup {NoJob}]]
      /\ store \subseteq Job
  BY DEF MemoryInv, OutboxInv, TablesTyped
<1>5. call \in Job \cup {NoJob} /\ tick.executed \in 0 .. DrainBatch
  BY DEF MemoryInv, TickInv
<1>6. /\ run \in [Runs -> {"live", "selected", "superseded"}]
      /\ cult \in [Runs -> {"idle", "calling", "killed"}]
      /\ retry \in [Runs -> 0..MaxRetries] /\ base \in [Runs -> 0..MaxRetries]
  BY DEF MemoryInv, CultivationInv
<1>7. gate.holder \in Runs \cup {UnitFree, Other, "distill"}
  BY DEF MemoryInv, GateInv
<1>. QED
  BY <1>2, <1>3, <1>4, <1>5, <1>6, <1>7 DEF MemoryTypeOK, MemoryInv, RestInv

(* The tables and the service's variables keep their shape, and a due job   *)
(* is pending and listed once.                                              *)
THEOREM MemoryTypeCorrect == MemorySpec => []MemoryTypeOK
<1>. QED
  BY MemoryInvariance, MemoryInvTyped, PTL

LEMMA MemoryInvHonest == MemoryInv => OperationsHonest
<1>. SUFFICES ASSUME MemoryInv PROVE OperationsHonest
  OBVIOUS
<1>1. MirrorAgrees
  BY DEF MemoryInv, OutboxInv, Bound, MirrorAgrees
<1>2. ASSUME NEW k \in OpKeys, ops[k].status = "acked" PROVE RealJob(k) \in store
  <2>1. FirstJob(k) \in Job /\ RealJob(k) \in Job
    BY Zenon, JobsOfKeys
  <2>2. ops[k].job = RealJob(k) /\ memoryJobs[RealJob(k)].status = "acked"
    BY <1>2, <2>1 DEF MemoryInv, OutboxInv, Bound
  <2>. QED
    BY <2>1, <2>2 DEF MemoryInv, OutboxInv, Applied
<1>3. AckIsApplied
  BY <1>2 DEF MemoryInv, OutboxInv, Applied, AckIsApplied
<1>4. SourceFirst
  BY DEF MemoryInv, OutboxInv, Applied, CultivationInv, Absent, SourceFirst
<1>. QED
  BY <1>1, <1>3, <1>4 DEF OperationsHonest

(* What memory management tells its users is true - the status of an        *)
(* operation is that of its job, what is acknowledged was applied, sources  *)
(* come first - and at most one model call runs, holding the unit.          *)
THEOREM MemorySound == MemorySpec => []MemorySafe
<1>1. MemoryInv => MemorySafe
  BY Zenon, MemoryInvHonest DEF MemorySafe, MemoryInv, GateInv
<1>. QED
  BY <1>1, MemoryInvariance, PTL

LEMMA StoppedIsQuiet ==
  MemoryInv /\ [MemoryNext]_memoryVars =>
    [memoryLife = "stopped" => UNCHANGED <<memoryJobs, ops>>]_memoryVars
<1>. SUFFICES ASSUME MemoryInv, MemoryNext, memoryLife = "stopped"
              PROVE  UNCHANGED <<memoryJobs, ops>>
  BY DEF memoryVars
<1>1. ~ tick.on /\ call = NoJob /\ ~ Up
  BY DEF MemoryInv, TickInv, Up
<1>2. CASE DrainStep
  BY <1>1, <1>2 DEF DrainStep, TickReads, TickCalls, TickEnds, CliApplies, CallAnswersOk, JobCallFails,
                    CallRefused, CallSettles
<1>3. CASE \E j \in Job : BackoffEnds(j)
  BY <1>3 DEF BackoffEnds
<1>4. CASE \E r \in Runs : RunCompletes(r) \/ Superseded(r) \/ IdleRetry(r) \/ ExtractionReturns(r)
  BY <1>1, <1>4 DEF RunCompletes, Superseded, IdleRetry, ExtractionReturns
<1>5. CASE IdleDistill \/ AssociateStarts \/ AssociateReturns
  BY <1>1, <1>5 DEF IdleDistill, AssociateStarts, AssociateReturns, outbox
<1>6. CASE \E k \in OpKeys : StageBegins(k) \/ StageEnds(k)
  BY <1>1, <1>6 DEF StageBegins, StageEnds, outbox
<1>7. CASE NotifyForeground \/ OtherUnit
  BY <1>7 DEF NotifyForeground, OtherUnit, outbox
<1>8. CASE Stop \/ StopResolves \/ MemoryProcessEnds \/ Restart
  BY <1>8 DEF Stop, StopResolves, MemoryProcessEnds, Restart, outbox
<1>. QED
  BY <1>2, <1>3, <1>4, <1>5, <1>6, <1>7, <1>8 DEF MemoryNext

(* Once stop() has returned, no job and no operation is written, although   *)
(* extractions and stagings may still be in flight.                         *)
THEOREM NothingAfterStop == MemorySpec => QuietAfterStop
<1>. QED
  BY MemoryInvariance, StoppedIsQuiet, PTL DEF MemorySpec, QuietAfterStop

=============================================================================
