---------------------------- MODULE MCBackground ----------------------------
(***************************************************************************)
(* The background services, for TLC.  Each is explored by itself: `part`    *)
(* names the one that moves, the others stay in their initial states, and   *)
(* the state spaces add up.  What a service takes from another (a           *)
(* foreground Run, the background gate, the control) is an action of its    *)
(* own module.                                                              *)
(***************************************************************************)
EXTENDS MemoryOutbox, ShadowWorker, AutoDispatch, Notifications

VARIABLE part   \* the service that moves

Parts == {"memory", "shadow", "dispatch", "notices"}

(* The counts of f, and nothing else.                                       *)
Counts(names, f) == [x \in names |-> IF x \in DOMAIN f THEN f[x] ELSE 0]

MemoryLoad(ended, keys, errors, failures, crashes, preempts, leases) ==
  [runs |-> ended, keys |-> keys, faults |-> errors, failures |-> failures,
   crashes |-> crashes, preempts |-> preempts, leases |-> leases]

(* Stored turns with faults, crashes, preemption and foreign leases; two    *)
(* operations with faults and a crash; both kinds of work over one tick.    *)
MCWorkloads ==
  {MemoryLoad({"r"}, {}, 1, 0, 1, 0, 0), MemoryLoad({"r"}, {}, 0, 1, 1, 1, 0),
   MemoryLoad({"r"}, {}, 0, 1, 0, 0, 1), MemoryLoad({}, {"c"}, 1, 2, 1, 0, 0),
   MemoryLoad({}, {"c", "t"}, 1, 1, 0, 0, 0), MemoryLoad({"r"}, {"t"}, 0, 0, 0, 0, 1)}

MCShadowLoads ==
  {Counts(Happenings, f) : f \in
     {[changes |-> 2, requests |-> 1, flips |-> 1], [changes |-> 2, posts |-> 1, windows |-> 1],
      [changes |-> 1, requests |-> 1, posts |-> 1, units |-> 1],
      [changes |-> 2, flips |-> 2, lives |-> 1], [changes |-> 1, requests |-> 1, faults |-> 2],
      [changes |-> 1, posts |-> 2, lives |-> 1, faults |-> 1],
      [changes |-> 2, units |-> 1, lives |-> 1],
      [changes |-> 1, flips |-> 1, posts |-> 1, faults |-> 1]}}

MCDispatchLoads ==
  {Counts(DispatchEvents, f) : f \in
     {[turns |-> 2, retries |-> 1, flips |-> 2], [turns |-> 2, policies |-> 1, ends |-> 2],
      [turns |-> 2, plans |-> 1, units |-> 1, faults |-> 1],
      [turns |-> 2, lives |-> 1, flips |-> 1, ends |-> 1],
      [turns |-> 3, days |-> 1, weeks |-> 1], [turns |-> 3, units |-> 1, ends |-> 1],
      [turns |-> 2, weeks |-> 1, faults |-> 2], [turns |-> 2, lives |-> 1, faults |-> 1],
      [turns |-> 3, days |-> 1, faults |-> 1]}}

MCNoticeLoads ==
  {Counts(NoticeEvents, f) : f \in
     {[writes |-> 2, commands |-> 2], [writes |-> 3, errors |-> 1],
      [writes |-> 1, commands |-> 2, ends |-> 1],
      [writes |-> 1, settlements |-> 1, commands |-> 1, errors |-> 1],
      [writes |-> 2, ends |-> 1], [writes |-> 1, commands |-> 1, errors |-> 2],
      [settlements |-> 2, ends |-> 1, errors |-> 1]}}

MCDueAt == [t \in Tasks |-> IF t = "a" THEN 1 ELSE 2]

(* A part that stays where it is needs only one of its initial states.      *)
BackgroundInit ==
  /\ part \in Parts
  /\ MemoryInit
  /\ ShadowInit
  /\ DispatchInit
  /\ NoticeInit
  /\ part # "memory" => tick = IdleTick /\ budget = CHOOSE b \in Workloads : TRUE
  /\ part # "shadow" => allow = CHOOSE a \in ShadowLoads : TRUE
  /\ part # "dispatch" => spare = CHOOSE s \in DispatchLoads : TRUE
  /\ part # "notices" => margin = CHOOSE m \in NoticeLoads : TRUE

BackgroundNext ==
  /\ UNCHANGED part
  /\ IF part = "memory" THEN MemoryNext ELSE UNCHANGED memoryVars
  /\ IF part = "shadow" THEN ShadowNext ELSE UNCHANGED shadowVars
  /\ IF part = "dispatch" THEN DispatchNext ELSE UNCHANGED dispatchVars
  /\ IF part = "notices" THEN NoticeNext ELSE UNCHANGED noticeVars

backgroundVars == <<part, memoryVars, shadowVars, dispatchVars, noticeVars>>

(* No fair action of a part that stays is enabled in its initial state.     *)
BackgroundSpec ==
  /\ BackgroundInit
  /\ [][BackgroundNext]_backgroundVars
  /\ MemoryFairness
  /\ ShadowFairness
  /\ DispatchFairness
  /\ NoticeFairness

(* The services' variables have their types.                                *)
BackgroundTypeOK ==
  /\ MemoryTypeOK
  /\ ShadowTypeOK
  /\ DispatchTypeOK
  /\ NoticeTypeOK

(* The autonomous services keep to what they may do: shadow decisions stand *)
(* on unchanged ground, dispatch grants answer a current intent within      *)
(* their caps, and deadline alerts follow the tasks and the stop.           *)
AutonomySafe == ShadowSafe /\ DispatchSafe /\ NotifySafe

(* The background workers lose nothing they were woken for: a staged memory *)
(* operation and a claimed shadow job settle, a waiting intake is taken, a  *)
(* notice that is owed arrives.  (Only one of the parts moves, so these are *)
(* four promises.)                                                          *)
Unfinished == OperationPending \/ ClaimOpen \/ IntakeWaits \/ NoticeOwed
BackgroundSettles == Unfinished ~> ~ Unfinished
=============================================================================
