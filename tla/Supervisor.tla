----------------------------- MODULE Supervisor -----------------------------
(***************************************************************************)
(* The foreground supervisor of the server process: its state file, its     *)
(* main loop, its signal handler, the operator's commands and the server    *)
(* processes it spawns.                                                     *)
(*                                                                          *)
(* Every update of the state file is one step: it runs inside the SQLite    *)
(* mutex on the latest file.  The main loop and the signal handler share    *)
(* one process, so a step of theirs reaches from one await to the next;     *)
(* the command line is another process and comes between any two steps.     *)
(* Polling waits and the crash back-off are the steps of others in between. *)
(***************************************************************************)
EXTENDS Integers, FiniteSets

CONSTANTS
    MaxCrashRestarts,   \* the consecutive crashes after which it holds
    MaxSpawns,          \* bound on the server processes ever spawned
    SupervisorLoads     \* bounds on what the world does: see Mishaps

\* Commands of the operator, failing writes of the state file, servers that
\* fail, databases that turn out newer, ends of the supervisor (a signal, a
\* kill) and its starts.
Mishaps == {"commands", "writes", "failures", "newer", "ends", "starts"}

ASSUME SupervisorAssumption ==
    /\ MaxCrashRestarts \in Nat \ {0}
    /\ MaxSpawns \in Nat \ {0}
    /\ SupervisorLoads \subseteq [Mishaps -> Nat]

Kids == 1 .. MaxSpawns
NoKid == 0

VARIABLES
    file,       \* supervisor-state.json
    lock,       \* supervisor.lock exists
    sup,        \* the supervisor process
    handler,    \* the child onSignal is terminating, NoKid when it is not
    kids,       \* every server process spawned so far
    mail,       \* what the current child sent and the loop has not yet seen
    stopStands, \* history: a stop was committed and no resume since
    fresh,      \* history: spawns since the last resume less deliberate ends
    slack       \* what is left of the bounds

supervisorVars == <<file, lock, sup, handler, kids, mail, stopStands, fresh, slack>>

Messages == {"ready", "failed", "newer", "drained", "undrained"}
Pcs == {"down", "top", "kill", "startup", "commit", "supervise", "drain",
        "exit", "account", "out"}

\* What follows the end of terminateOwnChild.
Nexts == {"top", "spawn", "account", "out"}

SupervisorTypeOK ==
    /\ file \in [stop : BOOLEAN, restart : BOOLEAN,
                 crashes : 0 .. MaxCrashRestarts + 1,
                 reason : {"other", "newer", "drain"}]
    /\ lock \in BOOLEAN
    /\ sup \in [pc : Pcs, kid : Kids \union {NoKid}, heard : SUBSET Messages,
                stopping : BOOLEAN, then : Nexts]
    /\ handler \in Kids \union {NoKid}
    /\ kids \in [Kids -> [at : {"none", "starting", "ready", "failing", "draining",
                                "stuck", "dying", "dead"},
                          parent : BOOLEAN]]
    /\ mail \subseteq Messages
    /\ stopStands \in BOOLEAN
    /\ fresh \in 0 .. MaxSpawns
    /\ slack \in [Mishaps -> Nat]

Down == [pc |-> "down", kid |-> NoKid, heard |-> {}, stopping |-> FALSE,
         then |-> "top"]

SupervisorInit ==
    /\ file = [stop |-> FALSE, restart |-> FALSE, crashes |-> 0, reason |-> "other"]
    /\ lock = FALSE /\ sup = Down /\ handler = NoKid /\ mail = {}
    /\ kids = [k \in Kids |-> [at |-> "none", parent |-> FALSE]]
    /\ stopStands = FALSE /\ fresh = 0
    /\ slack \in SupervisorLoads

----------------------------------------------------------------------------
(* The transformations of the state file. *)

Decision(f) ==
    CASE f.stop -> "stop"
      [] ~f.stop /\ f.reason = "newer" -> "newer"
      [] ~f.stop /\ f.reason = "drain" -> "drain"
      [] ~f.stop /\ f.reason = "other" /\ f.crashes >= MaxCrashRestarts -> "exhausted"
      [] OTHER -> "spawn"

ApplyCrash(f, reason) ==
    IF f.reason # "other" THEN f
    ELSE [f EXCEPT !.crashes = @ + 1,
                   !.reason = IF f.crashes + 1 >= MaxCrashRestarts THEN "other" ELSE reason]

ApplyReady(f) == IF f.reason = "drain" THEN f ELSE [f EXCEPT !.restart = FALSE]

ApplyDrainFailedHold(f) == [f EXCEPT !.restart = FALSE, !.reason = "drain"]

ApplyOperatorStop(f) == [f EXCEPT !.stop = TRUE, !.restart = FALSE, !.reason = "other"]

ApplyOperatorResume(f) ==
    [stop |-> FALSE, restart |-> FALSE, crashes |-> 0, reason |-> "other"]

ApplyPlannedRestartRequest(f) ==
    IF f.reason = "drain" THEN f ELSE [f EXCEPT !.restart = TRUE, !.reason = "other"]

----------------------------------------------------------------------------
(* Small steps shared by the actions. *)

Spend(what) == slack[what] > 0 /\ slack' = [slack EXCEPT ![what] = @ - 1]

Alive == sup.pc # "down"
Gone(k) == kids[k].at \in {"dead", "none"}
Put(k, at) == kids' = [kids EXCEPT ![k].at = at]

\* The loop's current child, and what it tells of itself.
Own(k) == Alive /\ sup.kid = k
Say(k, m) == mail' = IF Own(k) THEN mail \union {m} ELSE mail

\* A shutdown message or SIGTERM.  A server that has no handlers yet dies of
\* the signal; the message alone waits for it.
AskedToStop(at) == IF at \in {"ready", "stuck"} THEN "draining" ELSE at
Terminated(at) == IF at = "starting" THEN "dying" ELSE AskedToStop(at)

\* sendShutdown and the first half of terminateOwnChild; the loop then waits.
Terminate(k, then) ==
    /\ Put(k, Terminated(kids[k].at))
    /\ sup' = [sup EXCEPT !.pc = "kill", !.then = then]

\* The latest spawn ends without having to be on file as a crash.
Unsettled == sup.kid # NoKid \/ sup.pc = "account"
LessOne == IF Unsettled /\ fresh > 0 THEN fresh - 1 ELSE fresh

\* The process ends: its children lose their parent.
Leave ==
    /\ sup' = Down
    /\ handler' = NoKid
    /\ mail' = {}
    /\ kids' = [k \in Kids |-> [kids[k] EXCEPT !.parent = FALSE]]
    /\ fresh' = LessOne

\* spawnServerChild, on the processes as they then are.
Spawn(processes, before) ==
    \E k \in Kids :
      /\ kids[k].at = "none"
      /\ \A j \in Kids : kids[j].at = "none" => k <= j
      /\ kids' = [processes EXCEPT ![k] = [at |-> "starting", parent |-> TRUE]]
      /\ sup' = [sup EXCEPT !.pc = "startup", !.kid = k, !.heard = {}]
      /\ mail' = {}
      /\ fresh' = before + 1

----------------------------------------------------------------------------
(* The main loop. *)

\* acquireSupervisorLock: a lock whose process is dead is reclaimed.
Start ==
    /\ ~Alive
    /\ Spend("starts")
    /\ lock' = TRUE
    /\ sup' = [Down EXCEPT !.pc = "top"]
    /\ UNCHANGED <<file, handler, kids, mail, stopStands, fresh>>

\* The top of the loop: a hold in `spared` only waits, another hold ends the
\* child, and a spawn first ends a child left from a cleared hold.
TopSparing(spared) ==
    /\ sup.pc = "top"
    /\ \/ /\ sup.stopping
          /\ sup' = [sup EXCEPT !.pc = "out"]
          /\ UNCHANGED <<kids, mail, fresh>>
       \/ /\ ~sup.stopping
          /\ Decision(file) \notin {"spawn"} \union spared
          /\ sup.kid # NoKid
          /\ Terminate(sup.kid, "top")
          /\ UNCHANGED <<mail, fresh>>
       \/ /\ ~sup.stopping
          /\ Decision(file) = "spawn"
          /\ IF sup.kid = NoKid
             THEN Spawn(kids, fresh)
             ELSE Terminate(sup.kid, "spawn") /\ UNCHANGED <<mail, fresh>>
    /\ UNCHANGED <<file, lock, handler, stopStands, slack>>

\* Mutant: no hold spares the child.
TopSparingNone == TopSparing({})
Top == TopSparing({"drain"})

\* terminateOwnChild returns: the child exited, or it is sent SIGKILL, whose
\* effect nobody awaits.  Before a spawn only the signal is looked at again.
Killed ==
    /\ sup.pc = "kill"
    /\ LET left == [kids EXCEPT ![sup.kid].at = IF Gone(sup.kid) THEN @ ELSE "dying"]
       IN  IF sup.then = "spawn" /\ ~sup.stopping
           THEN Spawn(left, LessOne)
           ELSE /\ kids' = left
                /\ sup' = [sup EXCEPT !.pc = IF sup.stopping THEN "out" ELSE sup.then,
                                      !.kid = NoKid]
                /\ fresh' = IF sup.then = "account" /\ ~sup.stopping THEN fresh ELSE LessOne
                /\ mail' = {}
    /\ UNCHANGED <<file, lock, handler, stopStands, slack>>

\* One round of the startup wait: a hold written meanwhile wins, then the
\* signal, then readiness, then every way of not becoming ready.
StartupPoll ==
    /\ sup.pc = "startup"
    /\ \/ /\ Decision(file) # "spawn"
          /\ Terminate(sup.kid, "top")
       \/ /\ Decision(file) = "spawn" /\ sup.stopping
          /\ Terminate(sup.kid, "out")
       \/ /\ Decision(file) = "spawn" /\ ~sup.stopping /\ "ready" \in sup.heard
          /\ sup' = [sup EXCEPT !.pc = "commit"]
          /\ UNCHANGED kids
       \/ /\ Decision(file) = "spawn" /\ ~sup.stopping /\ "ready" \notin sup.heard
          /\ sup.heard # {} \/ Gone(sup.kid)
          /\ Terminate(sup.kid, "account")
    /\ UNCHANGED <<file, lock, handler, mail, stopStands, fresh, slack>>

\* STARTUP_READY_TIMEOUT_MS passes: counted as a failure of the server.
StartupTimesOut ==
    /\ sup.pc = "startup" /\ ~sup.stopping /\ Decision(file) = "spawn"
    /\ sup.heard = {} /\ ~Gone(sup.kid)
    /\ Spend("failures")
    /\ Terminate(sup.kid, "account")
    /\ UNCHANGED <<file, lock, handler, mail, stopStands, fresh>>

\* Mutant: ready is committed from the state read before the spawn.
ReadyOverwritesStop ==
    /\ sup.pc = "commit" /\ ~sup.stopping
    /\ file' = [ApplyReady(file) EXCEPT !.stop = FALSE]
    /\ sup' = [sup EXCEPT !.pc = "supervise"]
    /\ UNCHANGED <<lock, handler, kids, mail, stopStands, fresh, slack>>

\* markSupervisorReadyAtomically, tried again until it commits or a signal
\* comes; a stop that is in the file by then wins.
CommitReady ==
    /\ sup.pc = "commit"
    /\ \/ /\ ~sup.stopping
          /\ file' = ApplyReady(file)
          /\ IF file'.stop
             THEN Terminate(sup.kid, "top")
             ELSE sup' = [sup EXCEPT !.pc = "supervise"] /\ UNCHANGED kids
       \/ /\ sup.stopping
          /\ Terminate(sup.kid, "out")
          /\ UNCHANGED file
    /\ UNCHANGED <<lock, handler, mail, stopStands, fresh, slack>>

\* One poll of a ready child, the conditions in their order.
SuperviseHeeding(stop) ==
    /\ sup.pc = "supervise"
    /\ \/ /\ sup.stopping \/ stop
          /\ Terminate(sup.kid, "top")
       \/ /\ ~sup.stopping /\ ~stop /\ file.restart
          /\ Put(sup.kid, AskedToStop(kids[sup.kid].at))
          /\ sup' = [sup EXCEPT !.pc = "drain"]
       \/ /\ ~sup.stopping /\ ~stop /\ ~file.restart
          /\ Gone(sup.kid) \/ {"failed", "newer"} \cap sup.heard # {}
          /\ sup' = [sup EXCEPT !.pc = "exit"]
          /\ UNCHANGED kids
    /\ UNCHANGED <<file, lock, handler, mail, stopStands, fresh, slack>>

\* Mutant: a stop written by the command line is not looked for.
SuperviseSignalsOnly == SuperviseHeeding(FALSE)
Supervise == SuperviseHeeding(file.stop)

\* The planned restart is over: respawn only on the affirmative ack; else the
\* hold is committed and the child is kept, alive or not.  A commit that fails
\* leaves the restart pending, and the next round ends the kept child.
DrainConcludes ==
    /\ sup.pc = "drain"
    /\ \/ /\ "drained" \in sup.heard /\ "undrained" \notin sup.heard
          /\ Terminate(sup.kid, "top")
          /\ UNCHANGED <<file, slack>>
       \/ /\ ~("drained" \in sup.heard /\ "undrained" \notin sup.heard)
          /\ \/ file' = ApplyDrainFailedHold(file) /\ UNCHANGED slack
             \/ Spend("writes") /\ UNCHANGED file
          /\ sup' = [sup EXCEPT !.pc = "top"]
          /\ UNCHANGED kids
    /\ UNCHANGED <<lock, handler, mail, stopStands, fresh>>

\* waitForExit of a child that ended or failed after it was ready.
ExitSeen ==
    /\ sup.pc = "exit" /\ Gone(sup.kid)
    /\ sup' = [sup EXCEPT !.pc = "account", !.kid = NoKid]
    /\ UNCHANGED <<file, lock, handler, kids, mail, stopStands, fresh, slack>>

\* Mutant: the loop goes on although the crash is not on file.
AccountOrLose ==
    /\ sup.pc = "account"
    /\ \/ file' = ApplyCrash(file, "other") /\ UNCHANGED slack
       \/ Spend("writes") /\ UNCHANGED file
    /\ sup' = [sup EXCEPT !.pc = "top"]
    /\ UNCHANGED <<lock, handler, kids, mail, stopStands, fresh>>

\* persistSupervisorCrashAtomically, before any further spawn; tried again
\* until it commits, unless a signal comes.
AccountCrash ==
    /\ sup.pc = "account"
    /\ file' = ApplyCrash(file, IF "newer" \in sup.heard THEN "newer" ELSE "other")
    /\ sup' = [sup EXCEPT !.pc = "top"]
    /\ UNCHANGED <<lock, handler, kids, mail, stopStands, fresh, slack>>

\* The state file cannot be written for a while: the loop stays where it is,
\* and leaves the retry of a crash commit when a signal has come.
WriteFails ==
    /\ sup.pc \in {"commit", "account"}
    /\ Spend("writes")
    /\ sup' = [sup EXCEPT !.pc = IF @ = "account" /\ sup.stopping THEN "out" ELSE @]
    /\ fresh' = IF sup.pc = "account" /\ sup.stopping THEN LessOne ELSE fresh
    /\ UNCHANGED <<file, lock, handler, kids, mail, stopStands>>

\* A message of the current child reaches its listener.
Hear ==
    /\ Alive
    /\ \E m \in mail : /\ mail' = mail \ {m}
                       /\ sup' = [sup EXCEPT !.heard = @ \union {m}]
    /\ UNCHANGED <<file, lock, handler, kids, stopStands, fresh, slack>>

LoopStep ==
    \/ Top \/ Killed \/ StartupPoll \/ CommitReady \/ Supervise
    \/ DrainConcludes \/ ExitSeen \/ AccountCrash \/ Hear

----------------------------------------------------------------------------
(* The operator: signals, stdin and the command line. *)

\* onSignal: the stop is durable before anything ends.
OnSignal ==
    /\ Alive /\ ~sup.stopping
    /\ Spend("ends")
    /\ file' = ApplyOperatorStop(file)
    /\ stopStands' = TRUE
    /\ IF sup.kid = NoKid
       THEN Leave /\ lock' = FALSE
       ELSE /\ sup' = [sup EXCEPT !.stopping = TRUE]
            /\ handler' = sup.kid
            /\ Put(sup.kid, Terminated(kids[sup.kid].at))
            /\ UNCHANGED <<lock, mail, fresh>>

\* Its own terminateOwnChild returns; the lock is released and the process ends.
SignalDone ==
    /\ Alive /\ handler # NoKid
    /\ sup' = Down /\ handler' = NoKid /\ mail' = {} /\ lock' = FALSE
    /\ kids' = [k \in Kids |->
                  [at |-> IF k = handler /\ ~Gone(k) THEN "dying" ELSE kids[k].at,
                   parent |-> FALSE]]
    /\ fresh' = LessOne
    /\ UNCHANGED <<file, stopStands, slack>>

\* The supervisor is killed; its lock file stays.
SupervisorDies ==
    /\ Alive
    /\ Spend("ends")
    /\ Leave
    /\ UNCHANGED <<file, lock, stopStands>>

\* `stop`, from stdin (which also tells the child) or from the command line.
OperatorStop(stdin) ==
    /\ stdin => Alive
    /\ Spend("commands")
    /\ file' = ApplyOperatorStop(file)
    /\ stopStands' = TRUE
    /\ IF stdin /\ sup.kid # NoKid
       THEN Put(sup.kid, AskedToStop(kids[sup.kid].at))
       ELSE UNCHANGED kids
    /\ UNCHANGED <<lock, sup, handler, mail, fresh>>

OperatorResume ==
    /\ Spend("commands")
    /\ file' = ApplyOperatorResume(file)
    /\ stopStands' = FALSE
    /\ fresh' = IF Unsettled THEN 1 ELSE 0
    /\ UNCHANGED <<lock, sup, handler, kids, mail>>

\* Refused while a stop or a drain hold stands.
OperatorRestart ==
    /\ ~file.stop /\ file.reason # "drain"
    /\ Spend("commands")
    /\ file' = ApplyPlannedRestartRequest(file)
    /\ UNCHANGED <<lock, sup, handler, kids, mail, stopStands, fresh>>

OperatorStep ==
    \/ OnSignal \/ \E stdin \in BOOLEAN : OperatorStop(stdin)
    \/ OperatorResume \/ OperatorRestart

----------------------------------------------------------------------------
(* The server processes, as far as the supervisor meets them. *)

\* The port is held until the process ends: the drain closes it last.
PortTaken(k) ==
    \E j \in Kids \ {k} : kids[j].at \in {"ready", "draining", "stuck", "dying"}

\* The server listens and says so; without its parent's channel the message
\* itself ends it.
ServerReady(k) ==
    /\ kids[k].at = "starting" /\ ~PortTaken(k)
    /\ IF kids[k].parent
       THEN Put(k, "ready") /\ Say(k, "ready")
       ELSE Put(k, "dead") /\ UNCHANGED mail
    /\ UNCHANGED <<file, lock, sup, handler, stopStands, fresh, slack>>

\* The address is in use.
ServerCollides(k) ==
    /\ kids[k].at = "starting" /\ PortTaken(k)
    /\ Put(k, "failing") /\ Say(k, "failed")
    /\ UNCHANGED <<file, lock, sup, handler, stopStands, fresh, slack>>

\* Startup fails, or the database is newer than the code; what is already up
\* may fail late.
ServerFails(k) ==
    /\ kids[k].at \in {"starting", "ready"}
    /\ \/ Spend("failures") /\ Say(k, "failed")
       \/ kids[k].at = "starting" /\ Spend("newer") /\ Say(k, "newer")
    /\ Put(k, "failing")
    /\ UNCHANGED <<file, lock, sup, handler, stopStands, fresh>>

\* The process is gone without a word.
ServerDies(k) ==
    /\ kids[k].at \in {"starting", "ready", "draining", "stuck"}
    /\ Spend("failures")
    /\ Put(k, "dead")
    /\ UNCHANGED <<file, lock, sup, handler, mail, stopStands, fresh>>

\* A graceful shutdown ends in an ack and an exit.
ServerDrained(k) ==
    /\ kids[k].at = "draining"
    /\ Put(k, "dead") /\ Say(k, "drained")
    /\ UNCHANGED <<file, lock, sup, handler, stopStands, fresh, slack>>

\* It fails: the process stays and says so, unless it lost its parent.
ServerUndrained(k) ==
    /\ kids[k].at = "draining"
    /\ Spend("failures")
    /\ Put(k, IF kids[k].parent THEN "stuck" ELSE "dead") /\ Say(k, "undrained")
    /\ UNCHANGED <<file, lock, sup, handler, stopStands, fresh>>

\* The parent's end disconnects the channel: the server shuts itself down.
Disconnected(k) ==
    /\ kids[k].at \in {"ready", "stuck"} /\ ~kids[k].parent
    /\ Put(k, "draining")
    /\ UNCHANGED <<file, lock, sup, handler, mail, stopStands, fresh, slack>>

\* A killed or failed process goes.
ServerGone(k) ==
    /\ kids[k].at \in {"dying", "failing"}
    /\ Put(k, "dead")
    /\ UNCHANGED <<file, lock, sup, handler, mail, stopStands, fresh, slack>>

ServerMoves(k) ==
    \/ ServerReady(k) \/ ServerCollides(k) \/ ServerDrained(k)
    \/ Disconnected(k) \/ ServerGone(k)

ServerFault(k) == ServerFails(k) \/ ServerDies(k) \/ ServerUndrained(k)

SupervisorNext ==
    \/ Start \/ SupervisorDies
    \/ LoopStep \/ StartupTimesOut \/ WriteFails \/ SignalDone
    \/ OperatorStep
    \/ \E k \in Kids : ServerMoves(k) \/ ServerFault(k)

\* The loop's timers and awaits go on, and a server process gets somewhere.
SupervisorFairness ==
    /\ WF_supervisorVars(LoopStep)
    /\ WF_supervisorVars(SignalDone)
    /\ \A k \in Kids : WF_supervisorVars(ServerMoves(k))

SupervisorSpec ==
    SupervisorInit /\ [][SupervisorNext]_supervisorVars /\ SupervisorFairness

----------------------------------------------------------------------------

\* A committed stop stands until a resume, whatever bookkeeping of the loop
\* (ready, crash, hold) was under way when it was written.
StopIsKept == file.stop = stopStands

\* No storm: the spawns since the last resume, less the ends somebody asked
\* for, are covered by crashes on file, so they stay within the budget.
RestartsAreBudgeted == fresh <= file.crashes + 1 /\ fresh <= MaxCrashRestarts

\* A child whose drain failed is left alone while the hold stands.
HeldIsSpared ==
    Decision(file) = "drain" => sup.pc # "kill" \/ sup.stopping

\* A supervisor never has two servers that were not told to end.
OneServer ==
    \A j, k \in Kids :
      /\ kids[j].parent /\ kids[k].parent
      /\ {kids[j].at, kids[k].at} \cap {"dying", "failing", "dead", "none"} = {}
      => j = k

SupervisorSafe == StopIsKept /\ RestartsAreBudgeted /\ HeldIsSpared /\ OneServer

\* What a stop must end: a server process, while no resume has come.
ServerToStop == file.stop /\ \E k \in Kids : ~Gone(k)
=============================================================================
