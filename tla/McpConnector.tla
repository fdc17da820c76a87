---------------------------- MODULE McpConnector ----------------------------
(***************************************************************************)
(* One MCP connector: calls that connect lazily behind one mutex, the       *)
(* shared connect attempt with its back-off, the owned connection to a      *)
(* child process and its bounded cleanup, loss and overflow of the          *)
(* connection, and shutdown with its epoch.                                 *)
(*                                                                          *)
(* An action is a stretch of code between two awaits.  A connect attempt    *)
(* (dial) makes at most one connection (peer), which has its number.        *)
(* Bindings and their hashes are one verdict on the peer; arguments and     *)
(* results of calls are left out.  The peer is a child process on stdio; an *)
(* attempt that settles and the end of its flight are one step.             *)
(***************************************************************************)
EXTENDS Integers, Sequences, FiniteSets

CONSTANTS
    McpCalls,   \* logical calls, through the mutex
    Warmups,    \* explicit ensureConnected calls, beside it
    MaxDials,   \* bound on connect attempts
    McpLoads    \* bounds on what the peer and the host do: see McpEvents

\* Calls made, losses of the connection (close, overflow), errors of an
\* operation or of the transport factory, wrong identities, shutdowns.
McpEvents == {"demands", "losses", "errors", "mismatches", "shutdowns"}

ASSUME McpAssumption ==
    /\ MaxDials \in Nat \ {0}
    /\ McpLoads \subseteq [McpEvents -> Nat]
    /\ McpCalls \intersect Warmups = {}

Demands == McpCalls \union Warmups
Dials == 1 .. MaxDials
NoPeer == 0

VARIABLES
    hub,      \* the connector's fields
    waiters,  \* the promise mutex: its head holds it
    demand,   \* each call
    dial,     \* each run of doConnect
    peer,     \* each OwnedConnection
    chances   \* what is left of the bounds

mcpVars == <<hub, waiters, demand, dial, peer, chances>>

Results == {"none", "ok", "unavailable", "mismatch"}

McpTypeOK ==
    /\ hub \in [session : Dials \union {NoPeer}, connected : BOOLEAN, fails : Nat,
                epoch : Nat, closing : BOOLEAN, flight : Dials \union {NoPeer}]
    /\ waiters \in Seq(McpCalls)
    /\ demand \in [Demands -> [pc : {"new", "queued", "wait", "ensured", "out",
                                     "cleanup", "returned"},
                               epoch : Nat, late : BOOLEAN,
                               on : Dials \union {NoPeer}, result : Results]]
    /\ dial \in [Dials -> [pc : {"none", "backoff", "connect", "list", "cleanup", "done"},
                           epoch : Nat, aborted : BOOLEAN, result : Results]]
    /\ peer \in [Dials -> [up : BOOLEAN, ready : BOOLEAN, stop : BOOLEAN,
                           seen : BOOLEAN, failed : BOOLEAN,
                           cleanup : {"none", "running", "killed", "done"}]]
    /\ chances \in [McpEvents -> Nat]

NewDemand == [pc |-> "new", epoch |-> 0, late |-> FALSE, on |-> NoPeer, result |-> "none"]
NewDial == [pc |-> "none", epoch |-> 0, aborted |-> FALSE, result |-> "none"]
NewPeer == [up |-> FALSE, ready |-> FALSE, stop |-> FALSE, seen |-> FALSE,
            failed |-> FALSE, cleanup |-> "none"]

McpInit ==
    /\ hub = [session |-> NoPeer, connected |-> FALSE, fails |-> 0, epoch |-> 0,
              closing |-> FALSE, flight |-> NoPeer]
    /\ waiters = <<>>
    /\ demand = [c \in Demands |-> NewDemand]
    /\ dial = [d \in Dials |-> NewDial]
    /\ peer = [d \in Dials |-> NewPeer]
    /\ chances \in McpLoads

----------------------------------------------------------------------------

Chance(what) == chances[what] > 0 /\ chances' = [chances EXCEPT ![what] = @ - 1]

IsStopped(epoch) == hub.closing \/ epoch # hub.epoch
IsSuperseded(d) == hub.session # d
Fenced(d) == IsStopped(dial[d].epoch) \/ peer[d].stop \/ IsSuperseded(d)

\* The connector forgets its session; the flight only where the code drops it.
Forget(h) == [h EXCEPT !.session = NoPeer, !.connected = FALSE]

\* recordFailureOnce, on the connector and on the connection.
Counted(h, d) == [h EXCEPT !.fails = IF peer[d].failed THEN @ ELSE @ + 1]

\* beginStop and boundedClose: one cleanup per connection.
Stopped(p) == [p EXCEPT !.stop = TRUE, !.ready = FALSE,
                        !.cleanup = IF @ = "none" THEN IF p.seen THEN "done" ELSE "running"
                                    ELSE @]

\* Mutant: every path counts, whatever the connection has counted already.
CleanUpCounting(d, count, reset) ==
    /\ hub' = [Forget(hub) EXCEPT !.fails = IF reset THEN 0 ELSE IF count THEN @ + 1 ELSE @]
    /\ peer' = [peer EXCEPT ![d] = [Stopped(peer[d]) EXCEPT !.failed = @ \/ count]]

\* cleanupSession: the connector's state moves only for its own session.
CleanUp(d, count, reset) ==
    LET current == hub.session = d
    IN  /\ hub' = IF ~current THEN hub
                  ELSE [Forget(IF count THEN Counted(hub, d) ELSE hub) EXCEPT
                          !.fails = IF reset THEN 0 ELSE @]
        /\ peer' = [peer EXCEPT ![d] = [Stopped(peer[d]) EXCEPT
                                          !.failed = @ \/ (current /\ count)]]

----------------------------------------------------------------------------
(* Connecting. *)

\* The attempt's promise settles, and its entry goes if it is still the flight.
Landed(h, d) == [h EXCEPT !.flight = IF @ = d THEN NoPeer ELSE @]

\* The transport is made, and its connection is the session from then on; or
\* the factory throws, which counts as a failure.
Construct(h, d, epoch) ==
    \/ /\ hub' = [h EXCEPT !.session = d]
       /\ peer' = [peer EXCEPT ![d].up = TRUE]
       /\ dial' = [dial EXCEPT ![d].pc = "connect", ![d].epoch = epoch]
    \/ /\ chances["errors"] > 0
       /\ hub' = [Landed(h, d) EXCEPT !.fails = @ + 1]
       /\ peer' = [peer EXCEPT ![d].failed = TRUE]
       /\ dial' = [dial EXCEPT ![d].pc = "done", ![d].epoch = epoch,
                               ![d].result = "unavailable"]

\* ensureConnectedForEpoch: connected, joined to the flight, or a new attempt,
\* which waits first when the last ones failed.
Ensure(c, epoch) ==
    \/ /\ hub.connected
       /\ demand' = [demand EXCEPT ![c].pc = "ensured", ![c].on = hub.session,
                                   ![c].epoch = epoch]
       /\ UNCHANGED <<hub, dial, peer>>
    \/ /\ ~hub.connected /\ hub.flight # NoPeer
       /\ demand' = [demand EXCEPT ![c].pc = "wait", ![c].on = hub.flight,
                                   ![c].epoch = epoch]
       /\ UNCHANGED <<hub, dial, peer>>
    \/ /\ ~hub.connected /\ hub.flight = NoPeer
       /\ \E d \in Dials :
            /\ dial[d].pc = "none" /\ \A e \in 1 .. d - 1 : dial[e].pc # "none"
            /\ demand' = [demand EXCEPT ![c].pc = "wait", ![c].on = d, ![c].epoch = epoch]
            /\ IF hub.fails = 0
               THEN Construct([hub EXCEPT !.flight = d], d, epoch)
               ELSE /\ hub' = [hub EXCEPT !.flight = d]
                    /\ dial' = [dial EXCEPT ![d].pc = "backoff", ![d].epoch = epoch]
                    /\ UNCHANGED peer

BackoffEnds(d) ==
    /\ dial[d].pc = "backoff"
    /\ IF IsStopped(dial[d].epoch) \/ dial[d].aborted
       THEN /\ dial' = [dial EXCEPT ![d].pc = "done", ![d].result = "unavailable"]
            /\ hub' = Landed(hub, d)
            /\ UNCHANGED peer
       ELSE Construct(hub, d, dial[d].epoch)
    /\ UNCHANGED <<waiters, demand, chances>>

\* The handshake or the catalogue fails, or is aborted by a stop.
DialFails(d) ==
    /\ dial[d].pc \in {"connect", "list"}
    /\ \/ peer[d].stop /\ UNCHANGED chances
       \/ ~peer[d].stop /\ Chance("errors")
    /\ CleanUp(d, TRUE, FALSE)
    /\ dial' = [dial EXCEPT ![d].pc = "cleanup", ![d].result = "unavailable"]
    /\ UNCHANGED <<waiters, demand>>

\* An answer arrives; ownership is looked at again before it is used.
Interrupted(d) ==
    /\ dial[d].pc \in {"connect", "list"} /\ Fenced(d)
    /\ CleanUp(d, FALSE, FALSE)
    /\ dial' = [dial EXCEPT ![d].pc = "cleanup", ![d].result = "unavailable"]
    /\ UNCHANGED <<waiters, demand, chances>>

Mismatched(d) ==
    /\ dial[d].pc \in {"connect", "list"} /\ ~Fenced(d)
    /\ Chance("mismatches")
    /\ CleanUp(d, FALSE, TRUE)
    /\ dial' = [dial EXCEPT ![d].pc = "cleanup", ![d].result = "mismatch"]
    /\ UNCHANGED <<waiters, demand>>

WireMatches(d) ==
    /\ dial[d].pc = "connect" /\ ~Fenced(d)
    /\ dial' = [dial EXCEPT ![d].pc = "list"]
    /\ UNCHANGED <<hub, waiters, demand, peer, chances>>

\* The last page is in and a binding verifies: the connection is published.
Publish(d, fenced) ==
    /\ dial[d].pc = "list" /\ ~fenced
    /\ hub' = [Landed(hub, d) EXCEPT !.connected = TRUE, !.fails = 0]
    /\ peer' = [peer EXCEPT ![d].ready = TRUE]
    /\ dial' = [dial EXCEPT ![d].pc = "done", ![d].result = "ok"]
    /\ UNCHANGED <<waiters, demand, chances>>

\* Mutant: the fence is not looked at after the last page.
PublishUnfenced(d) == Publish(d, FALSE)
PublishConnection(d) == Publish(d, Fenced(d))

\* The awaited cleanup of a failed attempt is over.
DialCleaned(d) ==
    /\ dial[d].pc = "cleanup" /\ peer[d].cleanup = "done"
    /\ dial' = [dial EXCEPT ![d].pc = "done"]
    /\ hub' = Landed(hub, d)
    /\ UNCHANGED <<waiters, demand, peer, chances>>

----------------------------------------------------------------------------
(* Calls. *)

Return(c, result) ==
    /\ demand' = [demand EXCEPT ![c].pc = "returned", ![c].result = result]
    /\ waiters' = IF c \in McpCalls THEN Tail(waiters) ELSE waiters

\* callTool: the epoch and the shutdown under way are noted at invocation.
CallTool(c) ==
    /\ c \in McpCalls /\ demand[c].pc = "new"
    /\ demand' = [demand EXCEPT ![c].pc = "queued", ![c].epoch = hub.epoch,
                                ![c].late = hub.closing]
    /\ waiters' = Append(waiters, c)
    /\ Chance("demands")
    /\ UNCHANGED <<hub, dial, peer>>

EnsureConnected(c) ==
    /\ c \in Warmups /\ demand[c].pc = "new"
    /\ Chance("demands")
    /\ IF hub.closing
       THEN Return(c, "unavailable") /\ UNCHANGED <<hub, dial, peer>>
       ELSE Ensure(c, hub.epoch) /\ UNCHANGED waiters

\* The mutex is free for the call; refuse or ensure the connection.
Enter(c, late) ==
    /\ demand[c].pc = "queued" /\ Head(waiters) = c
    /\ IF late \/ IsStopped(demand[c].epoch)
       THEN Return(c, "unavailable") /\ UNCHANGED <<hub, dial, peer>>
       ELSE Ensure(c, demand[c].epoch) /\ UNCHANGED waiters
    /\ UNCHANGED chances

\* Mutant: only the present state of the shutdown is looked at.
EnterUnlessClosing(c) == Enter(c, FALSE)
EnterMutex(c) == Enter(c, demand[c].late)

\* The attempt a demand waited for has settled.
Ensured(c) ==
    /\ demand[c].pc = "wait" /\ dial[demand[c].on].pc = "done"
    /\ IF dial[demand[c].on].result = "ok" /\ c \in McpCalls
       THEN demand' = [demand EXCEPT ![c].pc = "ensured"] /\ UNCHANGED waiters
       ELSE Return(c, dial[demand[c].on].result)
    /\ UNCHANGED <<hub, dial, peer, chances>>

\* An explicit ensureConnected that found a live connection.
WarmupReturns(c) ==
    /\ c \in Warmups /\ demand[c].pc = "ensured"
    /\ Return(c, "ok")
    /\ UNCHANGED <<hub, dial, peer, chances>>

\* After the ensure: refused, or one request goes out on the session.
Dispatch(c) ==
    /\ c \in McpCalls /\ demand[c].pc = "ensured"
    /\ IF IsStopped(demand[c].epoch) THEN Return(c, "unavailable")
       ELSE IF ~hub.connected THEN Return(c, "mismatch")
       ELSE /\ demand' = [demand EXCEPT ![c].pc = "out", ![c].on = hub.session]
            /\ UNCHANGED waiters
    /\ UNCHANGED <<hub, dial, peer, chances>>

\* The answer: never published from a stopped or superseded session.
Answer(c) ==
    /\ demand[c].pc = "out"
    /\ Return(c, IF peer[demand[c].on].stop \/ IsStopped(demand[c].epoch)
                      \/ IsSuperseded(demand[c].on)
                 THEN "unavailable" ELSE "ok")
    /\ UNCHANGED <<hub, dial, peer, chances>>

\* A request that failed: the session goes, once.
RequestLost(c) ==
    /\ demand[c].pc = "out"
    /\ CleanUp(demand[c].on, TRUE, FALSE)
    /\ demand' = [demand EXCEPT ![c].pc = "cleanup"]
    /\ UNCHANGED <<waiters, dial>>

\* Mutant: a stop does not abort what is in flight.
RequestFailsByItself(c) == RequestLost(c) /\ ~peer[demand[c].on].stop /\ Chance("errors")

\* The request fails, or is aborted by a stop or by its caller.
RequestFails(c) ==
    /\ RequestLost(c)
    /\ \/ peer[demand[c].on].stop /\ UNCHANGED chances
       \/ ~peer[demand[c].on].stop /\ Chance("errors")

CallCleaned(c) ==
    /\ demand[c].pc = "cleanup" /\ peer[demand[c].on].cleanup = "done"
    /\ Return(c, "unavailable")
    /\ UNCHANGED <<hub, dial, peer, chances>>

----------------------------------------------------------------------------
(* The connection and its end. *)

\* handleRawClose and handleClosed: by itself, or because it was asked to.
PeerCloses(d) ==
    /\ peer[d].up
    /\ \/ peer[d].stop /\ UNCHANGED chances
       \/ ~peer[d].stop /\ Chance("losses")
    /\ peer' = [peer EXCEPT ![d] =
                  [Stopped([peer[d] EXCEPT !.seen = TRUE]) EXCEPT
                     !.up = FALSE,
                     !.failed = @ \/ (hub.session = d /\ ~peer[d].stop)]]
    /\ hub' = IF hub.session # d THEN hub
              ELSE [Forget(IF peer[d].stop THEN hub ELSE Counted(hub, d)) EXCEPT
                      !.flight = NoPeer]
    /\ UNCHANGED <<waiters, demand, dial>>

\* handleOverflow: too much on stderr of the current connection.
Overflow(d) ==
    /\ hub.session = d
    /\ Chance("losses")
    /\ hub' = [Forget(Counted(hub, d)) EXCEPT !.flight = NoPeer]
    /\ peer' = [peer EXCEPT ![d] = [Stopped(peer[d]) EXCEPT !.failed = TRUE]]
    /\ UNCHANGED <<waiters, demand, dial>>

\* runBoundedClose: the close event ends it; without one the child is killed
\* after the grace period and the wait ends after a second one.
CleanupMoves(d) ==
    /\ \/ peer[d].cleanup \in {"running", "killed"} /\ peer[d].seen
          /\ peer' = [peer EXCEPT ![d].cleanup = "done"]
       \/ peer[d].cleanup = "running" /\ ~peer[d].seen
          /\ peer' = [peer EXCEPT ![d].cleanup = "killed"]
       \/ peer[d].cleanup = "killed" /\ ~peer[d].seen
          /\ peer' = [peer EXCEPT ![d].cleanup = "done"]
    /\ UNCHANGED <<hub, waiters, demand, dial, chances>>

Cleaning(d) == peer[d].cleanup \in {"running", "killed"}

\* Mutant: the attempt that is being made is not fenced.
ShutdownUnfenced ==
    /\ ~hub.closing
    /\ Chance("shutdowns")
    /\ hub' = [hub EXCEPT !.epoch = @ + 1, !.closing = TRUE, !.connected = FALSE]
    /\ UNCHANGED <<waiters, demand, dial, peer>>

\* shutdown: everything is dropped and fenced before anything is awaited.
ShutdownConnector ==
    /\ ~hub.closing
    /\ Chance("shutdowns")
    /\ hub' = [Forget(hub) EXCEPT !.epoch = @ + 1, !.closing = TRUE, !.flight = NoPeer]
    /\ dial' = [d \in Dials |-> [dial[d] EXCEPT !.aborted = @ \/ d = hub.flight]]
    /\ peer' = [d \in Dials |-> IF d = hub.session THEN Stopped(peer[d]) ELSE peer[d]]
    /\ UNCHANGED <<waiters, demand>>

\* It is over when no cleanup, of whatever connection, is under way.
ShutdownCompletes ==
    /\ hub.closing
    /\ \A d \in Dials : ~Cleaning(d)
    /\ hub' = [hub EXCEPT !.closing = FALSE]
    /\ UNCHANGED <<waiters, demand, dial, peer, chances>>

----------------------------------------------------------------------------

DialStep(d) ==
    \/ BackoffEnds(d) \/ DialFails(d) \/ Interrupted(d) \/ Mismatched(d)
    \/ WireMatches(d) \/ PublishConnection(d) \/ DialCleaned(d)

CallStep(c) ==
    \/ CallTool(c) \/ EnsureConnected(c) \/ EnterMutex(c) \/ Ensured(c)
    \/ WarmupReturns(c) \/ Dispatch(c) \/ Answer(c) \/ RequestFails(c) \/ CallCleaned(c)

McpNext ==
    \/ \E c \in Demands : CallStep(c)
    \/ \E d \in Dials : DialStep(d) \/ PeerCloses(d) \/ Overflow(d) \/ CleanupMoves(d)
    \/ ShutdownConnector \/ ShutdownCompletes

\* What an attempt and a call do without the peer: continuations run, timers
\* fire, and what a stop aborts is rejected.
DialGoesOn(d) ==
    \/ BackoffEnds(d) \/ DialCleaned(d)
    \/ peer[d].stop /\ (DialFails(d) \/ Interrupted(d))

CallGoesOn(c) ==
    \/ EnterMutex(c) \/ Ensured(c) \/ WarmupReturns(c) \/ Dispatch(c) \/ CallCleaned(c)
    \/ demand[c].on \in Dials /\ peer[demand[c].on].stop /\ RequestFails(c)

\* No answer of the peer and no end of its handshake is promised.
McpFairness ==
    /\ \A d \in Dials : WF_mcpVars(DialGoesOn(d)) /\ WF_mcpVars(CleanupMoves(d))
    /\ \A c \in Demands : WF_mcpVars(CallGoesOn(c))
    /\ WF_mcpVars(ShutdownCompletes)

McpSpec == McpInit /\ [][McpNext]_mcpVars /\ McpFairness

----------------------------------------------------------------------------

\* What the connector believes of its connection is so: connected means a
\* live, verified, unstopped session; and every other connection is stopped.
ConnectionAgrees ==
    /\ hub.connected => hub.session # NoPeer /\ peer[hub.session].ready
    /\ \A d \in Dials :
         peer[d].up /\ ~peer[d].stop => hub.session = d /\ dial[d].epoch = hub.epoch

\* A call answered ok was answered by a connection of its own epoch, and was
\* not made during a shutdown.
AnsweredInEpoch ==
    \A c \in McpCalls :
      demand[c].result = "ok" =>
        dial[demand[c].on].epoch = demand[c].epoch /\ ~demand[c].late

\* A connection is counted as a failure at most once, close and error and
\* overflow together: the back-off does not outgrow the failures.
FailuresCountOnce ==
    hub.fails <= Cardinality({d \in Dials : peer[d].failed})

\* Once a shutdown is over, every connection opened before it has been seen
\* closed or has been killed, the superseded ones included.
ShutdownIsThorough ==
    ~hub.closing =>
      \A d \in Dials :
        dial[d].epoch < hub.epoch /\ (peer[d].up \/ peer[d].seen)
          => peer[d].cleanup = "done"

McpSafe ==
    ConnectionAgrees /\ AnsweredInEpoch /\ FailuresCountOnce /\ ShutdownIsThorough

\* What a shutdown must end: a call made before it that still waits, for the
\* mutex, the attempt, the answer or a cleanup, whatever the peer does.
CallerToFree ==
    \E c \in Demands :
      demand[c].pc \notin {"new", "returned"} /\ demand[c].epoch # hub.epoch
=============================================================================
