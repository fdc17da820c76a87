----------------------------- MODULE MCServices -----------------------------
(***************************************************************************)
(* The services on the way of a Run, for TLC.  Each is explored by itself:  *)
(* `part` names the one that moves, the others stay in their initial        *)
(* states, and the state spaces add up.  What a service takes from another  *)
(* (a foreground Run, the background gate, the control) is an action of its *)
(* own module.                                                              *)
(***************************************************************************)
EXTENDS ToolConfirmation, TrialAuthority, ChatIntake, RunStream, AgentStrategy,
        Supervisor, McpConnector

VARIABLE part   \* the service that moves

Parts == {"gate", "trial", "intake", "stream", "agent", "supervisor", "mcp"}

TrialLoad(ids, controls, edits, posts, ends, failures) ==
  [execs |-> ids, controls |-> controls, edits |-> edits, posts |-> posts, ends |-> ends,
   faults |-> failures]

MCTrialLoads ==
  {TrialLoad({1}, 2, 1, 0, 0, 0), TrialLoad({1}, 0, 0, 2, 1, 0), TrialLoad({2}, 2, 1, 0, 0, 0),
   TrialLoad({1, 2}, 0, 0, 0, 1, 0), TrialLoad({1}, 1, 0, 0, 1, 1), TrialLoad({1, 2}, 0, 1, 0, 0, 1)}

(* The counts of f, and nothing else.                                       *)
Counts(names, f) == [x \in names |-> IF x \in DOMAIN f THEN f[x] ELSE 0]

MCSupervisorLoads ==
  {Counts(Mishaps, f) : f \in
     {[starts |-> 1, commands |-> 3, failures |-> 1],
      [starts |-> 1, commands |-> 2, failures |-> 1, writes |-> 1],
      [starts |-> 2, commands |-> 2, ends |-> 1, failures |-> 1],
      [starts |-> 2, commands |-> 1, ends |-> 2], [starts |-> 1, failures |-> 3, writes |-> 1],
      [starts |-> 1, commands |-> 1, failures |-> 1, newer |-> 1, ends |-> 1]}}

MCMcpLoads ==
  {Counts(McpEvents, f) : f \in
     {[demands |-> 2, losses |-> 1, shutdowns |-> 1], [demands |-> 2, errors |-> 1, shutdowns |-> 1],
      [demands |-> 2, losses |-> 1, errors |-> 1], [demands |-> 2, losses |-> 2],
      [demands |-> 3, shutdowns |-> 1, mismatches |-> 1]}}

(* A part that stays where it is needs only one of its initial states.      *)
ServicesInit ==
  /\ part \in Parts
  /\ GateInit
  /\ TrialInit
  /\ IntakeInit
  /\ StreamInit
  /\ AgentInit
  /\ SupervisorInit
  /\ McpInit
  /\ part # "trial" => quota = CHOOSE q \in MCTrialLoads : TRUE
  /\ part # "supervisor" => slack = CHOOSE s \in SupervisorLoads : TRUE
  /\ part # "mcp" => chances = CHOOSE c \in McpLoads : TRUE
  /\ part # "stream" => total = 2 /\ ending = "completed"

ServicesNext ==
  /\ UNCHANGED part
  /\ IF part = "gate" THEN GateNext ELSE UNCHANGED gateVars
  /\ IF part = "trial" THEN TrialNext ELSE UNCHANGED trialVars
  /\ IF part = "intake" THEN IntakeNext ELSE UNCHANGED intakeVars
  /\ IF part = "stream" THEN StreamNext ELSE UNCHANGED streamVars
  /\ IF part = "agent" THEN AgentNext ELSE UNCHANGED agentVars
  /\ IF part = "supervisor" THEN SupervisorNext ELSE UNCHANGED supervisorVars
  /\ IF part = "mcp" THEN McpNext ELSE UNCHANGED mcpVars

servicesVars ==
  <<part, gateVars, trialVars, intakeVars, streamVars, agentVars,
    supervisorVars, mcpVars>>

(* No fair action of a part that stays is enabled in its initial state.     *)
ServicesSpec ==
  /\ ServicesInit
  /\ [][ServicesNext]_servicesVars
  /\ TrialFairness
  /\ StreamFairness
  /\ AgentFairness
  /\ SupervisorFairness
  /\ McpFairness

(* The services' variables have their types.                                *)
ServicesTypeOK ==
  /\ GateTypeOK
  /\ TrialTypeOK
  /\ IntakeTypeOK
  /\ StreamTypeOK
  /\ AgentTypeOK
  /\ SupervisorTypeOK
  /\ McpTypeOK

(* The processes around the server keep to their rules: the supervisor's    *)
(* stop, budget and hold, and the connector's session and epoch.            *)
ProcessSafe == SupervisorSafe /\ McpSafe

(* The services get to where they must: a permitted relay closes after a    *)
(* stop, the page converges on the journal, a strategy ends, an operator's  *)
(* stop ends the server, and a shutdown of a connector frees its callers.   *)
(* (Only one of the parts moves, so these are five promises.)               *)
Unfinished ==
  RelayToClose \/ PageBehind \/ StrategyUnderWay \/ ServerToStop \/ CallerToFree
ServicesProgress == Unfinished ~> ~ Unfinished
=============================================================================
