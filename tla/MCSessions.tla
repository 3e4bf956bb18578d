------------------------------ MODULE MCSessions ------------------------------
(***************************************************************************)
(* The session of a page, the confirmations of the MCP server and the      *)
(* reload of the configuration, which share no state, checked in one run:  *)
(* the initial state picks the part that takes steps; the others rest in   *)
(* states in which no step that is assumed to be fair is possible.         *)
(***************************************************************************)
EXTENDS BrowserSession, McpServer, ConfigReload

VARIABLE part

sessionVars == <<part, bsVars, mcVars, cfVars>>

\* The configuration has been applied.
CfAtRest ==
  /\ cfVersion = 1 /\ cfFaults = 0
  /\ cfAsked = [q \in CfRequests |-> 0]
  /\ cfStatus = [q \in CfRequests |-> "none"]
  /\ cfEntry = [q \in CfRequests |-> "none"]
  /\ cfOwner = CHOOSE c \in CfRunners : TRUE
  /\ cfRunner = [c \in CfRunners |->
                  IF c = cfOwner
                  THEN [CfOff EXCEPT !.at = "loop", !.client = 1, !.applied = 1]
                  ELSE CfOff]

\* The MCP server has two initial states, and one while it is idle.
SessionsInit ==
  /\ part \in {"page", "mcp", "reload"}
  /\ BsInit /\ McInit
  /\ part # "mcp" => mcConfigured
  /\ IF part = "reload" THEN CfInit ELSE CfAtRest

SessionsNext ==
  \/ part = "page" /\ BsNext /\ UNCHANGED <<part, mcVars, cfVars>>
  \/ part = "mcp" /\ McNext /\ UNCHANGED <<part, bsVars, cfVars>>
  \/ part = "reload" /\ CfNext /\ UNCHANGED <<part, bsVars, mcVars>>

SessionsSpec ==
  /\ SessionsInit /\ [][SessionsNext]_sessionVars
  /\ BsFairness /\ CfFairness
=============================================================================
