------------------------------- MODULE MCRunner -------------------------------
(***************************************************************************)
(* The lease of the runners and the connection of one of them to the       *)
(* broker, which share no state, checked in one run: the initial state     *)
(* picks the part that takes steps; the other rests in a state in which no *)
(* step that is assumed to be fair is possible.                            *)
(***************************************************************************)
EXTENDS MqttRunner, MqttConnection

VARIABLE part

\* connect_async has returned and the client's network thread is running.
ConnAtRest ==
  /\ client = 1 /\ created = 1
  /\ flag = FALSE /\ event = FALSE /\ state = "connecting"
  /\ lock = "free" /\ main = "idle" /\ old = 0
  /\ loop = [c \in Clients |-> IF c = 1 THEN "running" ELSE "none"]
  /\ link = {}
  /\ cb = [c \in Clients |-> "none"]
  /\ calls = [c \in Clients |-> 0]
  /\ publishing = 0

\* No runner has started in the initial state of the lease.
RunnerInit ==
  /\ part \in {"lease", "conn"}
  /\ Init
  /\ IF part = "conn" THEN ConnInit ELSE ConnAtRest

RunnerNext ==
  \/ part = "lease" /\ Next /\ UNCHANGED <<part, connVars>>
  \/ part = "conn" /\ ConnNext /\ UNCHANGED <<part, vars>>

RunnerSpec ==
  /\ RunnerInit /\ [][RunnerNext]_<<part, vars, connVars>>
  /\ Fairness /\ ConnFairness
=============================================================================
