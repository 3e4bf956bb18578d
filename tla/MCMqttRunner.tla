---------------------------- MODULE MCMqttRunner ----------------------------
(* Small instances of the runner lease for TLC.                            *)
EXTENDS MqttRunner, TLC

\* Sound for the runs without a temporal property.
Symmetry == Permutations(Runners)
=============================================================================
