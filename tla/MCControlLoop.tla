---------------------------- MODULE MCControlLoop ----------------------------
(* Small instances of the control loop for TLC.                            *)
EXTENDS ControlLoop
=============================================================================
