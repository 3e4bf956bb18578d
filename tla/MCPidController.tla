--------------------------- MODULE MCPidController ---------------------------
(* A small instance of the PID algorithm for TLC.                          *)
EXTENDS PidController

MCErrors == -1 .. 3
=============================================================================
