---------------------------- MODULE MCCommandBus ----------------------------
(* Small instances of the command bus for TLC.                             *)
EXTENDS CommandBus, TLC

\* Every request goes to a device of its own, which bears its name.
OwnDevice == [r \in Requests |-> r]

\* Sound where the requests are of one kind, and without liveness: they are
\* exchanged together with their devices.
Symmetry == Permutations(Requests)
=============================================================================
