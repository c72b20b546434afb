--------------------------- MODULE MCSessionLock ---------------------------
(* Instances of SessionLock for TLC.  The bounds MaxOpens and MaxFaults are   *)
(* given by the configurations.                                             *)
EXTENDS SessionLock, TLC

\* Processes are interchangeable: no action or property names one.
Symmetry == Permutations(Procs)

=============================================================================
