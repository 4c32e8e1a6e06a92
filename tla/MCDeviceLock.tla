----------------------------- MODULE MCDeviceLock -----------------------------
(* DeviceLock on small instances.                                          *)
EXTENDS DeviceLock, TLC
CONSTANTS p1, p2

MCProcs == {p1, p2}

\* The processes are interchangeable.
Symmetry == Permutations(MCProcs)
===============================================================================
