----------------------------- MODULE MCCtrlIface -----------------------------
(* CtrlIface on small instances.                                           *)
EXTENDS CtrlIface

\* An older firmware, the host's own, and a newer one.
MCFwVersions == {11, 12, 13}
=============================================================================
