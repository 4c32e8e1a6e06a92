----------------------------- MODULE MCRecvHandler -----------------------------
(* RecvHandler on small instances.                                         *)
EXTENDS RecvHandler

\* Calls for a packet and a half, so that sets are left half consumed.
SmallWants == {3}
=============================================================================
