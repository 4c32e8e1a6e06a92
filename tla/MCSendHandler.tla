---------------------------- MODULE MCSendHandler ----------------------------
(* SendHandler on small instances.                                         *)
EXTENDS SendHandler

\* No samples, one packet, a packet and a half.
SmallSizes == {0, 2, 3}
=============================================================================
