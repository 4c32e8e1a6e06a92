------------------------------- MODULE MCTxFlow -------------------------------
(* TxFlow on small instances.                                              *)
EXTENDS TxFlow, TLC
CONSTANTS c1, c2

OneChannel  == {c1}
TwoChannels == {c1, c2}

\* The channels are interchangeable.
Symmetry == Permutations(TwoChannels)
===============================================================================
