----------------------------- MODULE MCFifoCtrl -----------------------------
(* FifoCtrl on small instances.                                            *)
EXTENDS FifoCtrl, TLC
CONSTANTS w1, w2

MCCtrlWords == {w1, w2}

\* The control words are interchangeable.
Symmetry == Permutations(MCCtrlWords)
=============================================================================
