---------------------------- MODULE MCDialerRun ----------------------------
(* DialerRun on small instances.                                           *)
EXTENDS DialerRun, TLC

Symmetry == Permutations(Workers)
=============================================================================
