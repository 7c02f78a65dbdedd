----------------------------- MODULE MCRteRing -----------------------------
(* Small instances of RteRing for TLC.                                     *)
EXTENDS RteRing, TLC

Symmetry == Permutations(Producers) \cup Permutations(Consumers)
===========================================================================
