-------------------------- MODULE MCControlPlane --------------------------
(* Small instances of ControlPlane for TLC.                                *)
EXTENDS ControlPlane, TLC

Symmetry == Permutations(Apps) \cup Permutations(Bufs) \cup Permutations(Socks)
===========================================================================
