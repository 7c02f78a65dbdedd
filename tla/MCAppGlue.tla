----------------------------- MODULE MCAppGlue -----------------------------
(* Small instances of AppGlue for TLC.                                     *)
EXTENDS AppGlue, TLC
===========================================================================
