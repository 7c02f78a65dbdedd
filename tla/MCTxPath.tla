----------------------------- MODULE MCTxPath -----------------------------
(* Small instances of TxPath for TLC.                                      *)
EXTENDS TxPath, TLC
===========================================================================
