----------------------------- MODULE MCOutOfBand -----------------------------
(* Bounds for checking OutOfBand with TLC.                                 *)
EXTENDS OutOfBand
=============================================================================
