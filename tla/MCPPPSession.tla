---------------------------- MODULE MCPPPSession ----------------------------
(* Bounds for checking PPPSession with TLC.                                *)
EXTENDS PPPSession, TLC

CONSTANTS p1, p2, p3

MCProc == {p1, p2, p3}

(* Processes are interchangeable model values.                             *)
MCSymmetry == Permutations(MCProc)
=============================================================================
