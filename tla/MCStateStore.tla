---------------------------- MODULE MCStateStore ----------------------------
(* Bounds for checking StateStore with TLC: each process runs the PAM      *)
(* session of its own user against the global database.                   *)
EXTENDS StateStore, TLC

CONSTANTS p1, p2, p3, u1, u2, v0

MCUsers == {u1, u2}
MCInitVals == {v0}

(* p1 and p3 log in as u1, p2 as u2.                                       *)
MCUserOf == (p1 :> u1) @@ (p2 :> u2) @@ (p3 :> u1)
=============================================================================
