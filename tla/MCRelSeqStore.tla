---------------------------- MODULE MCRelSeqStore ----------------------------
(* A fixed set and a WINDOW set of two records each. *)
EXTENDS RelSeqStore
CONSTANTS users, b1, v1
MCNames == {users, b1}
MCWindowed == {b1}
MCSweep == <<users, b1>>
MCVals == {v1}
=============================================================================
