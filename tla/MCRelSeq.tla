------------------------------ MODULE MCRelSeq ------------------------------
(* One fixed set and two sets that share WINDOW, or these two alone. *)
EXTENDS RelSeq
CONSTANTS users, b1, b2, v1
MCNames == {users, b1, b2}
MCWindowed == {b1, b2}
MCSweep == <<users, b1, b2>>
MCShared == <<b1, b2>>
MCVals == {v1}
=============================================================================
