------------------------------ MODULE MCReader ------------------------------
(* Two users; user 2 is below the level of board 2, which user 1 moderates. *)
(* Board 2 keeps one message, board 1 two.                                  *)
EXTENDS Reader
MCReadable  == {<<1, 1>>, <<1, 2>>, <<2, 1>>}
MCWritable  == {<<1, 1>>, <<1, 2>>, <<2, 1>>, <<2, 2>>}
MCModerated == {<<1, 2>>}
MCLimit     == <<2, 1>>
=============================================================================
