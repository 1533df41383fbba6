----------------------------- MODULE MCTransfers -----------------------------
(* Two areas, the second one above the caller's level. *)
EXTENDS Transfers
MCLevels == <<1, 2>>
MCUploadLevels == <<1, 1>>
=============================================================================
