---------------------------- MODULE RelSeqStore ----------------------------
(***************************************************************************)
(* RelSeq implements RecordStore: the saved version of a set is what the   *)
(* boot sweep would make of its two files, so a save takes effect at the   *)
(* scratch of the live file (at the rename, for a set saved the first      *)
(* time), and every other disk operation is invisible to the callers.      *)
(***************************************************************************)
EXTENDS RelSeq

R == INSTANCE RecordStore WITH
       store <- [n \in Names |-> Store(n)],
       cur   <- written,
       born  <- [n \in Names |-> acked[n] # Absent]

\* Saves are atomic: with any of select, open, write and scratch failing, and
\* a reset between any two disk operations, the callers of rel_open/rel_write/
\* rel_close and the boot sweep behave as the abstract store does.
AtomicSaves == R!Spec
=============================================================================
