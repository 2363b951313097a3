------------------------- MODULE MCWriterSettlement -------------------------
(* WriterSettlement with the constants of its configurations. *)
EXTENDS WriterSettlement
=============================================================================
