---------------------------- MODULE MCMemoryCard ----------------------------
(* MemoryCard with the first and the last page of each block.              *)
EXTENDS MemoryCard

MCPages == <<0, 63>>
=============================================================================
