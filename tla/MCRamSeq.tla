----------------------------- MODULE MCRamSeq -----------------------------
(* Two lines of memory: every offset of a line, so every split occurs,     *)
(* both into the next line and around the top of the address space.        *)
EXTENDS RamSeq
=============================================================================
