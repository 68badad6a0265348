----------------------------- MODULE MCDdr3Cdc -----------------------------
(* The crossing for TLC: two distinguishable requests are enough to tell a *)
(* stale answer from the right one.                                        *)
EXTENDS Ddr3Cdc

=============================================================================
