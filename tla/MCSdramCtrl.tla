---------------------------- MODULE MCSdramCtrl ----------------------------
(* The SDRAM controller for TLC: the chipset's bank and another one, and   *)
(* everybody who asks for slots.                                           *)
EXTENDS SdramCtrl

CONSTANTS b1

TwoBanks == {0, b1}
OneRtgBank == {b1}

Everyone == {"CHIP", "READ", "WRITE", "RTG", "AUDIO", "HOST"}

\* the end of ph0 and of ph8: a clock before the slot is given
BeforeGrants == [c \in {"RTG", "AUDIO", "HOST"} |-> IF c = "RTG" THEN {8} ELSE {0}]
=============================================================================
