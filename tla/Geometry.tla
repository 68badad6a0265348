------------------------------ MODULE Geometry ------------------------------
(***************************************************************************)
(* The cylinders, heads and sectors the firmware gives a drive of so many  *)
(* sectors (GetHardfileGeometry, hdd.c).  The Amiga addresses the drive by *)
(* them and never asks how long it is.  The numbers of the code are        *)
(* constants, so that a drive of a few sectors meets every limit.          *)
(***************************************************************************)
EXTENDS Integers, Sequences, FiniteSetsExt

CONSTANTS sptt,          \* the sectors per track it tries, in order
          HeadRange,     \* <<4, 16>>: the heads it tries
          SynthSectors,  \* 32: sectors per track of a file that gets an RDB of ours
          Limits         \* cylinders it takes for plausible: see Plausible

ASSUME GeometryConstants ==
    /\ sptt \in Seq(Nat \ {0}) /\ sptt # <<>>
    /\ HeadRange \in (Nat \ {0}) \X Nat /\ HeadRange[1] <= HeadRange[2]
    /\ SynthSectors \in Nat \ {0}
    /\ Limits \in [total : Nat, small : Nat, few : Nat, some : Nat, some_heads : Nat, all : Nat \ {0}]

\* cyllimit: with an RDB of ours in front there will be one more.
cyllimit(kind) == IF kind = "synth" THEN Limits.all - 1 ELSE Limits.all

Plausible(kind, total, head, cyl) ==
    IF total <= Limits.total THEN cyl <= Limits.small
    ELSE \/ cyl < Limits.few
         \/ cyl < Limits.some /\ head >= Limits.some_heads
         \/ cyl <= cyllimit(kind)

\* Is there a plausible pair at all?
Found(kind, total) ==
    \E i \in DOMAIN sptt, head \in HeadRange[1]..HeadRange[2] :
        Plausible(kind, total, head, total \div (head * sptt[i]))

\* The first plausible pair, sectors per track first.  When there is none the
\* loops leave one head too many.
Approximate(kind, total) ==
    LET heads == HeadRange[1]..HeadRange[2]
        cyl(spt, head) == total \div (head * spt)
        last == sptt[Len(sptt)]
        tracks == {i \in DOMAIN sptt :
                     \E h \in heads : Plausible(kind, total, h, cyl(sptt[i], h))}
        spt == sptt[Min(tracks)]
        head == Min({h \in heads : Plausible(kind, total, h, cyl(spt, h))})
    IN IF tracks = {}
       THEN [cylinders |-> cyl(last, HeadRange[2]), heads |-> HeadRange[2] + 1, sectors |-> last]
       ELSE [cylinders |-> cyl(spt, head), heads |-> head, sectors |-> spt]

\* A file the size of which WinUAE would choose: the fewest heads that divide it.
Exact(total) ==
    {h \in 1..HeadRange[2] :
        LET cyl == total \div (h * SynthSectors)
        IN  cyl <= cyllimit("synth") /\ h * cyl * SynthSectors = total}

\* With an RDB of ours a cylinder is added for it; cylinders is 16 bits wide.
GetHardfileGeometry(kind, total) ==
    IF kind # "synth" THEN [Approximate(kind, total) EXCEPT !.cylinders = @ % (Limits.all + 1)]
    ELSE IF Exact(total) # {}
    THEN [cylinders |-> (total \div (Min(Exact(total)) * SynthSectors)) + 1,
          heads |-> Min(Exact(total)), sectors |-> SynthSectors]
    ELSE [Approximate(kind, total) EXCEPT !.cylinders = (@ + 1) % (Limits.all + 1)]
=============================================================================
