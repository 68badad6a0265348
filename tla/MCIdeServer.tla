---------------------------- MODULE MCIdeServer ----------------------------
EXTENDS IdeServer

\* Seven sectors are a whole number of tracks and one, nine have a geometry of
\* two heads, and with an RDB of ours in front one that fits.
MCSptt == <<2, 3>>
MCHeadRange == <<1, 2>>
MCLimits == [total |-> 9, small |-> 3, few |-> 3, some |-> 4, some_heads |-> 2, all |-> 4]

ASSUME Drives == GeometryFound /\ PartlyFilled

-----------------------------------------------------------------------------
\* The numbers of the code: up to the largest drive they have a geometry for,
\* the Amiga is told of no sector that is not there (with an RDB of ours in
\* front, of a cylinder more), of 16 heads and 255 sectors per track at most,
\* and of some cylinder from a cylinder's worth of sectors on; and the search
\* finds a geometry.

True == INSTANCE Geometry WITH
    sptt <- <<63, 127, 255>>, HeadRange <- <<4, 16>>, SynthSectors <- 32,
    Limits <- [total |-> 1048576, small |-> 1023, few |-> 16383, some |-> 32767,
               some_heads |-> 5, all |-> 65535]

Around(n) == (n - 3)..(n + 3)
Totals == 1..600 \cup {32 * i : i \in 1..64}
          \cup UNION {Around(n) : n \in
                 {h * c * t : h \in {4, 5, 16}, c \in {1023, 1024, 16383}, t \in {63, 127, 255}}
                 \cup {32 * h * c : h \in {1, 15, 16}, c \in {65534, 65535}}
                 \cup {1048576, 16 * 65534 * 255}}
Told(k, total) == LET geo == True!GetHardfileGeometry(k, total) IN
    /\ geo.heads \in 1..16 /\ geo.sectors \in 1..255
    /\ geo.cylinders * geo.heads * geo.sectors <= total + (IF k = "synth" THEN geo.heads * geo.sectors ELSE 0)
    /\ total >= 4 * 63 => geo.cylinders > 0
    /\ total <= 16 * 255 * True!cyllimit(k) => True!Found(k, total)
ASSUME NothingBeyond == \A k \in {"file", "synth", "card"}, total \in Totals : Told(k, total)
=============================================================================
