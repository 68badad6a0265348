------------------------------ MODULE MCFloppy ------------------------------
EXTENDS Floppy

\* Two ADF files: one shorter than the drive can step, and write-protected.
ImagesDef == <<[tracks |-> 2, writable |-> TRUE], [tracks |-> 1, writable |-> FALSE]>>
\* The heads of the second drive stay where they are.
MaxTrackDef == [d \in Drives |-> IF d = 0 THEN 1 ELSE 0]

\* The heads reach no track that a writable image does not have (WithinImage of FloppyProofs):
\* WriteTrack, unlike ReadTrack, does not look.
ASSUME LongEnough ==
    \A i \in DOMAIN Images, d \in Drives : Images[i].writable => MaxTrack[d] < Images[i].tracks
=============================================================================
