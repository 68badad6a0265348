----------------------------- MODULE MCDirectory -----------------------------
\* A root of two directories and four files, one of another sort, and
\* directories in a directory, one with a name that comes before ".."; no
\* directory is in its order on the card.  Outside the directories lie an entry
\* of the root, once more, and one of no directory.
EXTENDS Directory

E(p, l, d, c, x) == [place |-> p, letter |-> l, dir |-> d, up |-> FALSE, cluster |-> c, ext |-> x]
Up(c) == [E(1, 0, TRUE, c, Unset) EXCEPT !.up = TRUE]
DirsDef == [d \in {0, 2, 3, 4, 5, 9} |->
    CASE d = 0 -> <<E(6, 2, FALSE, 9, "ADF"), E(4, 2, TRUE, 3, Unset), E(3, 1, FALSE, 9, "ADF"),
                    E(8, 3, FALSE, 9, "ADF"), E(5, 2, FALSE, 9, "HDF"), E(2, 1, TRUE, 2, Unset),
                    E(7, 2, FALSE, 9, "ADF")>>
      [] d = 2 -> <<Up(0), E(3, 2, FALSE, 9, "HDF"), E(2, 2, TRUE, 4, Unset)>>
      [] d = 3 -> <<Up(0), E(0, 0, TRUE, 5, Unset)>>
      [] d = 4 -> <<Up(2), E(2, 3, FALSE, 9, "ADF"), E(1, 1, FALSE, 9, "ADF")>>
      [] d = 5 -> <<Up(3)>>
      [] d = 9 -> <<>>]
StrayDef == <<E(3, 1, FALSE, 9, "ADF"), E(1, 2, TRUE, 9, Unset)>>

\* What the theorems suppose of the directories is true of these.
ASSUME DirectoryHypotheses == LettersInOrder /\ FolderTree
=============================================================================
