------------------------------- MODULE MCMenu -------------------------------
\* Two images, one with its own partition table and one of an unknown kind,
\* and a configuration in the default slot: one image in use, and for the other
\* unit, which is switched off, one that is not on the card.
EXTENDS Menu

FilesDef == {"A", "B"}
KindDef == [f \in FilesDef |-> IF f = "A" THEN "DOS" ELSE "UNKNOWN"]
SavedDef == [i \in 0..4 |->
    IF i = 0 THEN [drives |-> 1, memory |-> 0, enable_ide |-> TRUE,
                   hardfile |-> [u \in {0, 1} |->
                       [enabled |-> IF u = 0 THEN 129 ELSE 0,
                        name |-> IF u = 0 THEN "A" ELSE "gone", present |-> FALSE]]]
    ELSE None]
=============================================================================
