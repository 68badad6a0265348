SPECIFICATION SelectorSpec
CONSTANTS
    Unset = Unset
    Dirs <- DirsDef
    MAXDIRENTRIES = 3
    Extensions = {"ADF", "HDF"}
    Letters = {1, 2, 3}
    fat32 = TRUE
    Stray <- StrayDef
    MaxFaults = 1
    Breaks = {0, 1, 4}
INVARIANTS WindowOfListing
PROPERTIES CursorFollows LettersFind
