CONSTANTS
    Lines = {l1}
    Units <- OddPair
    Kinds <- Data
    Clears <- Never
    LineClears <- Never
    Resets <- AnyReset
    None = None
SPECIFICATION FairSpec
PROPERTY AccessesEnd
