CONSTANTS
    Lines = {l1, l2}
    Units <- OddPair
    Kinds <- Data
    Clears <- Never
    LineClears <- Sometimes
    Resets <- AnyReset
    None = None
SYMMETRY Symmetry
SPECIFICATION Spec
INVARIANTS ReadCurrent Handshakes CacheWhole
