SPECIFICATION Spec
CONSTANTS
    sptt <- MCSptt
    HeadRange <- MCHeadRange
    SynthSectors = 3
    Limits <- MCLimits
    Sizes = {7, 9}
    ClusterSize = 2
    LinksPerSector = 2
    IndexStep = 4
    Kinds = {"file", "synth", "card"}
    CountRegister = 4
    MaxRead = 4
    MaxWrite = 4
    MaxMultiple = 2
    FifoSectors = 2
    CardFaults = TRUE
INVARIANTS CursorCoherent FifoFits EndAddress
PROPERTIES DriveSpec CommandEnds
CHECK_DEADLOCK FALSE
