SPECIFICATION Spec
CONSTANTS
    None = None
    Files <- FilesDef
    Kind <- KindDef
    MAX_DRIVES = 1
    partitioncount = 0
    Saved <- SavedDef
    SaveSlots = {2}
    FIXED_040 = TRUE
    Fields = {"drives", "speed", "chipset", "autofire", "hardfile"}
    MaxEdits = 1
    MaxFaults = 1
    Chords = {"turbo", "autofire", "debug"}
    Troubles = {"fdd", "nocard", "badcard", "norom", "fallback", "save", "nofiles"}
INVARIANTS SettingsReachCore MemoryAsked HardfileInUse
PROPERTIES InsertsWhereAsked
