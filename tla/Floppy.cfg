SPECIFICATION Spec
CONSTANTS
    None = None
    Drives = {0, 1}
    Images <- ImagesDef
    SECTOR_COUNT = 3
    ClusterSize = 2
    MaxTrack <- MaxTrackDef
    MaxUnits = 3
    Shapes = {"sector", "pair", "foreign", "cut"}
    Changes = 2
    Aborts = 1
    AbortKinds = {"read"}
INVARIANTS StoreInPlace
PROPERTIES SectorsTrue SectorsInOrder ChangeSeen
