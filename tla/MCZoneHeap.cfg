\* Two zone addresses and a request size of every zone kind: tiny (1, 20), small (70), medium (300) and large (2100, a zone of its own rounded up to whole pages); no flags.
CONSTANTS
    z1 = z1
    z2 = z2
    ZoneIds <- MCZoneIds
    NoZone = NoZone
    FreeSizeCap = 300
    PageSize = 64
    MaxRecords = 3
    MaxAllocations = 5
    Sizes = {1, 70, 300, 2100}
    Flags = {}
    TinyChangeThreshold = 3
    ChangeThreshold = 2
SYMMETRY MCSymmetry
SPECIFICATION Spec
INVARIANTS
    TypeOK
    HeldAreUsedRecords
    RecordsTileZone
    CountersMatchRecords
