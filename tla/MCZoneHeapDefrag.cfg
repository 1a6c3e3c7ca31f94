\* Tiny requests with the change threshold lowered so that defragmentation runs.
CONSTANTS
    z1 = z1
    z2 = z2
    ZoneIds <- MCZoneIds
    NoZone = NoZone
    FreeSizeCap = 64
    PageSize = 64
    MaxRecords = 4
    MaxAllocations = 6
    Sizes = {1}
    Flags = {}
    TinyChangeThreshold = 2
    ChangeThreshold = 2
SYMMETRY MCSymmetry
SPECIFICATION Spec
PROPERTY DefragmentCoalesces
