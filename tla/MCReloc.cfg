\* One library relocated against another: every order of up to two entries of each table, 8-bit addresses.
CONSTANTS
    Libs = {"libA", "libB"}
    Self = "libA"
    RelocBase <- MCRelocBase
    Entries <- MCEntries
    PltEntries <- MCPltEntries
    MaxRels = 2
    Lookup <- MCLookup
    NotFound = NotFound
    Initial <- MCInitial
    Garbage = {0, 200}
    Unset = Unset
    Width = 8
SPECIFICATION Spec
INVARIANT RelocatedSlotsMatchElf
CHECK_DEADLOCK FALSE
