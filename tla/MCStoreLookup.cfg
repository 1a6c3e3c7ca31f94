CONSTANTS
    NameSet <- MCNameSet
    Bases = {0, 4, 8}
    PageCounts = {1}
    PageSize = 4
    Addresses <- MCAddresses
    LibraryCount = 2
    CharIsSigned = TRUE
    None = None
    NameBytes <- MCNameBytes
    MaxNameLen = 3
    MaxConsoleLen = 3
    ConsoleBytes <- MCConsoleBytes
    Components <- MCComponents
    ParamCodes <- MCParamCodes
    ModuleNames <- MCModuleNames
SPECIFICATION MCSpec
INVARIANT AtreeCompareMatchesReference
INVARIANT IsCPPNameMatchesPrefix
INVARIANT DemangleInvertsMangle
INVARIANT ModuleLookupFindsFirstEqual
INVARIANT ConsoleEscapesFollowSpec
