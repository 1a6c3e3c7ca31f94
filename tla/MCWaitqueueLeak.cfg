CONSTANTS
    t1 = t1
    t2 = t2
    t3 = t3
    c1 = c1
    c2 = c2
    e1 = e1
    e2 = e2
    e3 = e3
    NoEntry = NoEntry
    Entries <- MCEntries
    Threads <- MCThreads
    Channels <- MCChannels
    WakeEmptyChannels = TRUE
SPECIFICATION Spec
INVARIANT NoEntryLeak
