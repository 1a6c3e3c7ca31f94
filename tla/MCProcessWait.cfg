\* The parent's main thread waits for the child (the fork and exit test of
\* the spec) while its second thread may join any thread; every thread may
\* exit.  The kernel may stop, so deadlock is not checked.
CONSTANTS
    pm = pm
    p2 = p2
    cm = cm
    parent = parent
    child = child
    Threads <- MCThreads
    Processes <- MCProcesses
    ThreadsOf <- MCThreadsOf
    WaitsFor <- MCWaitsFor
SPECIFICATION Spec
CHECK_DEADLOCK FALSE
PROPERTY WaitReturns
