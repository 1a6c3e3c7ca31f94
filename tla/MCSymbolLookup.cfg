\* A dependency cycle between a and b; lookups of every kind of symbol from
\* every library.  A lookup ends, so deadlock is not checked.
CONSTANTS
    a = a
    b = b
    c = c
    f = f
    g = g
    k = k
    l = l
    Libs <- MCLibs
    Deps <- MCDeps
    Symbols <- MCSymbols
    Local = {l}
    DefinedIn <- MCDefinedIn
    InKernel = {k}
    KernelStub = KernelStub
    None = None
    MaxTree = 2
SPECIFICATION Spec
CHECK_DEADLOCK FALSE
PROPERTY LookupReturns
