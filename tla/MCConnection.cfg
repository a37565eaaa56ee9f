SPECIFICATION Spec
CONSTANTS
    c1 = c1  c2 = c2
    r1 = r1  r2 = r2  r3 = r3
    h1 = h1  h2 = h2
    none = none
    Conns <- MCConns
    Results <- MCResults
    Callbacks <- MCCallbacks
    Timeouts <- MCTimeouts
    None = none
    MaxLeaks = 1
SYMMETRY Symmetry
INVARIANTS TypeOK RegistryExact HandleLifetime ClosedWhenIdle HandlerPreserved
