\* A helper and a sweeper about one guest, another guest, and a pipe of one unit.
CONSTANTS
    h = h
    s = s
    g1 = g1
    Callers <- MCCallers
    Guests = {g1, g2}
    Asks <- MCAsks
    Capacity = 1

SPECIFICATION FairSpec

INVARIANTS
    KentoTypeOK
    OkIsTrue

PROPERTIES
    ImplementsBridge
    CallReturns
