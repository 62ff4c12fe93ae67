CONSTANTS
    h = h
    s = s
    g1 = g1
    Callers <- MCCallers
    Guests = {g1, g2}
    Asks <- MCAsks
    Capacity = 1

SPECIFICATION KentoSpec

INVARIANT NeverBothWait
