SPECIFICATION Spec
CONSTANTS
    k1 = k1
    k2 = k2
    s1 = s1
    s2 = s2
    c1 = c1
    l1 = l1
    m1 = m1
    b1 = b1
    b2 = b2
    b3 = b3
    b4 = b4
    h1 = h1
    h2 = h2
    h3 = h3
    Kits = {k1, k2}
    Sessions = {s1, s2}
    NoKit = NoKit
    Configs = {c1}
    Loggers = {l1}
    TrustManagers = {m1}
    OwnBlocks = {b1, b2, b3, b4}
    Handles = {h1, h2, h3}
    Null = Null
    Bounds <- SmallBounds
INVARIANTS ShutdownEndsAndSends ThreadsHaveTheirInstance OwnedOnce
PROPERTIES ShutdownReturns
CHECK_DEADLOCK FALSE
