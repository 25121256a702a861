SPECIFICATION Spec
CONSTANTS
    r1 = r1
    r2 = r2
    feed = feed
    other = other
    k1 = k1
    k2 = k2
    x1 = x1
    x2 = x2
    w = w
    w1 = w1
    w2 = w2
    None = None
SYMMETRY Symmetry
CHECK_DEADLOCK FALSE
INVARIANTS LibraryExact Delivered
PROPERTIES CommandsHold
