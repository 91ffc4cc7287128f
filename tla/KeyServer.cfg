CONSTANTS
    g1 = g1
    g2 = g2
    q = q
    u = u
    v1 = v1
    v2 = v2
    Loops = {w1, w2}
    Calls = {g1, g2, q}
    Methods <- MethodOf
    Slot <- SlotOf
    MaxCrash = 1
    None = None
SPECIFICATION FairSpec
CHECK_DEADLOCK FALSE
INVARIANTS ObjectsSound DbConsistent
PROPERTIES Implements CallsEnd
