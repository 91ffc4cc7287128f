CONSTANTS
    e1 = e1
    e2 = e2
    e3 = e3
    e4 = e4
    a = a
    b = b
    c = c
    d = d
    Elms = {e1, e2, e3, e4}
    Keys = {a, b, c, d}
    Key <- KeyOf
    hash_fn <- Hash
    dh_hash_fn <- Hash
    Size = 2
    MaxChain = 2
    MaxSize = 11
    MaxInserts = 8
    None = None
SPECIFICATION FairSpec
CHECK_DEADLOCK FALSE
INVARIANTS TableSound IterationSound
PROPERTY LoopsEnd
