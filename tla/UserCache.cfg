CONSTANTS
    Threads = {t1, t2}
    u1 = u1
    u2 = u2
    u3 = u3
    v1 = v1
    Stored <- FirstKeys
    Users = {u1, u2, u3}
    Versions = {v1}
    m_max_elm = 2
    MaxCalls = 3
    None = None
SPECIFICATION FairSpec
CHECK_DEADLOCK FALSE
INVARIANTS CacheSound AnswersSound
PROPERTY CallsReturn
