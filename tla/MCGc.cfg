SPECIFICATION Collector
CONSTANTS
    Tids = {t1, t2}
    Objs = {o1, o2, o3, o4}
    Addrs = {a1, a2, a3}
    None = None
    MaxCacheNum = 0
SYMMETRY Symmetric
INVARIANT NothingLost
PROPERTIES KeepsPromise ListKeepsNodes
