SPECIFICATION Spec
CONSTANTS
    Thread = {t1, t2}
    Key = {k1, k2}
    Obj = {o1, o2, o3, o4}
    _TZCACHE_LRU_SIZE = 1
    Locks = {TRUE, FALSE}
    MaxKeys = 1
    None = None
VIEW LiveView
SYMMETRY Symmetry
INVARIANTS
    LruWithinLimit
    TablesAgree
PROPERTY AloneReturnsZoneOfKey
