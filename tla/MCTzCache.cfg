SPECIFICATION MCSpec
CONSTANTS
    Thread = {t1, t2}
    Key = {k1, k2, k3}
    Obj = {o1, o2, o3, o4}
    LRU_CAPACITY = 2
    None = None
SYMMETRY Symmetry
INVARIANTS
    LruCoherent
    SharedIdentity
    LruIsMostRecentlyUsed
PROPERTIES
    ImplementsInternTable
