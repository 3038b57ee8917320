SPECIFICATION MCSpec
CONSTANTS
    MaxCalls = 2
    Thread = {t1, t2}
    Obj = {o1, o2}
    LRU_CAPACITY = 1
    None = None
    k1 = k1
    k2 = k2
    bad = bad
    env = env
    user = user
    Key <- MCKey
    BenignKey <- MCBenign
    TzPath <- MCTzPath
    EnvPath = env
    Provides <- MCProvides
    Tzdata <- MCTzdata
    Purpose = {"get", "system"}
    Package = Package
VIEW LiveView
SYMMETRY Symmetry
INVARIANTS
    TzPathOverrideWins
    OnlyRacingLoadsSurviveClear
    SystemTzIsInterned
