SPECIFICATION MeshFairSpec
CONSTANTS
    e1 = e1
    e2 = e2
    i1 = i1
    i2 = i2
    Env = {e1, e2}
    Instance = {i1, i2}
    Asks <- Lists
    Sound <- OneStuck
    Task = {t1}
    Reconciler = Reconciler
    Attempts = 2
    MaxFaults = 1
    None = None
INVARIANTS MeshTypeOK HandledPeered
PROPERTIES MeshHeals TasksEnd
CHECK_DEADLOCK FALSE
