SPECIFICATION Spec
CONSTANTS
    Env = {e1, e2}
    ShortId = {s1}
    Short <- ShortClash
    Owner = {o1}
    Name = {n1, n2}
    Port = {1}
    Instance = {i1}
    LnPort = {1}
    None = None
    Request = {r1, r2}
    MaxFaults = 1
    Ops = {"create", "get", "destroy", "delete"}
    Want <- NoPool
    Ask <- NoAsk
    Ttl = {TRUE, FALSE}
SYMMETRY Symmetry
INVARIANTS NameUnique
PROPERTIES PurgeOnlyDead NoTakeover NamesLeased
CHECK_DEADLOCK FALSE
