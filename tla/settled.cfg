SPECIFICATION Spec
CONSTANTS
    Env = {e1, e2}
    ShortId = {e1, e2}
    Short <- ShortOwn
    Owner = {o1}
    Name = {n1, n2}
    Port = {1}
    Instance = {i1, i2}
    LnPort = {1, 2}
    None = None
    Request = {r1}
    MaxFaults = 1
    Ops = {"create", "get", "stop", "start", "update", "destroy", "delete"}
    Want <- AnyPools
    Ask <- SomeAsk
    Ttl = {FALSE}
SYMMETRY Symmetry
INVARIANTS TypeOK PortsDisjoint ActiveTracked PublishedReserved SettledReplicas
CHECK_DEADLOCK FALSE
