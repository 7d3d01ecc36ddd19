SPECIFICATION Spec
CONSTANTS
    Env = {e1, e2}
    ShortId = {e1, e2}
    Short <- ShortOwn
    Owner = {o1}
    Name = {n1, n2}
    Port = {1, 2}
    Instance = {i1}
    LnPort = {1, 2}
    None = None
    Request = {r1, r2}
    MaxFaults = 0
    Ops = {"create"}
    Want <- BothPools
    Ask <- NoAsk
    Ttl = {FALSE}
INVARIANT PortsDisjoint
CHECK_DEADLOCK FALSE
