SPECIFICATION Spec
CONSTANTS
    Env = {e1}
    ShortId = {e1}
    Short <- ShortOwn
    Owner = {o1}
    Name = {n1}
    Port = {1}
    Instance = {i1}
    LnPort = {1}
    None = None
    Request = {r1}
    MaxFaults = 0
    Ops = {"create", "get", "stop"}
    Want <- NoPool
    Ask <- NoAsk
    Ttl = {TRUE}
PROPERTIES ReapedNotStartable
CHECK_DEADLOCK FALSE
