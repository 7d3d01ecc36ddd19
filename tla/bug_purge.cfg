SPECIFICATION Spec
CONSTANTS
    Env = {e1}
    ShortId = {e1}
    Short <- ShortOwn
    Owner = {o1}
    Name = {n1}
    Port = {1}
    Instance = {i1}
    LnPort = {1}
    None = None
    Request = {r1, r2}
    MaxFaults = 0
    Ops = {"create", "get", "delete"}
    Want <- NoPool
    Ask <- NoAsk
    Ttl = {FALSE}
PROPERTIES PurgedIsGone
CHECK_DEADLOCK FALSE
