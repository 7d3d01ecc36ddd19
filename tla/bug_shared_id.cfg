SPECIFICATION Spec
CONSTANTS
    Env = {e1, e2}
    ShortId = {s1}
    Short <- ShortClash
    Owner = {o1}
    Name = {n1, n2}
    Port = {1}
    Instance = {i1}
    LnPort = {1}
    None = None
    Request = {r1, r2}
    MaxFaults = 0
    Ops = {"create"}
    Want <- NoPool
    Ask <- NoAsk
    Ttl = {FALSE}
PROPERTIES DeletedWithCause
CHECK_DEADLOCK FALSE
