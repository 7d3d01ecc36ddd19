SPECIFICATION FairSpec
CONSTANTS
    Env = {e1, e2}
    ShortId = {e1, e2}
    Short <- ShortOwn
    Owner = {o1}
    Name = {n1, n2}
    Port = {1, 2}
    Instance = {i1}
    LnPort = {1}
    None = None
    Request = {r1}
    MaxFaults = 1
    Ops = {"create", "get", "destroy"}
    Want <- OnePool
    Ask <- NoAsk
    Ttl = {TRUE}
INVARIANTS ActiveTracked
PROPERTIES DueReaped DueRecordDies DeletedWithCause
CHECK_DEADLOCK FALSE
