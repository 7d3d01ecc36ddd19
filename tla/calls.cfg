SPECIFICATION Spec
CONSTANTS
    a = a
    b = b
    c = c
    PortCalls <- AllPortCalls
    TripleCalls <- AllTripleCalls
    Component = {a, b, c}
    Version <- Versions
    NoVersion = NoVersion
    CatalogCalls <- AllCatalogCalls
    AuthCalls <- AllAuthCalls
    Skew = 2
    Top = 5
    Unlimited = Unlimited
    Env = {e1, e2}
    Sweeper = {w1}
    Wishes <- SomeWishes
    None = None
    MaxFaults = 1
INVARIANTS Answered TriplesFit AllOrExhausted LowestFirst DeployedCompatible RefusedForCause SelectionLeast AdmissionExact GatewayTypeOK ServedWhole RaceHasWinner GrantsCollected
PROPERTIES ScansEnd
CHECK_DEADLOCK FALSE
