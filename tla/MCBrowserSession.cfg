\* Two callers and one guarded request over two digest pairs.
CONSTANTS
    d1 = d1
    d2 = d2
    d3 = d3
    d4 = d4
    p1 = p1
    o1 = o1
    c1 = c1
    c2 = c2
    q1 = q1
    None = None
    Identifiers = {d1, d2}
    Tokens = {d3, d4}
    Principals = {p1}
    Origins = {o1}
    Callers = {c1, c2}
    Requests = {q1}
    IdleLifetime = 1
    AbsoluteLifetime = 2
    ClockSkew = 0
    MaxGeneration = 2
    MaxVersion = 4
    MaxAge = 0
    MaxDelay = 1
    MaxClock = 2
    MaxInFlight = 2
SPECIFICATION Spec
SYMMETRY Symmetry
INVARIANTS
    OneIdentifierPerLogin
    GuardSound
    RevocationNeverBlocked
PROPERTIES
    DeadForever
    ExpiryFinal
