\* Two subjects and two scopes, two of their principals, three proofs.
CONSTANTS
    u1 = u1
    u2 = u2
    a1 = a1
    a2 = a2
    s1 = s1
    p1 = p1
    p2 = p2
    p3 = p3
    q1 = q1
    q2 = q2
    None = None
    Subjects = {u1, u2}
    Scopes = {a1, a2}
    Sessions = {s1}
    Proofs = {p1, p2, p3}
    Requests = {q1, q2}
    Lifetime = 1
    ClockSkew = 0
    MaxGeneration = 2
    ClaimDelay = 1
    AdminDelay = 0
    MaxClock = 1
    MaxPrincipals = 2
CHECK_DEADLOCK FALSE
SPECIFICATION Spec
SYMMETRY Symmetry
INVARIANTS
    EveryChangeAuthorized
    HistoryExplainsSession
    RevocationHolds
PROPERTIES
    ClaimsFenced
