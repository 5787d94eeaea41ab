\* Two calls in flight, two contents of one skill, one ordinary target.
CONSTANTS
    c1 = c1
    c2 = c2
    r1 = r1
    r2 = r2
    s1 = s1
    x1 = x1
    x2 = x2
    o1 = o1
    k1 = k1
    k2 = k2
    n1 = n1
    None = None
    Clients = {c1, c2}
    Reviewers = {r1, r2}
    Skills = {s1}
    Contents = {x1, x2}
    Topics = {o1}
    Keys = {k1, k2}
    Notes = {n1}
    LegacyKey <- OneLegacyKey
    Requested = {"pending", "approved", "rejected"}
    TopicStatuses = {"rejected"}
    MaxAudit = 2
SPECIFICATION Spec
SYMMETRY Symmetry
INVARIANTS
    RecordsAgree
    UnreadableOnlyByLegacyRace
    DecisionsStand
PROPERTIES
    ReadsAreCurrent
    ImplementsRegister
