\* One approval beside the candidate review route, one content.
CONSTANTS
    c1 = c1
    c2 = c2
    r1 = r1
    s1 = s1
    x1 = x1
    k1 = k1
    k2 = k2
    None = None
    Clients = {c1, c2}
    Reviewers = {r1}
    Skills = {s1}
    Contents = {x1}
    Topics = {}
    Keys = {k1, k2}
    Notes = {}
    LegacyKey <- OneLegacyKey
    Requested = {"pending", "approved", "rejected"}
    TopicStatuses = {}
    MaxAudit = 0
SPECIFICATION Spec
INVARIANTS
    HistoryReadable
