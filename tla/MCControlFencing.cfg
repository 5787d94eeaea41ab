\* One job, two workers, clock values up to one unit old.
CONSTANTS
    j1 = j1
    w1 = w1
    w2 = w2
    d1 = d1
    d2 = d2
    k1 = k1
    None = None
    Jobs = {j1}
    Workers = {w1, w2}
    Digests = {d1, d2}
    Keys = {k1}
    MaxActive = 2
    Ttls = {2}
    MaxDelay = 1
    MaxClock = 3
    MaxPending = 2
    MaxAudit = 2
SPECIFICATION Spec
SYMMETRY Symmetry
INVARIANTS
    TypeOK
    TablesAgree
    LogOrdersLeases
PROPERTIES
    LeaseTimesRespected
    ImplementsFencedJobs
