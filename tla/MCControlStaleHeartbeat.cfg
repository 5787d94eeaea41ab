\* Two jobs, one lease slot, clock values up to one unit old.
CONSTANTS
    j1 = j1
    j2 = j2
    w1 = w1
    d1 = d1
    k1 = k1
    None = None
    Jobs = {j1, j2}
    Workers = {w1}
    Digests = {d1}
    Keys = {k1}
    MaxActive = 1
    Ttls = {1, 2}
    MaxDelay = 1
    MaxClock = 3
    MaxPending = 2
    MaxAudit = 1
SPECIFICATION Spec
SYMMETRY Symmetry
INVARIANTS
    ActiveLeaseCap
