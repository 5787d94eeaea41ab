\* One job, one worker, clock values up to one unit old.
CONSTANTS
    j1 = j1
    w1 = w1
    d1 = d1
    k1 = k1
    None = None
    Jobs = {j1}
    Workers = {w1}
    Digests = {d1}
    Keys = {k1}
    MaxActive = 1
    Ttls = {1}
    MaxDelay = 1
    MaxClock = 2
    MaxPending = 2
    MaxAudit = 1
SPECIFICATION Spec
PROPERTIES
    ExpiredCannotPublish
