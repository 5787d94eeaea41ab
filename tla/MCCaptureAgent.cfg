\* Two sessions, a recording that may change once, three failures.
CONSTANTS
    r1 = r1
    r2 = r2
    Unusable = Unusable
    None = None
    Recordings = {r1, r2}
    GracePeriod = 1
    MaxSessions = 2
    MaxEvents = 3
    MaxFaults = 3
    MaxClock = 3
SPECIFICATION FairSpec
INVARIANTS
    TypeOK
    RecorderFollows
    LogAlternates
    DurationIsActiveTime
    PackageMatches
    RetryMatchesRegistration
PROPERTIES
    NoSessionDropped
    AgentFinishes
