\* Two packages, one of them poison, one or two API processes, two builds, two failures.
CONSTANTS
    s1 = s1
    s2 = s2
    w1 = w1
    w2 = w2
    r1 = r1
    r2 = r2
    None = None
    Sessions = {s1, s2}
    Handlers = {1, 2}
    Messages = {1, 2, 3, 4}
    Workers = {w1, w2}
    Results = {r1, r2}
    Build <- TwoBuilds
    Poison = {s2}
    MaxAttempts = 2
    MaxReceives = 2
    MaxFaults = 2
    AgentMayCrash = TRUE
    MessagesExpire = TRUE
SPECIFICATION FairSpec
CHECK_DEADLOCK FALSE
INVARIANTS
    NoStrandedUpload
    OneResult
PROPERTIES
    ResultsAreFinal
    NotRequeuedOnceProcessed
    PackagesSettle
