\* One package, one API process, one worker, one failure.
CONSTANTS
    s1 = s1
    s2 = s2
    w1 = w1
    w2 = w2
    r1 = r1
    r2 = r2
    None = None
    Sessions = {s1}
    Handlers = {1}
    Messages = {1}
    Workers = {w1}
    Results = {r1}
    Build <- OneBuild
    Poison = {}
    MaxAttempts = 1
    MaxReceives = 1
    MaxFaults = 1
    AgentMayCrash = FALSE
    MessagesExpire = FALSE
SPECIFICATION FairSpec
CHECK_DEADLOCK FALSE
PROPERTIES
    ConflictContinuesUpload
