\* One target with up to two copies and a hold, two requests in flight at once.
CONSTANTS
    t1 = t1
    c1 = c1
    c2 = c2
    s1 = s1
    k1 = k1
    k2 = k2
    k3 = k3
    k4 = k4
    d1 = d1
    None = None
    Targets = {t1}
    Copies = {c1, c2}
    Stewards = {s1}
    Keys = {k1, k2, k3, k4}
    Details = {d1}
    RetentionPeriod = 2
    MaxDelay = 1
    MaxClock = 3
    MaxPending = 2
SPECIFICATION Spec
SYMMETRY Symmetry
INVARIANTS
    TablesAgree
    EvidenceSound
    RowsSound
PROPERTIES
    HoldFreezesCopies
