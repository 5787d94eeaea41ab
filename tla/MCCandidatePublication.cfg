\* Two callers, owners and envelopes; three jobs; one reader with pages of two and
\* batches of one; clock values up to one unit old; one review that cannot be read.
CONSTANTS
    c1 = c1
    c2 = c2
    o1 = o1
    o2 = o2
    e1 = e1
    e2 = e2
    r1 = r1
    None = None
    Jobs = {1, 2, 3}
    Evidence = {e1, e2}
    Owners = {o1, o2}
    Callers = {c1, c2}
    Readers = {r1}
    Leases = {2}
    Limit = 2
    Batch = 1
    MaxEpoch = 3
    MaxDelay = 1
    MaxClock = 5
    MaxHidden = 1
SPECIFICATION MCSpec
INVARIANTS
    PublicationSound
    ListingSound
PROPERTIES
    PublicationStable
    ListingEnds
