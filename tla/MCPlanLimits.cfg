\* Four concurrent requests of a free user, who may have one project and one key
\* in each.  There are ids enough for four requests, so no create lacks one.
SPECIFICATION FairSpec
\* The requests come to an end.
CHECK_DEADLOCK FALSE
CONSTANTS
    p1 = p1
    p2 = p2
    p3 = p3
    k1 = k1
    k2 = k2
    none = none
    user = user
    r1 = r1
    r2 = r2
    r3 = r3
    r4 = r4
    Project = {p1, p2, p3}
    Key = {k1, k2}
    None = none
    MaxProjects = 1
    MaxKeys = 1
    Request = {r1, r2, r3, r4}
    User = user
INVARIANTS
    TypeOK
    LimitsHold
PROPERTIES
    KeepsQuota
    CreatesEnd
