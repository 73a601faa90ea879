\* Two concurrent requests, one key with two providers, a lifetime of two ticks.
SPECIFICATION Spec
CONSTANTS
    k1 = k1
    p1 = p1
    openai = openai
    google = google
    s1 = s1
    none = none
    c1 = c1
    c2 = c2
    Key = {k1}
    Project = {p1}
    ProjectOf <- OneProject
    Provider = {openai, google}
    Secret = {s1}
    NoSecret = none
    Conn = {c1, c2}
    TTL = 2
    MaxDelay = 1
    MaxTime = 4
SYMMETRY Symmetry
INVARIANTS
    TypeOK
    ServedOwnCredential
PROPERTIES
    StaleUseBounded
