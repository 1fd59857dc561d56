SPECIFICATION Spec
CONSTANTS
    p1 = p1  p2 = p2
    m1 = m1  m2 = m2
    Repos = {r1, r2}
    Proxied = {r1}
    Tags = {t1}
    Manifests = {m1, m2}
    Blobs = {b1}
    Wrong = Wrong
    Procs = {p1, p2}
    None = None
    Torn = Torn
INVARIANTS TypeOK ContentVerified UpToDate FallsBackWhenDown
SYMMETRY Symmetric
CHECK_DEADLOCK FALSE
