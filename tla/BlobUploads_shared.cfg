SPECIFICATION FairSpec
CONSTANTS
    u1 = u1  u2 = u2  u3 = u3
    p1 = p1  p2 = p2
    Repos = {r1, r2}
    UUIDs = {u1, u2}
    Procs = {p1, p2}
    Bytes = {"a", "b", "0"}
    Zero = "0"
    Digests <- MCOneDigest
    Hash <- MCHash
    Bodies <- MCBodies
    None = None
    Overlap = FALSE
    MaxLen = 1
    MaxCrashes = 0
  
PROPERTIES   LinksSettle
CHECK_DEADLOCK FALSE
