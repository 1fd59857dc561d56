SPECIFICATION Spec
CONSTANTS
    u1 = u1  u2 = u2  u3 = u3
    p1 = p1  p2 = p2
    Repos = {r1}
    UUIDs = {u1, u2}
    Procs = {p1, p2}
    Bytes = {"a", "b", "0"}
    Zero = "0"
    Digests <- MCDigests
    Hash <- MCHash
    Bodies <- MCBodies
    None = None
    Overlap = FALSE
    MaxLen = 2
    MaxCrashes = 1
SYMMETRY Symmetric
INVARIANTS TypeOK BlobIntegrity ReadersSeeVerified
PROPERTIES CommittedIsImmutable 
CHECK_DEADLOCK FALSE
