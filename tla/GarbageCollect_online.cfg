SPECIFICATION Spec
CONSTANTS
    img = img  idx = idx  sig = sig  bad = bad
    r1 = r1  r2 = r2  t1 = t1  p1 = p1  p2 = p2  l1 = l1  l2 = l2
    Repos = {r1}
    Nested <- Flat
    Tags = {}
    Manifests = {img, idx}
    Blobs = {l1}
    BlobsOf <- MCBlobsOf
    Children <- MCChildren
    Subject <- MCSubject
    Bad <- MCBad
    Pushers = {p1}
    None = None
    DeleteUntagged = FALSE
    Online = TRUE
    Repush = FALSE
PROPERTIES ReachableKept SteadyNotDeleted
CHECK_DEADLOCK FALSE
