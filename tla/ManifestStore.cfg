SPECIFICATION FairSpec
CONSTANTS
    img = img  sig = sig
    p1 = p1  p2 = p2
    Repos = {r1}
    Tags = {t1}
    Manifests = {img, sig}
    Subject <- MCSubject
    Procs = {p1, p2}
    None = None
    Torn = Torn
    Spoilt = Spoilt
INVARIANTS TypeOK  ReferrerListed  TornIsBeingFilled
PROPERTIES TagsSettle 
CHECK_DEADLOCK FALSE
