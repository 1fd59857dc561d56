SPECIFICATION Spec
CONSTANTS
    r1 = r1  r2 = r2
    t1 = t1  t2 = t2
    ann = ann
    good = good  bad = bad
    s1 = s1  s2 = s2
    None = None
    Broken = "Broken"
    NoRepo = NoRepo
    AllScopes <- MCScopes
    Setups <- DocumentedSetups
    Repos = {r1, r2}
    Tags = {t1, t2}
    Users <- MCUsers
    Passwords = {good, bad}
    Procs = {p1}
    Ticks = 2
    Off = Off
    MaxSecond = 3
    MaxStarts = 2
    MaxTokens = 1
INVARIANT ProxiesServe
CHECK_DEADLOCK FALSE
