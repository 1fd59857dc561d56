SPECIFICATION Spec
CONSTANTS
    p1 = p1  p2 = p2
    NameWords <- MCNameWords
    TagWords <- MCTagWords
    Digests = {"sha"}
    UUIDs = {"uuid"}
    Paths <- MCPaths
    Methods = {"GET", "HEAD", "POST", "PUT", "PATCH", "DELETE"}
    UI = TRUE
    Procs = {p1, p2}
    None = None
INVARIANTS TypeOK AnsweredOnce AllowIsHonest
SYMMETRY Symmetric
