SPECIFICATION FairSpec
CONSTANTS
    Names = {1, 2, 3}
    Visible = {1, 3}
    Nested <- MCNested
    Proxied = TRUE
    MaxChanges = 3
INVARIANTS TypeOK WalkComplete
PROPERTIES PagesAdvance WalkEnds
