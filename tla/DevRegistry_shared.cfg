CONSTANTS
    User = {t1, t2, t3}
    Hdl = {h1, h2, h3}
    Idx = {1, 2}
    Free = Free
    None = None
    FindsFirst = TRUE
    Booted = FALSE

SPECIFICATION RegSpec
INVARIANTS UniqueIndex ListedIsAllocated
