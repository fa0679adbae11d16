CONSTANTS
    Size = 4
    Byte = {0, 1}
    Reader = {r}
    Writer = {w}
    Resetter = {r}
    MaxReq = 2
SPECIFICATION Spec
INVARIANTS TypeOK NoOverrun
PROPERTIES RefinesFifo
