CONSTANTS
    Cap = 5
    Lens = {2, 3}
    Req = 4
    MaxSec = 5
    TryCnt = 1
    ResetsMeetReads = FALSE
SPECIFICATION Spec
CHECK_DEADLOCK FALSE
INVARIANTS TypeOK WholeSections
PROPERTY CallsReturn
