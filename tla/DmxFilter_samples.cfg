CONSTANTS
    Threads = {a1, a2}
    Channels = {c1, c2}
    Sections = {c1}
    Filters = {f1, f2}
    NTok = 2
    Disciplined = TRUE
    MayFail = TRUE
    None = None
    a1 = a1
    a2 = a2
    c1 = c1
    c2 = c2
    f1 = f1
    f2 = f2
SPECIFICATION Spec
INVARIANTS TypeOK FilterOwnsToken CallbackFilterIsThere DataStaysOnItsChannel
PROPERTIES CloseReturns
