CONSTANTS
    Threads = {a1,a2,a3}
    Pins = {1, 2}
    Cells = {c1,c2,c3}
    None = None
    a1 = a1
    a2 = a2
    a3 = a3
    c1 = c1
    c2 = c2
    c3 = c3
SPECIFICATION Spec
INVARIANTS TypeOK CountIsHolders ListMatchesPins
