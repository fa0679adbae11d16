SPECIFICATION Spec
CONSTANTS
    Devices = {ts, raw}
    Raw = {raw}
    Pids = {p1, p2}
    R2R = r2r
    KlKeys = {k1, k2}
    Words = {w1, w2}
    OtpKeys = {o1}
    Numbers = {n1, n2, n3}
    None = none
SYMMETRY Symmetry
INVARIANTS TypeOK LastAttachIsInForce KeysMatchDriver SerialAccess
