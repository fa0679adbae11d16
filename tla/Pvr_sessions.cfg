SPECIFICATION Spec
CONSTANTS
    Recorders = {r1}
    Players = {p1}
    Tasks = {t1, t2}
    MaxOpens = 2
    Modes = {"stop", "replay"}
    QueueCap = 1
    App = app
    None = none
INVARIANTS TypeOK Registered EventReachesOwner ReplayIsAlone
