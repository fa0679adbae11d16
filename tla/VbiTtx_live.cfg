CONSTANTS
    Cap = 3
    MaxLines = 2
SPECIFICATION TtxSpec
INVARIANTS TtxTypeOK UsersFindTheirObjects
PROPERTY SignalsAreServed
