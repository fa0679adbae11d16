CONSTANTS
    Cap = 2
    MaxLines = 1
SPECIFICATION TtxSpec
PROPERTY StopReturns
