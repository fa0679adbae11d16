CHECK_DEADLOCK FALSE
CONSTANTS
    MaxForks = 2
    MaxCrashes = 0
    QLen = 1
SPECIFICATION Spec
PROPERTIES AnsweredOpenSucceeds
