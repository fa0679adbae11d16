\* A behaviour ends when no process is left to launch.
CHECK_DEADLOCK FALSE
CONSTANTS
    MaxForks = 3
    MaxCrashes = 2
    QLen = 1
SPECIFICATION Spec
INVARIANTS TypeOK OneServer SourceBeforePlay  NoStaleMail
PROPERTIES CloseReturns CrashedServerIsReplaced
