CONSTANTS
    SizeX = 3
    SizeY = 3
    Policy = "simple"
    QueueCapacity = 1024
    CacheCapacity = 2048
    DFuns <- MCDFuns
    Maps <- MCMapsWithBoth
SPECIFICATION Spec
INVARIANT SolutionIsLegalPath
CHECK_DEADLOCK FALSE
