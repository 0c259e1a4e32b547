CONSTANTS
    SizeX = 3
    SizeY = 3
    Policy = "simple"
    QueueCapacity = 9
    CacheCapacity = 9
    DFuns <- MCDFuns
    Maps <- MCMaps
SPECIFICATION Spec
INVARIANT TypeOK
 
CHECK_DEADLOCK FALSE
