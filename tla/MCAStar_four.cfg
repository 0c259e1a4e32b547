CONSTANTS
    SizeX = 3
    SizeY = 3
    Policy = "four"
    QueueCapacity = 1024
    CacheCapacity = 2048
    DFuns <- MCDFuns
    Maps <- MCMaps
SPECIFICATION Spec
INVARIANT NodeLifetime CacheIsSortedSet FrontierBounded SolutionIsLegalPath FrontierNotBelowExpanded SolutionMapShowsPath
PROPERTY RefinesPathSearch
CHECK_DEADLOCK FALSE
