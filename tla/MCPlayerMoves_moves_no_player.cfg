CONSTANTS
    SizeX = 3
    SizeY = 3
    Maps <- MCMaps
SPECIFICATION Spec
PROPERTY OnlyThePlayerMoves
