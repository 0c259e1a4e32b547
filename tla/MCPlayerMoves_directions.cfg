CONSTANTS
    SizeX = 3
    SizeY = 3
    Maps <- MCMapsWithPlayer
SPECIFICATION Spec
PROPERTY MovesFollowDirectionNames
