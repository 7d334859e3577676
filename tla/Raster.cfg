SPECIFICATION Spec
CONSTANTS
    Scripts <- MCScripts
    Xf <- MCXf
    Width = 8
    Height = 4
    BandMinRows = 1
    MaxBands = 0
    Workers = 2
    NearW = 1
    IwScale = 12
    FarDepth = 12
    Textures <- MCTextures
    Mem0 <- MCMem0
    Junk = Junk
INVARIANTS
    PictureExact
    CopiesDecode
CHECK_DEADLOCK FALSE
