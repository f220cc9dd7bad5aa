SPECIFICATION Spec
CONSTANTS
    Names <- MCNames
    Templates <- MCTemplates
    Objects <- MCObjects
    Selections <- ChainSelection
    Contents <- GoodContents
    FirstContents <- MCFirstContents
    PassThrough = PassThrough
    NoMatch = NoMatch
    None = None
    MaxGen = 1
    MaxOut = 1
    EditKinds = {"account"}
    MaxEdits = 1
    MaxFaults = 0
    MaxTroubles = 1
INVARIANTS
    HandledErrorIsWatched
