SPECIFICATION FairSpec
CONSTANTS
    Names <- MCNames
    Templates <- MCTemplates
    Objects <- MCObjects
    Selections <- ChainSelection
    Contents <- GoodContents
    FirstContents <- MCFirstContents
    PassThrough = PassThrough
    NoMatch = NoMatch
    None = None
    MaxGen = 2
    MaxOut = 2
    EditKinds = {"owner", "deletion", "template", "account", "object", "output"}
    MaxEdits = 1
    MaxFaults = 1
    MaxTroubles = 1
CHECK_DEADLOCK FALSE
PROPERTIES
    Converges
