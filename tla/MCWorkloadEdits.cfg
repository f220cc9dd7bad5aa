SPECIFICATION Spec
CONSTANTS
    Names <- MCNames
    Templates <- MCTemplates
    Objects <- MCObjects
    Selections <- EditsSelections
    Contents <- GoodContents
    FirstContents <- MCFirstContents
    PassThrough = PassThrough
    NoMatch = NoMatch
    None = None
    MaxGen = 1
    MaxOut = 1
    EditKinds = {"selection", "template"}
    MaxEdits = 2
    MaxFaults = 0
    MaxTroubles = 2
INVARIANTS
    SettledIsTracked
    StampedHasTemplate
    NoUnexplainedOrphan
PROPERTIES
    DeletesOnlyReplaced
