SPECIFICATION Spec
CONSTANTS
    Names <- MCNames
    Templates <- MCTemplates
    Objects <- MCObjects
    Selections <- FaultsSelections
    Contents <- AllContents
    FirstContents <- MCFirstContents
    PassThrough = PassThrough
    NoMatch = NoMatch
    None = None
    MaxGen = 2
    MaxOut = 1
    EditKinds = {"owner", "deletion", "selection", "template", "account", "object"}
    MaxEdits = 1
    MaxFaults = 1
    MaxTroubles = 2
CHECK_DEADLOCK FALSE
INVARIANTS
    TypeOK
    SubmittedMeansApplied
    SettledIsObserved
    DeletedIsForgotten
    NoUnexplainedOrphan
