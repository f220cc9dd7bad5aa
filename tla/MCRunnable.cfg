SPECIFICATION Spec
CHECK_DEADLOCK FALSE
CONSTANTS
    RunTemplates <- MCRunTemplates
    KeyOf <- MCKeyOf
    Specs <- MCSpecs
    FirstSpec <- MCFirstSpec
    Contents <- MCContents
    FirstContent <- MCFirstContent
    Selectable = {1, 2}
    FirstSelected = 1
    None = None
    MaxSuccessfulRuns = 1
    MaxFailedRuns = 1
    Scenarios = {{"input", "fault"}, {"switch"}, {"run"}, {"template"}, {"account"}, {"selected"}, {"deletion"}}
    MaxRuns = 6
INVARIANTS
    TypeOK
    RunsAreExplained
    SettledIsCurrent
    OutputsAreLatest
    RetentionHolds
PROPERTIES
    KeepsLedger
    Converges
