SPECIFICATION ConditionsSpec
CONSTANTS
    Types <- MCTypes
    TopLevel = "Ready"
    Reasons <- MCReasons
    Produced <- MCProduced
    MaxAdds = 2
    MaxTime = 1
CHECK_DEADLOCK TRUE
INVARIANT ChangedMeansChanged
