SPECIFICATION Spec
CHECK_DEADLOCK FALSE
CONSTANTS
    Types <- MCTypes
    TopLevel = "Ready"
    Reasons <- MCReasons
    Produced <- MCProduced
    MaxAdds = 2
    MaxTime = 1
    Keys = {tmpl, sa}
    Owners = {w1, w2}
    Resync = 1
    Lease = 2
    MaxClock = 4
    Nil = Nil
    Cases <- MCCases
    MaxRounds = 2
    Trees <- MCTrees
    Unreadable = Unreadable
    Callers = {w1, w2}
    MaxTTL = 4
    MaxJitter = 1
    MaxLatency = 1
    MaxUid = 2
    Users = {u1}
    MaxChanges = 2
SYMMETRY Symmetric
INVARIANTS
    ConditionsTypes
    TopLevelIsWorst
    TopLevelIsExplained
    SkippedWriteLosesNothing
    TransitionTimeIsKept
    NoSpuriousChange
    TrackerTypes
    NoEmptySets
    ClearedLeavesNoTrace
    DependenciesStayTracked
    SelectsMostSpecific
    AdmittedIsRealizable
    ReportIsHonest
    TokenIsUsable
    WakesUsers
    SuiteIsHonest
PROPERTY LookupIsExact
