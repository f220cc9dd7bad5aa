SPECIFICATION Spec
CHECK_DEADLOCK FALSE
CONSTANTS
    Types <- MCTypes
    TopLevel = "Ready"
    Reasons <- MCReasons
    Produced <- MCProduced
    MaxAdds = 0
    MaxTime = 1
    Keys = {}
    Owners = {}
    Resync = 1
    Lease = 2
    MaxClock = 1
    Nil = Nil
    Cases <- OptionCases
    MaxRounds = 2
    Trees = {}
    Unreadable = Unreadable
    Callers = {c1, c2}
    MaxTTL = 4
    MaxJitter = 1
    MaxLatency = 1
    MaxUid = 2
    Users = {u1}
    MaxChanges = 2
INVARIANTS
    OptionErrorIsHandled
