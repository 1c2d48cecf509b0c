SPECIFICATION MCSpec
CONSTANTS
    Top = Top
    Child = Child
    None = None
    MaxVerbs = 2
    MaxLoads = 2
    MaxStirs = 1
    Quiet = 1
    Timeout = 2
    Openers = {o1, o2}
    LaunchAttempts = 2
    MaxLaunches = 4
    Nobody = Nobody
CHECK_DEADLOCK FALSE
INVARIANTS
    EffectsAreGrounded
    SettledMeansQuiet
    ClosedMeansStopped
PROPERTIES
    VerbsEnd
