SPECIFICATION Spec
CONSTANTS
    p1 = p1
    p2 = p2
    i1 = i1
    i2 = i2
    Procs = {p1}
    Instances = {i1}
    Home <- OneHome
    Owner <- OneOwner
    CanRun <- LoopOps
    Manifests = {m1, m2}
    None = None
    Foreign = Foreign
    Free = Free
    Differ = TRUE
    OutOfBand = TRUE
    LeaseOutlives = TRUE
    AutoModes = {TRUE}
    GateModes = {FALSE}
    NSteps = 1
    MaxRows = 3
    MaxFaults = 1
INVARIANTS
    PromotedIsLive
    RestoresWhatRan
SYMMETRY Perms
VIEW NoClearance
