SPECIFICATION Spec
CONSTANTS
    p1 = p1
    p2 = p2
    i1 = i1
    i2 = i2
    Procs = {p1}
    Instances = {i1}
    Home <- OneHome
    Owner <- OneOwner
    CanRun <- RejectOps
    Manifests = {m1, m2, m3}
    None = None
    Foreign = Foreign
    Free = Free
    Differ = TRUE
    OutOfBand = FALSE
    LeaseOutlives = TRUE
    AutoModes = {TRUE}
    GateModes = {TRUE, FALSE}
    NSteps = 1
    MaxRows = 3
    MaxFaults = 0
INVARIANTS
    OnlyClearedRuns
SYMMETRY Perms
