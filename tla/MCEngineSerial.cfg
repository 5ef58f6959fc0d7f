SPECIFICATION Spec
CONSTANTS
    p1 = p1
    p2 = p2
    i1 = i1
    i2 = i2
    Procs = {p1}
    Instances = {i1}
    Home <- OneHome
    Owner <- OneOwner
    CanRun <- EveryOp
    Manifests = {m1, m2}
    None = None
    Foreign = Foreign
    Free = Free
    Differ = TRUE
    OutOfBand = FALSE
    LeaseOutlives = TRUE
    AutoModes = {TRUE, FALSE}
    GateModes = {TRUE, FALSE}
    NSteps = 1
    MaxRows = 2
    MaxFaults = 1
INVARIANTS
    TypeOK
    AtMostOneCanary
PROPERTIES
    PhasesFollowLifecycle
    BlockedIsSticky
SYMMETRY Perms
VIEW NoHistory
