SPECIFICATION Spec
CONSTANTS
    p1 = p1
    p2 = p2
    i1 = i1
    i2 = i2
    Procs = {p1, p2}
    Instances = {i1}
    Home <- SharedHome
    Owner <- OneOwner
    CanRun <- TickRace
    Manifests = {m1, m2}
    None = None
    Foreign = Foreign
    Free = Free
    Differ = TRUE
    OutOfBand = FALSE
    LeaseOutlives = TRUE
    AutoModes = {TRUE}
    GateModes = {FALSE}
    NSteps = 1
    MaxRows = 2
    MaxFaults = 0
PROPERTIES
    RecoversOnlyInterrupted
SYMMETRY Perms
