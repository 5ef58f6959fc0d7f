SPECIFICATION Spec
CONSTANTS
    Callers = {loop, hook}
    Loop = loop
    Repo = repo
    Paths = {1, 2}
    Refs = {r1, r2}
    None = None
    Worlds <- HoldsAndReaper
    DependsOn <- Independent
    ReapOnDelete = {r1, r2}
    After = 2
    HoldFor = 2
    loop = loop
    hook = hook
    r1 = r1
    r2 = r2
INVARIANTS HeldWasRefused SerialTicks
PROPERTIES ReapsAfterCleanAbsence ReapsUndeclared
