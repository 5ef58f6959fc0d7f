SPECIFICATION FairSpec
CONSTANTS
    Callers = {loop}
    Loop = loop
    Repo = repo
    Paths = {1, 2}
    Refs = {r1, r2}
    None = None
    Worlds <- Passing
    DependsOn <- FirstNeedsSecond
    ReapOnDelete = {r1, r2}
    After = 1
    HoldFor = 0
    loop = loop
    hook = hook
    r1 = r1
    r2 = r2
PROPERTY Converges
