SPECIFICATION FairSpec
CONSTANTS
    Callers = {loop}
    Loop = loop
    Repo = repo
    Paths = {1}
    Refs = {r1}
    None = None
    Worlds <- Refused
    DependsOn <- Alone
    ReapOnDelete = {}
    After = 2
    HoldFor = 2
    loop = loop
    hook = hook
    r1 = r1
    r2 = r2
PROPERTY HoldExpires
