SPECIFICATION Spec
CONSTANTS
    Jobs = {j1}
    MaxFaults = 1
    p1 = p1
    p2 = p2
    p3 = p3
    Presses <- MCPresses
    Limit = Limit
    Mode = Mode
    Values = {1, 2}
    Bootstrap <- MCBootstrap
    LegacyMode = 2
    Profiles = {x1, x2}
    Owners = {owner}
    Guests = {guest}
    None = None
    Failed = Failed
SYMMETRY Symmetric
INVARIANTS
    MemoryAsStored
    PressesDoNoHarm
    MigrationsAreRepeatable
PROPERTIES
    RowsAreKept
CHECK_DEADLOCK FALSE
