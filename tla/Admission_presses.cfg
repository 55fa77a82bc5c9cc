\* One user with two messages, two outputs, two handlers at a time.
CONSTANTS
    u1 = u1
    m1 = m1
    m2 = m2
    o1 = o1
    o2 = o2
    j1 = j1
    j2 = j2
    p1 = p1
    p2 = p2
    Users = {u1}
    Messages = {m1, m2}
    Outputs = {o1, o2}
    Jobs = {j1, j2}
    Presses = {p1, p2}
    Owner <- OneOwner
    Choices = {o1, o2}
    UserLimit = 1
    TotalLimits = {1, 2}
    Attempts = 2
    MaxOwed = 2
    None = None
SPECIFICATION Spec
SYMMETRY Names
INVARIANTS
    OneActivePerOutput
    LimitsKept
    RequestsAreRecorded
