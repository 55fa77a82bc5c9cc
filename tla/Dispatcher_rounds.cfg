\* Three jobs of two users; capacity for three, two workers at most.
CONSTANTS
    a = a
    b = b
    c = c
    u1 = u1
    u2 = u2
    Nobody = Nobody
    NoJob = NoJob
    Jobs = {a, b, c}
    Users = {u1, u2}
    Owner <- OwnerOfThree
    MaxBudget = 3
    MaxWorkers = 2
SPECIFICATION FairSpec
INVARIANTS
    TasksMatchClaims
    CapacityKept
PROPERTIES
    NobodyStarves
