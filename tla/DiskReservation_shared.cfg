\* Two jobs, capped in size, on a disk too small for both.
CONSTANTS
    j1 = j1
    j2 = j2
    Jobs = {j1, j2}
    Capacity = 6
    Safety = 1
    MaxJobSize = 4
    Requests = {2, 4}
    MinExtension = 2
    MaxExtension = 2
SPECIFICATION Spec
SYMMETRY JobSymmetry
INVARIANTS
    Accounted
PROPERTIES
    NoDoubleBooking
    GrowthHasRoom
