\* The merge of one job and an extraction; three processes at a time, some of
\* which are dead but still referred to.
CONSTANTS
    Workers = {m, x}
    Merger = m
    MaxHandles = 3
SPECIFICATION Spec
INVARIANTS
    NothingIsOrphaned
    GoneWhenTold
PROPERTIES
    EverybodyReturns
CHECK_DEADLOCK FALSE
