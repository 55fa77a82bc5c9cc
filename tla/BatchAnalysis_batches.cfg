SPECIFICATION Spec
CONSTANTS
    Items = {i1, i2}
    Retries = {r1}
    MaxFailures = 1
    MaxRestarts = 1
    None = None
INVARIANTS
    
    StoppedForGood
    EndsAsAWhole

    
CHECK_DEADLOCK FALSE
