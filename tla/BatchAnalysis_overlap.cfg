SPECIFICATION Spec
CONSTANTS
    Items = {i1, i2}
    Retries = {r1}
    MaxFailures = 0
    MaxRestarts = 0
    None = None
INVARIANT AnalysisContinues
CHECK_DEADLOCK FALSE
