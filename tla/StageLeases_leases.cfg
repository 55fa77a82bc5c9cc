\* Two links under analysis, one item of a batch, limits up to two.
CONSTANTS
    b1 = b1
    p1 = p1
    p2 = p2
    Prompt = {p1, p2}
    Batch = {b1}
    MaxRaw = 2
SPECIFICATION FairSpec
INVARIANTS
    ActiveIsExact
PROPERTIES
    CeilingBindsAdmission
    StageNeverStalls
