\* Two recipients, the administrator, one shutdown or crash.
CONSTANTS
    r1 = r1
    r2 = r2
    Recipients = {r1, r2}
    Admin = Admin
    NoOne = NoOne
    AdminActs = {"cancel", "sweep"}
    SeparateAudio = TRUE
    MaxRestarts = 1
SPECIFICATION Spec
SYMMETRY RecipientSymmetry
INVARIANTS
    RecordsAreTrue
    ResentOnlyAfterRestart
    RunningJobIsBacked
    NobodyForgotten
PROPERTIES
    CancelledIsFinal
    FilesOutliveTheTask
    OnlyFinishedFilesUnlessInterrupted
    KeepsContract
