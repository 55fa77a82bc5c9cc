\* Liveness: two recipients and the administrator's sweep, no merge, no restart.
CONSTANTS
    r1 = r1
    r2 = r2
    Recipients = {r1, r2}
    Admin = Admin
    NoOne = NoOne
    AdminActs = {"sweep"}
    SeparateAudio = FALSE
    MaxRestarts = 0
SPECIFICATION FairSpec
PROPERTIES
    EverybodyIsSettled
    NothingIsLeftBehind
