SPECIFICATION AuthInstalledSpec
CONSTANTS
    Auths = {a1}
    Requests = {r1, r2}
    Suspicious = {r1, r2}
    TTL = 1
    Grace = 1
    Window = 1
    BurstMin = 2
    Hold = 2
    Recorder = "installed"
    RecordFails = FALSE
    Operator = FALSE
INVARIANT AnsweredIsRecorded
CHECK_DEADLOCK FALSE
