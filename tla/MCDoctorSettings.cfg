SPECIFICATION Spec
CONSTANTS
    SeversManagementPath = TRUE
    HasFallbackDns = FALSE
    Requests = {r1, r2}
    Tokens = {t1, t2}
    NONE = NONE
    Diagnoses <- MCDiagnoses
    Ttl = 1
    Faults = {"audit"}
    MaxInputs = 2
    MaxFaults = 2
    MaxTime = 1
INVARIANTS
    SettingsAudited
CHECK_DEADLOCK FALSE
