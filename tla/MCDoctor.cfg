SPECIFICATION Spec
CONSTANTS
    SeversManagementPath = TRUE
    HasFallbackDns = FALSE
    Requests = {r1, r2}
    Tokens = {t1, t2}
    NONE = NONE
    Diagnoses <- MCDiagnoses
    Ttl = 1
    Faults = {"drop", "audit", "transport", "restart"}
    MaxInputs = 4
    MaxFaults = 1
    MaxTime = 1
SYMMETRY Symmetry
INVARIANTS
    TypeOK
    SingleFlight
    ApprovalsMatchLatest
    ConsentIsForThisRun
    TokenSpentOnce
    ReportIsHonest
CHECK_DEADLOCK FALSE
