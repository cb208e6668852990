SPECIFICATION Spec
CONSTANTS
    SeversManagementPath = TRUE
    HasFallbackDns = TRUE
    PingCount = 2
    MtuProbeSizes <- MCSizes
    Resolvers = 2
    Budgets = {6, 13, 64}
INVARIANTS
    TypeOK
    BudgetKept
    OnlyOnSoundGround
    EverySkipIsExplained
    RepairIsMeasurable
    SymptomShowsFault
CHECK_DEADLOCK FALSE
