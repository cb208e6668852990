SPECIFICATION FairSpec
CONSTANTS
    Coordinators = {"one"}
    Sweepers = {"one"}
    Servers = {"one"}
    W6Coordinators = {"one"}
    FilterCapacity = 1
    Protections = {FALSE}
    Risks = {FALSE, TRUE}
    Cohorts = {FALSE}
    MaxInputs = 3
    MaxFaults = 1
INVARIANTS TypeOK RestorePointKept
PROPERTIES UnblockOnlyAfterRestore ApplyIsReserved 
