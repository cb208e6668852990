SPECIFICATION Spec
CONSTANTS
    Coordinators = {"worker", "api"}
    Sweepers = {"worker"}
    Servers = {"api"}
    W6Coordinators = {"worker"}
    FilterCapacity = 2
    Protections = {FALSE}
    Risks = {FALSE}
    Cohorts = {FALSE}
    MaxInputs = 2
    MaxFaults = 0
PROPERTIES UnblockOnlyAfterRestore ApplyIsReserved
