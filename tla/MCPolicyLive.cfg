SPECIFICATION FairSpec
CONSTANTS
    Coordinators = {"worker", "api"}
    Sweepers = {"worker"}
    Servers = {"api"}
    W6Coordinators = {}
    FilterCapacity = 2
    Protections = {FALSE}
    Risks = {FALSE, TRUE}
    Cohorts = {FALSE}
    MaxInputs = 1
    MaxFaults = 1
PROPERTIES DecisionConverges
