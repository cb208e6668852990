SPECIFICATION Spec
CONSTANTS
    Coordinators = {"one"}
    Sweepers = {"one"}
    Servers = {"one"}
    W6Coordinators = {"one"}
    FilterCapacity = 2
    Protections = {FALSE}
    Risks = {FALSE}
    Cohorts = {FALSE}
    MaxInputs = 2
    MaxFaults = 1
INVARIANT FencedMeansRestored
