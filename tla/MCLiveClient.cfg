CONSTANTS
    NumDevices = 2
    ReplayCapacity = 2
    MaxRestarts = 1
    MaxInputs = 3
    MaxFaults = 2
SPECIFICATION Spec
INVARIANTS TypeOK NeverStranded OneStream BlockIsNeverHidden
PROPERTIES EventuallyCurrent EventuallyCaughtUp
CHECK_DEADLOCK FALSE
