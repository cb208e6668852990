CONSTANTS
    Devices = {d1}
    Sources = {a}
    Kinds = {"Traffic", "Lease", "ConfirmationFailure", "SensorImpaired", "SensorRecovered"}
    Validities = {1}
    online_window = 1
    correction_window = 2
    retention = 2
    future_skew = 1
    confirmation_window = 1
    join_confirmations = 1
    departure_confirmations = 1
    max_devices = 1
    max_evidence = 3
    max_history = 2
    MaxTime = 3
    MaxInputs = 4
SPECIFICATION Spec
INVARIANTS TypeOK ControlsByEventTime ReplayIsComplete CheckpointRestores
PROPERTIES NoEarlyDeparture
CHECK_DEADLOCK FALSE
