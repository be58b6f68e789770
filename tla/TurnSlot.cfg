SPECIFICATION Spec
CONSTANTS
    MaxRuns = 2
    Transports = {"print", "exec", "cursor", "opencode", "sdk", "app"}
    Steering = TRUE
    MaxStops = 1
    MaxDeletes = 1
    MaxCrashes = 1
CHECK_DEADLOCK FALSE
PROPERTIES SlotSound StopExact Contract
