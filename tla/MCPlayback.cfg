SPECIFICATION Spec
CONSTANTS
    Direct = FALSE
    Sysfs <- MCSysfs
    RecoverAttempts = 2
    Grace = 1
    Stall = 1
    Faults = 1
INVARIANTS SessionSound
PROPERTIES SessionsEnd
