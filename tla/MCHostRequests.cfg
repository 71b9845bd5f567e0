SPECIFICATION Spec
CONSTANTS
    Requests = 2
    MaxAge = 1
    Cooldown = 2
    Patience = 1
    Failures = 1
INVARIANTS RebootHonest BundleConsistent
PROPERTIES RebootsSpaced ScheduledReboots
