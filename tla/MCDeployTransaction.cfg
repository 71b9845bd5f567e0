SPECIFICATION Spec
CONSTANTS
    Files = {a, b}
    MaxDeploys = 2
INVARIANTS JournalSound
PROPERTY ImplementsAtomicDeploy
