SPECIFICATION Spec
CONSTANTS
    Targets = {a, b}
    Ceilings = {c}
    Bad = Bad
    Procs = {p, q}
    TermTicks = 1
    KillTicks = 0
    ReadyTicks = 1
    Timeout = 3
    ShellRuns = 1
    None = None
INVARIANTS ReceiverManaged
PROPERTIES StopMeansStopped CommandsReturn
