SPECIFICATION Spec
CONSTANTS
    HeaderSize = 2
    BodySizes = {0, 1, 2}
    Extension <- MCExtension
    Maximum <- MCMaximum
    BodyBudget = 2
    Slice = 1
    MaxFrames = 2
    MaxConns = 2
INVARIANTS StreamInStep DeadlinesKept
PROPERTIES ReceiveEnds
