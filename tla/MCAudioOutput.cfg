SPECIFICATION AudioSpec
CONSTANTS
    Capacity = 12
    Start = 5
    Target = 8
    Low = 3
    Backlog = 2
    ConcealMax = 6
    WriteTimeout = 1
    MediaStall = 2
    Slice = 6
    Durations = {1, 7}
    Holes = {0, 1, 6}
    MaxDrop = 1
    Slips = 2
INVARIANTS RingKept
PROPERTIES LiveSinkKept WorkerFree
