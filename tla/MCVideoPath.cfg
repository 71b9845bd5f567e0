SPECIFICATION Spec
CONSTANTS
    ByteCap = 6
    Backlog = 4
    SpareBuffers = 2
    Sizes = {2, 4, 8}
    Durations = {0, 1, 2, 5}
    MaxFrames = 5
    Workers = 3
    SliceHeight = 2
    Videos <- MCVideos
    Ceiling <- MCCeiling
    Displays <- MCDisplays
    MaxDecodes = 2
INVARIANTS WholePicture OutputSafe QueueSound
PROPERTIES SessionReturns
CHECK_DEADLOCK FALSE
