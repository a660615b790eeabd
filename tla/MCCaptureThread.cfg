SPECIFICATION CaptureSpec
CONSTANTS
    Monitors = {0, 1, 2}
    Present = {0, 1}
    MaxStarts = 3
CHECK_DEADLOCK FALSE
INVARIANTS
    QuietAfterStop
    FrameOfOneStart
PROPERTIES
    StopReturns
    StartedCaptures
