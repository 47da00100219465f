\* Two runs of one drip or of two, one death anywhere, one stop.
SPECIFICATION Spec
CONSTANTS
    Drips = {d1, d2}
    NumSteps = 2
    Channel <- MCChannel
    ClosedSteps = {}
    Runs = {r1, r2}
    MaxAttempts = 3
    MaxDeaths = 1
    MaxStops = 1
    None = None
SYMMETRY MCSymmetry
INVARIANTS DripsInv StoppedSoon
PROPERTY StopIsFinal
CHECK_DEADLOCK FALSE
