CONSTANTS
    MinProcs = 1
    MaxProcsSet = {6, 7}
    InitProcs = 3
    InitUnits = 6
    Many = 6
    MinMem = 2
    MaxMem = 14
    InitMem = 5
    MoveProcs = 1
    MoveUnits = 2
    MemQuant = 2
    Iterations = 2
    Selections <- AllSelections
    MaxJobs = 2
SPECIFICATION Spec
INVARIANTS PassMeansDone RemoveUndoesAdd RequestsAllowed MemoryKept LenientDrift
