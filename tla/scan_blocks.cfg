\* Every stateful block in both engines.
CONSTANTS
    Kind <- Kinds
    Input <- Inputs
    TicksPerScan = {1, 2}
    Horizon <- Horizons
    Delay = 3
    Threshold = 3
    TrueHold = 3
    FalseHold = 3
    SamplePeriod = 2
    Shift = 1
    Window = 3
    Low = 1
    High = 2
    Trim <- TrimDefinition
    MaxPoints = 64
    Plant <- PlantParameters
SPECIFICATION Spec
CHECK_DEADLOCK FALSE
INVARIANTS
    Agree
    
    InBand
    MeetsDefinition
    ChillerPermitted
PROPERTIES
    DwellTimes
