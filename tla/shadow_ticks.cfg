\* Sampling module blocks behind a delay that inverts itself.
CONSTANTS
    Net = "ticks"
    Ticks = {"topological", "document"}
    Operated = {"y"}
    Null = Null
    Block <- NetBlock
    Slot <- NetSlot
    Value <- NetValue
    Memory <- NetMemory
    Wire <- NetWire
    Gate <- NetGate
    Compute <- NetCompute
    Remember <- NetRemember
    Pure <- NetPure
    Reactive <- NetReactive
    Writable <- NetWritable
    Point <- NetPoint
    Resampling <- NetResampling
    Period <- NetPeriod
    SavedInput <- NetInput
    SavedOutput <- NetOutput
    FirstMemory <- NetFirst
    Policy <- NetPolicy
    SampleOrder <- NetSampleOrder
    LoopLimit = 6
    Stride = {1, 2, 3}
    Horizon = 6
SPECIFICATION Spec
INVARIANTS
    TicksKeepTime
    OverridesEnd
PROPERTIES
    SamplesSettled
