\* A glitch clocks a latch; beside it a loop that may oscillate.
CONSTANTS
    Net = "gates"
    Ticks = {"topological"}
    Operated = {"y"}
    Null = Null
    Block <- NetBlock
    Slot <- NetSlot
    Value <- NetValue
    Memory <- NetMemory
    Wire <- NetWire
    Gate <- NetGate
    Compute <- NetCompute
    Remember <- NetRemember
    Pure <- NetPure
    Reactive <- NetReactive
    Writable <- NetWritable
    Point <- NetPoint
    Resampling <- NetResampling
    Period <- NetPeriod
    SavedInput <- NetInput
    SavedOutput <- NetOutput
    FirstMemory <- NetFirst
    Policy <- NetPolicy
    SampleOrder <- NetSampleOrder
    LoopLimit = 6
    Stride = {1}
    Horizon = 2
SPECIFICATION FairSpec
CHECK_DEADLOCK FALSE
INVARIANTS
    RestIsFixpoint
PROPERTY Settles
