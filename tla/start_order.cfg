\* Every network of three blocks.
CONSTANTS
    N = 3
    Block <- Blocks
    Document <- InOrder
    Network <- Networks
SPECIFICATION Spec
CHECK_DEADLOCK FALSE
INVARIANTS
    LoopsOnlyIgnored
