\* A failed verification is overwritten by an approval that was read before it.
CONSTANTS
    h1 = h1
    h2 = h2
    boptest = boptest
    shadow = shadow
    None = None
    Handler = {h1, h2}
    Lane = {boptest, shadow}
    LateLane = {shadow}
SPECIFICATION Spec
PROPERTIES
    FailureBlocksApproval
