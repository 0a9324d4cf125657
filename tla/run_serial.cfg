\* One handler at a time: what the documentation says then holds.
CONSTANTS
    h1 = h1
    boptest = boptest
    alfalfa = alfalfa
    shadow = shadow
    None = None
    Handler = {h1}
    Lane = {boptest, alfalfa, shadow}
    LateLane = {shadow}
SPECIFICATION Spec
PROPERTIES
    ApprovalStands
    GateSpec
