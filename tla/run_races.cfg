\* Three handlers race on one run over an early and a late lane.
CONSTANTS
    h1 = h1
    h2 = h2
    h3 = h3
    boptest = boptest
    shadow = shadow
    None = None
    Handler = {h1, h2, h3}
    Lane = {boptest, shadow}
    LateLane = {shadow}
SPECIFICATION Spec
SYMMETRY Symmetry
INVARIANTS
    RacesKeepIntegrity
    OnlyPassingReportsReviewed
    DecisionConsistent
PROPERTIES
    RecordedReportsStand
