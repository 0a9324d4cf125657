\* Two reviewers of a project of two runs.
CONSTANTS
    h1 = h1
    h2 = h2
    shadow = shadow
    bacnet = bacnet
    Torn = Torn
    None = None
    Size = 2
    Handler = {h1, h2}
    Lane = {shadow, bacnet}
SPECIFICATION Spec
SYMMETRY Handlers
INVARIANTS
    OneReviewer
    BundleIsReviewed
    TornOnlyByDeath
PROPERTY ApprovalFinal
CHECK_DEADLOCK FALSE
