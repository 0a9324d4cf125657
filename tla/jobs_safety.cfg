\* Two jobs that compete for the slot of one run; the lease bound is tight.
CONSTANTS
    j1 = j1
    j2 = j2
    r1 = r1
    NoRun = NoRun
    Job = {j1, j2}
    Run = {r1}
    LeaseTerm = 2
    MaxQuiet = 2
SPECIFICATION Spec
SYMMETRY Symmetry
INVARIANTS
    TypeOK
    SlotExclusive
    LostOnlyIfDisturbed
    SuccessReportsEvidence
    PhaseAgreesWithVerdict
    OverlapOnlyIfDisturbed
PROPERTIES
    VerdictFinal
    SlotSpec
