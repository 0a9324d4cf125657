\* Every job ends: one job, with every disturbance, under FairSpec.
CONSTANTS
    j1 = j1
    r1 = r1
    NoRun = NoRun
    Job = {j1}
    Run = {r1}
    LeaseTerm = 3
    MaxQuiet = 2
SPECIFICATION FairSpec
PROPERTIES
    StartedJobsEnd
    DispatchedJobsEnd
