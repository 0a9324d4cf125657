\* Three requests to two processes.
CONSTANTS
    q1 = q1
    q2 = q2
    q3 = q3
    p1 = p1
    p2 = p2
    None = None
    Torn = Torn
    Zero = Zero
    Cut = Cut
    Request = {q1, q2, q3}
    Event = {q1, q2, q3}
    Process = {p1, p2}
SPECIFICATION Spec
CHECK_DEADLOCK FALSE
SYMMETRY Peers
INVARIANTS
    AnsweredRecorded
    ChainHolds
    DamageIsLast
    OneApproval
