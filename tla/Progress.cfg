CONSTANTS
    Keys = {k1, k2, k3}
    Callers = {c1, c2}
    k1 = k1
    k2 = k2
    c1 = c1
    b1 = b1
    b2 = b2
    q1 = q1
    q3 = q3
    None = None
SPECIFICATION Spec
INVARIANT AcquisitionHolds
PROPERTIES AllEnd  AcceptedIssuanceCompletes GenerationEnds WaitEnds EventuallyProved
CHECK_DEADLOCK FALSE
