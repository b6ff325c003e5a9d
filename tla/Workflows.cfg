CONSTANTS
    Keys = {k1, k2, k3}
    Callers = {c1, c2}
    c1 = c1
    k1 = k1
    k2 = k2
    q1 = q1
    q2 = q2
    q3 = q3
    None = None
SPECIFICATION Spec
INVARIANTS KeysSurvive StateMatchesKMS AcceptedIsRecoverable NoActivationWhileUnresolved ConfirmationIsFresh RegisteredIsOwn
PROPERTIES ImplementsKeyStore SignedByEligible
CHECK_DEADLOCK FALSE
