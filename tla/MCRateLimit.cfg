SPECIFICATION Spec
CONSTANTS
    r1 = r1  r2 = r2  q1 = q1
    Requests = {r1, r2, q1}
    ActionOf <- MCActionOf
    Limit <- MCLimit
    Minute = 2
    MaxSkew = 1
    MaxTime = 5
    MaxFaults = 1
INVARIANTS
    RateInv
    WindowLimit
    RejectedOnlyOverLimit
SYMMETRY MCSymmetry
CHECK_DEADLOCK FALSE
