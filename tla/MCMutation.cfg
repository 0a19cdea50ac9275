SPECIFICATION FairSpec
CONSTANTS
    m1 = m1  m2 = m2  m3 = m3  m4 = m4  k1 = k1
    Attempts = {m1, m2, m3, m4}
    Keys = {k1}
    KeyOf <- MCKeyOf
    PayloadOf <- MCPayloadOf
    MaxAttempts = 3
    MaxFaults = 3
    Nobody = Nobody
INVARIANTS
    OneRunsPerKey
    ReplayIsFaithful
    UndisturbedSentOnce
PROPERTIES
    SuccessIsFinal
    KeyIsReleased
CHECK_DEADLOCK FALSE
