SPECIFICATION Spec
CONSTANTS
    Keys = {u1}
    Handlers = {h1, h2}
    Intents = {i1}
    IdemKeys = {k1}
    Codes = {c1, c2}
    Faults <- MCNoFaults
    SerialFaults <- MCNoFaults
    OTPTTL = 2
    ChallengeTTL = 3
    ResendCooldown = 1
    MaxVerifyAttempts = 2
    MaxTime = 2
    None = None
    Wrong = Wrong
SYMMETRY MCSymmetry
CHECK_DEADLOCK FALSE
INVARIANT CodeUsable
