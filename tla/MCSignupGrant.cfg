SPECIFICATION Spec
CONSTANTS
    Keys = {e1, root}
    AdminEmails = {root}
    Handlers = {h1}
    Forms = {f1}
    Codes = {c1}
    Faults <- MCKeycloakFaults
    SerialFaults <- MCKeycloakFaults
    OTPTTL = 1
    ChallengeTTL = 2
    ResendCooldown = 1
    MaxVerifyAttempts = 1
    MaxTime = 0
    None = None
    Wrong = Wrong
SYMMETRY MCSymmetry
CHECK_DEADLOCK FALSE
INVARIANT AccountComplete
