SPECIFICATION MCSpec
CONSTANTS
    Keys = {e1, root}
    AdminEmails = {root}
    Handlers = {h1, h2}
    Forms = {f1, f2}
    Codes = {c1, c2, c3}
    Faults <- MCAllFaults
    SerialFaults <- MCSerialFaults
    OTPTTL = 1
    ChallengeTTL = 2
    ResendCooldown = 1
    MaxVerifyAttempts = 2
    MaxTime = 2
    None = None
    Wrong = Wrong
SYMMETRY MCSymmetry
CHECK_DEADLOCK FALSE
INVARIANT AccountAsConfirmed OneSessionPerAccount LatestCodeUsable
PROPERTY CreationSpec
