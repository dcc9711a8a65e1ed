SPECIFICATION MCSpec
CONSTANTS
    Keys = {u1}
    Handlers = {h1, h2}
    Intents = {i1, i2}
    IdemKeys = {k1, k2}
    Codes = {c1, c2, c3}
    Faults <- MCAllFaults
    SerialFaults <- MCMailFaults
    OTPTTL = 1
    ChallengeTTL = 2
    ResendCooldown = 1
    MaxVerifyAttempts = 2
    MaxTime = 3
    None = None
    Wrong = Wrong
SYMMETRY MCSymmetry
CHECK_DEADLOCK FALSE
INVARIANT TypeOK AtMostOncePerStart ConfirmedAsMailed ReceiptsTellTheTruth LatestCodeUsable ResendSpacing AttemptCap
PROPERTY NotAfterExpiry GateSpec OneTimeUse
