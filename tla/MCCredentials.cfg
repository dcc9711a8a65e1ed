SPECIFICATION MCSpec
CONSTANTS
    Users = {u1}
    Passwords <- MCPasswords
    FirstPassword <- MCFirstPassword
    Keys <- MCKeys
    Handlers = {h1, h2}
    Codes = {c1, c2}
    Faults <- MCConcurrentFaults
    SerialFaults <- MCSerialFaults
    OTPTTL = 1
    ChallengeTTL = 2
    ResendCooldown = 1
    MaxVerifyAttempts = 2
    MaxTime = 2
    None = None
    Wrong = Wrong
SYMMETRY MCSymmetry
CHECK_DEADLOCK FALSE
INVARIANT PasswordAsConfirmed SessionsEarned CodesUsable
PROPERTY PasswordSpec OneTimeUse
