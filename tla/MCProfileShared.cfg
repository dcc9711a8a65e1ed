SPECIFICATION MCSpec
CONSTANTS
    ann = ann
    bob = bob
    sa = sa
    sb = sb
    ea = ea
    eb = eb
    new = new
    Users = {ann, bob}
    Sessions = {sa, sb}
    Keys = {ea, eb, new}
    SessionOf <- MCSessionOf
    FirstEmail <- MCFirstEmail
    Editors = {d1}
    Handlers = {h1, h2}
    Codes = {c1, c2}
    Faults <- MCFaults
    SerialFaults <- MCSerialFaults
    OTPTTL = 1
    ChallengeTTL = 2
    ResendCooldown = 1
    MaxVerifyAttempts = 2
    MaxTime = 2
    None = None
    Wrong = Wrong
VIEW MCView
SYMMETRY MCUserSymmetry
CHECK_DEADLOCK FALSE
INVARIANT AddressesConfirmed LatestCodeUsable
PROPERTY AddressSpec OneTimeUse
