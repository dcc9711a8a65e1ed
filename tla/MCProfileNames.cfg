SPECIFICATION Spec
CONSTANTS
    ann = ann
    bob = bob
    sa = sa
    sb = sb
    ea = ea
    eb = eb
    new = new
    Users = {ann}
    Sessions = {sa}
    Keys = {ea, new}
    SessionOf <- MCSessionOf
    FirstEmail <- MCFirstEmail
    Editors = {d1}
    Handlers = {h1}
    Codes = {c1}
    Faults <- MCNoFaults
    SerialFaults <- MCNoFaults
    OTPTTL = 1
    ChallengeTTL = 2
    ResendCooldown = 0
    MaxVerifyAttempts = 1
    MaxTime = 0
    None = None
    Wrong = Wrong
SYMMETRY MCSymmetry
CHECK_DEADLOCK FALSE
INVARIANT ChangeSticks
