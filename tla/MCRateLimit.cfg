SPECIFICATION RateSpec
CONSTANTS
    Clients = {k1, k2}
    Proxy = proxy
    Handlers = {h1, h2}
    Limit = 2
    Window = 3
    Faults <- MCFaults
    Unset = Unset
INVARIANT BurstBounded
PROPERTY ReopensUnlessLost
