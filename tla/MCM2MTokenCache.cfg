SPECIFICATION Spec
CONSTANTS
    Callers = {a, b}
    Lifetimes <- MCLifetimes
    Skew = 3
    Timeout = 2
    DefaultTTL = 6
    None = None
INVARIANT LongTokensServedLive ShortTokensServedLate
PROPERTY ReplacedOnlyWhenOut EveryCallerReturns
