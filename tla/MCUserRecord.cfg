SPECIFICATION RecordSpec
CONSTANTS
    Requests = {r1, r2}
    Emails = {e1, e2}
    Names = {n1, n2}
    MaxAdmin = 2
    Absent = Absent
SYMMETRY MCSymmetry
INVARIANT OnlyOverlapsLose
PROPERTY NoTrapReturns
