SPECIFICATION Spec
CONSTANTS
    other = other
    root = root
    admin = admin
    Users = {u1}
    Emails = {other, root}
    Perms = {admin}
    Privileged = {admin}
    AdminEmails = {root}
    FirstEmail <- MCFirstEmail
    FirstRoles <- MCFirstRoles
    Handlers = {h1, h2}
    Sessions = {s1, s2}
    Tokens = {t1}
    States = {o1}
    Faults <- MCFaults
    None = None
SYMMETRY MCSymmetry
INVARIANT PrivilegeEarned AddressesHeld OneSessionPerState EndedForGood
