SPECIFICATION Spec
CONSTANTS
    Replicas = {r1, r2}
    LastFile = 2
    MaxSecret = 2
    MaxFaults = 3
CHECK_DEADLOCK FALSE
INVARIANT TypeOK AppliedOnce SecretsAgree
PROPERTY UpgradeSpec ComesUp
