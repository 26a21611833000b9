SPECIFICATION Spec
CONSTANTS
    Computers = {a, b}
    MaxKeys = 2
    MaxCodes = 3
    MaxEvents = 2
CHECK_DEADLOCK FALSE
INVARIANTS
    SecretsAgree
    SingleUse
PROPERTIES
    InstalledKeyKept
    PairingFinishes
