SPECIFICATION Spec
CONSTANTS
    Sans = {s1, s2}
    MaxKeys = 3
    MaxCerts = 2
    MaxRevokes = 2
INVARIANTS RevocationDurable OneAuthority
CHECK_DEADLOCK FALSE
