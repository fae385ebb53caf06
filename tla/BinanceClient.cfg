SPECIFICATION Spec
CONSTANTS
    s1 = s1
    s2 = s2
    s3 = s3
    Stores = {s1, s2, s3}
CHECK_DEADLOCK FALSE
INVARIANT OneOwner
PROPERTY GivesUpInWindow
