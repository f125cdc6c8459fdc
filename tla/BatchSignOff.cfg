SPECIFICATION Spec
CONSTANTS
    Task = {t1, t2}
    MaxRetries = 2
    Verdict = {"NEEDS_REVIEW"}
PROPERTIES
    SignOffIsKept
CHECK_DEADLOCK FALSE
