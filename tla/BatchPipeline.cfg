SPECIFICATION Spec
CONSTANTS
    Task = {t1, t2}
    MaxRetries = 1
    Verdict = {"NEEDS_REVIEW"}
INVARIANTS
    CompletedBatchIsSettled
    LinesPerCall
    CountersAccountForCoroutines
    FailedUploadIsNeverRun
    CompletedMessageCountsAllRows
PROPERTIES
    CompletedBatchIsFrozen
    QueuedBatchSettles
CHECK_DEADLOCK FALSE
