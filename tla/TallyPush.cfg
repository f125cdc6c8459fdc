SPECIFICATION PushSpec
CONSTANTS
    Task = {t1}
    MaxRetries = 1
    MaxPushes = 2
    Verdict = {"ERP_READY", "BLOCKED"}
INVARIANTS
    LogAccountsForVouchers
PROPERTIES
    ImplementsLedger
    VoucherIsApproved
CHECK_DEADLOCK FALSE
