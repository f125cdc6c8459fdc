\* A credit note, a zip of two invoices, an invoice that is also in the zip.
CONSTANTS
    note = note
    zip = zip
    inv = inv
    File = {note, zip, inv}
    CreditNote = {note}
    Archive = {zip}
    Doc = {"dn", "da", "db", "di"}
    Present = {zip, inv}
    Inside <- MCInside
    Key = {"kn", "ka", "kb"}
    Identity <- MCIdentity
    NoKey = "nokey"
    Rank <- MCRank
    MaxFiles = 2
    MaxRetries = 1
    MaxVersion = 2
    MaxEvents = 2
SPECIFICATION Spec
INVARIANTS
    CompletedFileWasRead
    OriginalIsKept
    OneVerdictPerKey
    BudgetIsKept
    JobRowsAreSettled
PROPERTIES
    ProcessedFileIsLeftAlone
    SyncEnds
