SPECIFICATION MCSpec
CONSTANTS
    G = G
    H = H
    d0 = d0
    d1 = d1
    d2 = d2
    dash = dash
    Books <- mcBooks
    Statements <- mcStatements
    Char <- mcChar
    AlphaNum <- mcAlpha
    Zero = d0
    Tolerance = 1
    MinOverlap = 2
    MH = MH
    HR = HR
    CR = CR
    gM = gM
    gH = gH
    gS = gS
    h1 = h1
    h2 = h2
    s1 = s1
    s2 = s2
    NoNumber = NoNumber
    NoGstin = NoGstin
    NoHsn = NoHsn
    NoState = NoState
    FullGstins = {gM, gH}
    StateOf <- mcState
    CreditPrefix = CR
    Registration <- mcRegistration
    EnvState = s2
    GstRates = {0, 500, 1200, 1800, 2800}
    ReconTolerance = 1
    MaxStored = 0
    StoredSales <- mcStored
    Sheets <- mcSheets
    PdfSets <- mcPdfSets
    kA = kA
    SalesKeys = {kS}
    Gstr2bKeys = {kA}
    kS = kS
    Unusable = {"DOWNLOAD_FAILED", "GSTIN_NOT_FOUND", "malformed"}
    Drops <- mcDrops
    MaxReviews = 3
    MaxEdits = 1
    Writers = {w1, w2}
    NoWriter = NoWriter
    Calls = 2
    PollLimit = 2
    Absent = Absent
    B2clLimit = 20000
    Papers <- mcPapers
    Answers <- mcAnswers
    Findings <- mcFindings
    Documents = {docA, docB}
    Threshold = 2
    MaxRetries = 3
    fYear = fYear
    fMonth = fMonth
    fNote = fNote
    fWork = fWork
    fOther = fOther
    xPdf = xPdf
    xZip = xZip
    xSheet = xSheet
    Trees <- mcTrees
    Month = fMonth
    Folders = {fYear, fMonth, fNote, fWork, fOther}
    Named <- mcNamed
    Extension <- mcExtension
    MaxMoves = 2
    tA = tA
    tB = tB
    rA = rA
    Tenants = {tA, tB}
    NoRoot = NoRoot
    Configs <- mcConfigs
    Crons = {"valid", "fields", "refused"}
    FiscalStart = 4
    Pattern <- mcPattern
    Calendar = {2, 3, 14}
    MaxFolders = 2
    MaxChanges = 2
CHECK_DEADLOCK FALSE
INVARIANTS
    ClaimsAreExclusive
    NothingUnaccounted
    SheetIsFiled
    SectionsCarryTheTotal
    CleanReviewIsComplete
    PileUpsAreManual
    RowsAreKept
    TemplateIsReady
    RowsAddUp
    VouchersBalance
    OutageIsBounded
    WalkFindsEveryFile
    ConfigIsScheduled
    FiledUnderItsMonth
PROPERTIES
    CallsReturn
