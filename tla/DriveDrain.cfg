\* One file a run, nothing fails and nobody edits: is the folder ever drained?
CONSTANTS
    note = note
    zip = zip
    inv = inv
    File = {note, zip, inv}
    CreditNote = {note}
    Archive = {zip}
    Doc = {"dn", "da", "db", "di"}
    Present = {zip, inv}
    Inside <- MCInside
    Key = {"kn", "ka", "kb"}
    Identity <- MCIdentity
    NoKey = "nokey"
    Rank <- MCRank
    MaxFiles = 1
    MaxRetries = 1
    MaxVersion = 2
    MaxEvents = 0
SPECIFICATION Spec
PROPERTY FolderIsDrained
