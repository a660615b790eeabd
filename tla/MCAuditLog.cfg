SPECIFICATION AuditSpec
CONSTANTS
    Data <- MCData
    Bytes <- MCBytes
    MaxEvents = 4
INVARIANTS
    TamperEvident
    BlamesFirstEdited
    HashCommitsToPast
