\* Both sessions upload, one deletes; every failure. Uploads and deletes are whole, and every session ends.
SPECIFICATION FairSpec
CONSTANTS
    A = A
    B = B
    a = a
    b = b
    e = e
    x = x
    s1 = s1
    s2 = s2
    Codes <- MCCodes
    Payloads <- MCAbx
    TrOf <- MCTrOf
    Form <- MCForm
    Registries <- MCRegistries
    Sessions <- MCTwo
    Admins <- MCOne
    NoSession = NoSession
    NoCode = NoCode
    MaxBatch = 2
    MaxUploads = 2
    MaxVariables = 1
INVARIANTS
    TypeOK
    IInv
    RowsLinked
    NoPendingCommitted
PROPERTIES
    ArchiveSpec
    PurgeSparesOtherCodes
    SessionsEnd
    LockIsReleased
