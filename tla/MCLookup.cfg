\* A viewer while a session stores and deletes records: what its page shows is one record, and the one asked for.
SPECIFICATION PagesSpec
CONSTANTS
    A = A
    B = B
    a = a
    b = b
    e = e
    s1 = s1
    v1 = v1
    Codes <- MCCodes
    Payloads <- MCAbe
    TrOf <- MCTrOf
    Form <- MCForm
    Registries <- MCRegistries
    Sessions <- MCOne
    Admins <- MCOne
    Viewers <- MCViewers
    NoSession = NoSession
    NoCode = NoCode
    NoRow = NoRow
    MaxBatch = 1
    MaxUploads = 4
    MaxVariables = 2
    Limit = 2
INVARIANTS
    ViewerTypeOK
    PayloadMatchesBody
    OpenedRecordIsShown
    ParsedNeverExceedRaw
PROPERTY
    StoredRecordsHydrate
