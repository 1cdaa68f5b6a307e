\* A parse that raises something else than a KrxParserError takes the whole batch with it.
SPECIFICATION Spec
CONSTANTS
    A = A
    B = B
    a = a
    b = b
    e = e
    x = x
    s1 = s1
    s2 = s2
    Codes <- MCCodes
    Payloads <- MCAbex
    TrOf <- MCTrOf
    Form <- MCForm
    Registries <- MCRegistries
    Sessions <- MCOne
    Admins <- MCNone
    NoSession = NoSession
    NoCode = NoCode
    MaxBatch = 2
    MaxUploads = 1
    MaxVariables = 2
PROPERTY
    EveryPayloadStored
