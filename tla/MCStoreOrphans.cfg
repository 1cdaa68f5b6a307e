\* A record committed between the SELECT and the DELETE of a delete by TR code loses its parsed row and keeps its raw row.
SPECIFICATION Spec
CONSTANTS
    A = A
    B = B
    a = a
    b = b
    e = e
    x = x
    s1 = s1
    s2 = s2
    Codes <- MCCodes
    Payloads <- MCAb
    TrOf <- MCTrOf
    Form <- MCForm
    Registries <- MCRegistries
    Sessions <- MCTwo
    Admins <- MCOne
    NoSession = NoSession
    NoCode = NoCode
    MaxBatch = 2
    MaxUploads = 2
    MaxVariables = 2
INVARIANT
    ParsedRawHasRow
