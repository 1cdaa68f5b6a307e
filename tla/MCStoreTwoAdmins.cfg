\* Two sessions delete: one deletes by the raw ids it selected before the other emptied the tables, and a record of another code has such an id.
SPECIFICATION Spec
CONSTANTS
    A = A
    B = B
    a = a
    b = b
    e = e
    x = x
    s1 = s1
    s2 = s2
    Codes <- MCCodes
    Payloads <- MCAb
    TrOf <- MCTrOf
    Form <- MCForm
    Registries <- MCRegistries
    Sessions <- MCTwo
    Admins <- MCTwo
    NoSession = NoSession
    NoCode = NoCode
    MaxBatch = 2
    MaxUploads = 2
    MaxVariables = 1
PROPERTY
    PurgeSparesOtherCodes
