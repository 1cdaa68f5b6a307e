\* Uploads of records while another session edits a schema.
SPECIFICATION FairPageSpec
CONSTANTS
    PeekLength = 2
    CodeOffset = 1
    CodeLength = 1
    NoRecord = 99
    RecordLengths = {0, 3, 4, 6, 7, 8, 9, 10, 13}
    MaxPayload = 20
    Required = {"seq", "date", "mark"}
    Marker = 75
    NoUpload = NoUpload
    MaxEdits = 1
    Folders <- MCFolders
    Uploads <- MCUploads
INVARIANTS
    PageTypeOK
    SlicerIInv
    WholeStreamCut
    LayoutTiles
    ParsedAsCut
    PositionalValue
    ReadBack
PROPERTY
    ExtractEnds
