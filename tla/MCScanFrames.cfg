\* Every log of up to MaxSize cells.
SPECIFICATION FairSpec
CONSTANTS
    HeaderLength = 2
    MinBody = 1
    Lengths <- MCLengths
    Text = Text
    Malformed = Malformed
    MaxSize = 5
INVARIANTS
    IInv
    FramesDisjoint
    NoneMissed
    MissedOnlyBehindOverrun
PROPERTY
    ScanEnds
