\* Two sessions save the same code through one temporary file: the directory holds a text nobody saved.
SPECIFICATION Spec
CONSTANTS
    s1 = s1
    s2 = s2
    short = short
    long = long
    Codes <- MCOneCode
    Texts <- MCTexts
    Size <- MCSize
    Empty = Empty
    Garbled = Garbled
    Absent = Absent
    Unset = Unset
    Nobody = Nobody
    Inodes = {1, 2, 3}
    Sessions <- MCTwo
    MaxCrashes = 0
    MayEdit <- MCAnyCode
PROPERTY
    FolderSpec
