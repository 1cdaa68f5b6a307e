\* Two sessions edit a code each, through a restart: the directory, what one has begun to save or delete, the cached registry.
SPECIFICATION Spec
CONSTANTS
    s1 = s1
    s2 = s2
    short = short
    long = long
    Codes <- MCTwoCodes
    Texts <- MCTexts
    Size <- MCSize
    Empty = Empty
    Garbled = Garbled
    Absent = Absent
    Unset = Unset
    Nobody = Nobody
    Inodes = {1, 2, 3, 4}
    Sessions <- MCTwo
    MaxCrashes = 1
    MayEdit <- MCOwnCode
INVARIANT
    BegunChangesHold
PROPERTIES
    FolderSpec
    StaleOnlyIfOvertaken
