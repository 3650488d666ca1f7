SPECIFICATION MCSpec
SYMMETRY MCSymmetry
CONSTANTS
    a = a
    b = b
    again = again
    other = other
    NoCat = NoCat
    Cats <- MCCats
    Foreign <- MCForeign
    Label <- MCLabel
    Rank <- MCRank
    NameKey <- MCNameKey
    Reqs = {r1, r2}
    Imported = 3
    MaxId = 5
    PageSize = 2
    MaxEdits = 2
INVARIANT
    TypeOK
PROPERTIES
    NewChannelsComeLast
    NewCategoriesComeLast
    DragMovesOnlyLoaded
    SortStaysInPlace
    MergeKeepsWhatItSaw
CHECK_DEADLOCK FALSE
