SPECIFICATION Spec
CONSTANTS
    Names = {"plain", "late", "spring"}
    Patterns = {"utc", "east"}
    Builtin = "builtin"
    NoMatch = NoMatch
    NoDate = NoDate
    BadDate = BadDate
    NoNumber = NoNumber
    YearDays = 365
    NoEvent = NoEvent
    Raises = Raises
    Zone <- MCZone
    Reads <- MCReads
    Lists = {"p", "q"}
    First = "p"
    NoList = "none"
    Guides = {g1}
    NoGuide = NoGuide
    Shows <- MCShows
    Minutes = {0, 24}
    Modes = {"off", "name", "event"}
    Instants <- MCInstants
    Hours = 6
    NoRule = 0
    Initial <- MCInitial
    Overtaken = {2}
    MaxRule = 3
    MaxChannel = 2
    MaxEdits = 3
CONSTRAINT OneAtATime
INVARIANTS
    TypeOK
    GuideCovers
    TagCoversGuide
PROPERTIES
    AnnouncedTimeHolds
    CopyStandsAlone
CHECK_DEADLOCK FALSE
