CONSTANTS
    Rest = rest
    Streams = {s1}
    Names = {a, b}
    NoName = noname
    Fields = {f, g}
    Ids = {1, 2, 3}
    MaxRequests = 3
SPECIFICATION Spec
SYMMETRY Interchangeable
INVARIANTS
    TypeOK
    OneRowPerName
    PartialIsExplained
    ReportsAreTrue
    WatchedIsWhole
    ImportLinksItsEntities
