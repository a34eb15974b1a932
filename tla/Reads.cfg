SPECIFICATION Spec
CONSTANTS
    Requests <- MCRequests
    Cells <- MCCells
    Catalog <- MCCatalog
    Essential <- MCEssential
    DefaultSize = 2
    MaxSize = 3
    MaxInt = 7
    Initial <- MCInitial
    Posts <- MCPosts
    MaxPosts = 2
    MaxAged = 1
    MaxFaults = 1
INVARIANTS
    TypeOK
    NoShortPage
    SliceExact
    WalkComplete
    WalkCounts
    GapsAgree
    GapsOnlyClose
    ReportForward
