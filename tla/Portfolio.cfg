SPECIFICATION Spec
CONSTANTS
    Cells <- MCCells
    Peers <- MCPeers
    Costs <- MCCosts
    Filter <- MCCells
    Histories <- MCHistories
    Lots <- MCLots
    Periods = 3
    Scale = 1
    Back <- MCBack
    Step = 45
    MaxToday = 90
    MaxPosts = 2
INVARIANTS
    TypeOK
    NeverPraisedAndBlamed
    StatusesAgree
    ROIConsistent
    TrendSound
PROPERTIES
    SilenceOnlyWorsens
    TrafficNeverKills
