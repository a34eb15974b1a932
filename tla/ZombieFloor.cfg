SPECIFICATION Spec
CONSTANTS
    Cells <- MCCells
    Peers <- MCPeers
    Costs <- MCCosts
    Filter <- MCCells
    Histories <- MCHistories
    Lots <- MCLots
    Periods = 3
    Scale = 1
    Back = {0, 100}
    Step = 45
    MaxToday = 135
    MaxPosts = 2
INVARIANT EstablishedByBaseline
