SPECIFICATION StreamSpec
CONSTANTS
    Tasks = {main}
    Clients = {c1}
    MayRestore = FALSE
    Nodes = {investigator, critic}
    NoNode = NoNode
    Viewers = {v1}
    MaxDepth = 2
    MaxAgents = 2
    MaxWire = 1
    MaxDrops = 1
INVARIANT StreamTypeOK
INVARIANT RunHasOwnAgent
INVARIANT TokensFiled
INVARIANT NothingMissed
PROPERTY EndingStays
SYMMETRY Symmetry
CHECK_DEADLOCK FALSE
