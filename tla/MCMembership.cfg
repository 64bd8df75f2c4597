CONSTANTS
    c1 = c1  c2 = c2
    Clients = {c1, c2}
    Conns = {1, 2}
    Players = {p}
    Host = Host
    NoConn = NoConn
    Cut = {c1}
    MaxUp = 1
    MaxDown = 2
SPECIFICATION FairSpec
INVARIANTS
    ListsAreGood
    LastListIsCurrent
PROPERTIES
    NobodyIsRobbed
    RelinquishTakesEffect
