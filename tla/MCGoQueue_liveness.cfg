\* Two connections compete for one slot, or cancel while they wait for it; a
\* third finds no ID left and ends the process.
SPECIFICATION FairSpec
CONSTANTS
    Clients = {c1, c2, c3}
    Workers = {w1}
    NoClient = NoClient
    MaxID = 2
    SocketRoom = 1
PROPERTIES
    HungUpClientEnds
    EveryoneServed
CHECK_DEADLOCK FALSE
