\* Three fetches, two at a time, one slot, and IDs for two connections only:
\* the third overflows the ID counter.
SPECIFICATION BackendSpec
CONSTANTS
    Clients = {c1, c2, c3}
    Workers = {w1}
    NoClient = NoClient
    MaxID = 2
    SocketRoom = 1
    Threads = 2
    Services = {nginx, fcgi}
SYMMETRY Symmetry
INVARIANTS
    BackendTypeOK
    PackHoldsSlot
    PacksWithinQueue
PROPERTIES
    IDsAscend
