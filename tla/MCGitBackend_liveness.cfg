\* Two fetches compete for one slot while processes crash and are killed.
SPECIFICATION FairBackendSpec
CONSTANTS
    Clients = {c1, c2}
    Workers = {w1}
    NoClient = NoClient
    MaxID = 2
    SocketRoom = 1
    Threads = 2
    Services = {nginx}
PROPERTIES
    RequestEnds
