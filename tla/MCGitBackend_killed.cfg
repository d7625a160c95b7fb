\* As the safety run, for what the comment in queue-wrapper.sh says.
SPECIFICATION BackendSpec
CONSTANTS
    Clients = {c1, c2}
    Workers = {w1}
    NoClient = NoClient
    MaxID = 2
    SocketRoom = 1
    Threads = 2
    Services = {nginx, fcgi}
INVARIANTS
    SlotUntilPackExits
