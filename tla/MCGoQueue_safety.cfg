\* Three connections for two slots, with an ID for each.
SPECIFICATION Spec
CONSTANTS
    Clients = {c1, c2, c3}
    Workers = {w1, w2}
    NoClient = NoClient
    MaxID = 3
    SocketRoom = 1
SYMMETRY Symmetry
INVARIANTS
    TypeOK
    GrantHoldsSlot
    AdmissionLimit
    PositionsFall
    PositionCoversQueue
PROPERTIES
    ImplementsAdmission
    CurrentIDNeverFalls
CHECK_DEADLOCK FALSE
