SPECIFICATION MediaSpec
CONSTANTS
    c1 = c1
    c2 = c2
    Clients = {c1, c2}
    NoClient = NoClient
    MaxRooms = 1
PROPERTIES
    JoinCollectsProducers
