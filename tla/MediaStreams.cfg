SPECIFICATION StreamSpec
CONSTANTS
    c1 = c1
    c2 = c2
    Clients = {c1, c2}
    NoClient = NoClient
    MaxRooms = 2
    MaxObjects = 3
SYMMETRY AnyClient
INVARIANTS
    EmptyRoomIsBeingJoined
    JoinedCanProduce
    RoomsLostOnlyToOverlap
    MembersAreUpToDate
    KeptConsumersLive
