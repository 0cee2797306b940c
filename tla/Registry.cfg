SPECIFICATION FairRegistrySpec
CONSTANTS
    a1 = a1
    a2 = a2
    Auctions = {a1, a2}
    Patched = {"PROGRESS", "END", "TERMINATED"}
    MaxRooms = 2
    MaxWrites = 2
INVARIANTS
    OneRoom
    MapHasTheRooms
    ReadyIsLoading
    WaitingHasNoRoom
PROPERTIES
    ReadyIsLeft
