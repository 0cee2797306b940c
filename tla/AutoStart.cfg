SPECIFICATION FairAutoSpec
CONSTANTS
    a1 = a1
    Auctions = {a1}
    Patched = {"WAIT"}
    MaxRooms = 2
    MaxWrites = 1
    MaxTimers = 2
    MaxChecks = 2
    MaxArmed = 1
INVARIANTS
    HandlesAreLive
PROPERTIES
    ImplementsRegistry
    DueIsStarted
