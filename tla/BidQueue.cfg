CONSTANTS
    Auctions = {a}
    Users = {u, guest}
    Anonymous = {guest}
    AnonItems = {1}
    Prices = {1, 2}
    Budget = 2
    MaxItems = 2
    MaxBids = 2
    MaxRuns = 2
SPECIFICATION FairQueueSpec
INVARIANTS
    ServedInOrder
    RaisedOncePerItem
    LeaderIsMember
    FirstComeFirstServed
PROPERTY
    EveryBidIsServed
