CONSTANTS
    Auctions = {a}
    Users = {guest}
    Anonymous = {guest}
    AnonItems = {1}
    Prices = {1}
    Budget = 1
    MaxItems = 2
    MaxBids = 1
    MaxRuns = 1
SPECIFICATION QueueSpec
INVARIANT
    AnonymousOnlyWhereAllowed
